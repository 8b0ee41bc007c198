--------------------------- MODULE Administration ---------------------------
(***************************************************************************)
(* Administrator operations over accounts, and the invariant that an       *)
(* instance keeps an administrator who can sign in.                        *)
(*                                                                         *)
(* A request is authenticated and authorized in three reads of the         *)
(* database and acts on it later, statement by statement, with no          *)
(* transaction around any two of them.  Of the roles only `admin' is kept. *)
(* A login is one step here: module Accounts has its statements.           *)
(***************************************************************************)
EXTENDS Naturals

CONSTANTS
    Users,      \* accounts, registered or not
    Founder,    \* the administrator the instance was bootstrapped with
    Requests,   \* slots for concurrent administrator requests
    RequireVerification     \* require_email_verification of the deployment

ASSUME AdministrationAssumption ==
    Founder \in Users /\ RequireVerification \in BOOLEAN

VARIABLES
    status,     \* status[u]: users.status; "absent" before and "deleted" after
    verified,   \* accounts with email_verified_at set
    admins,     \* accounts holding the admin role
    signed_in,  \* accounts with a session that is not revoked
    request,    \* request[r]: what r asks for and how far it is
    overlapped, \* observer: a removal was written while another was checked
    vouched     \* observer: an account that cannot sign in was made active

observed == <<overlapped, vouched>>
adminVars == <<status, verified, admins, signed_in, request, observed>>

-----------------------------------------------------------------------------
(* State                                                                   *)

UserStatus == {"pending", "active", "disabled"}
Ops == {"enable", "disable", "delete", "grant", "revoke_role",
        "revoke_sessions"}
Request == [pc : {"free", "session", "user", "authorized", "read", "checked",
                  "written"},
            op : Ops, actor : Users, target : Users]

AdminTypeOK ==
    /\ status \in [Users -> UserStatus \cup {"absent", "deleted"}]
    /\ verified \in SUBSET Users
    /\ admins \in SUBSET Users
    /\ signed_in \in SUBSET Users
    /\ request \in [Requests -> Request]
    /\ overlapped \in BOOLEAN
    /\ vouched \in BOOLEAN

Idle == [pc |-> "free", op |-> "enable", actor |-> Founder, target |-> Founder]

(* After the bootstrap command: one verified administrator.                *)
AdminInit ==
    /\ status = [u \in Users |-> IF u = Founder THEN "active" ELSE "absent"]
    /\ verified = {Founder}
    /\ admins = {Founder}
    /\ signed_in = {}
    /\ request = [r \in Requests |-> Idle]
    /\ overlapped = FALSE
    /\ vouched = FALSE

Exists(u) == status[u] \in UserStatus

(* verify_credentials with the right password.                             *)
MaySignIn(u) ==
    Exists(u) /\ status[u] # "disabled" /\ (RequireVerification => u \in verified)

(* RbacRepository::active_admin_ids                                        *)
active_admin_ids == {u \in admins : status[u] = "active"}

-----------------------------------------------------------------------------
(* Accounts on their own                                                   *)

(* The identifier is new: a deleted account does not come back.            *)
Register(u) ==
    /\ status[u] = "absent"
    /\ status' = [status EXCEPT ![u] =
                     IF RequireVerification THEN "pending" ELSE "active"]
    /\ UNCHANGED <<verified, admins, signed_in, request, observed>>

(* verify_email: mark_email_verified activates only a pending account.     *)
VerifyEmail(u) ==
    /\ Exists(u) /\ u \notin verified
    /\ verified' = verified \cup {u}
    /\ status' = [status EXCEPT ![u] = IF @ = "pending" THEN "active" ELSE @]
    /\ UNCHANGED <<admins, signed_in, request, observed>>

OpenSession(u) ==
    /\ MaySignIn(u)
    /\ signed_in' = signed_in \cup {u}
    /\ UNCHANGED <<status, verified, admins, request, observed>>

(* The grant_admin command: it reads the roles and writes them back with   *)
(* `admin' among them.                                                     *)
grant_role_by_email(u) ==
    /\ Exists(u)
    /\ admins' = admins \cup {u}
    /\ UNCHANGED <<status, verified, signed_in, request, observed>>

-----------------------------------------------------------------------------
(* Administrator requests                                                  *)

Step(r, l) == request' = [request EXCEPT ![r].pc = l]
End(r) == request' = [request EXCEPT ![r] = Idle]
At(r, l, ops) == request[r].pc = l /\ request[r].op \in ops

(* r has read what lets it remove an administrator and will not read it    *)
(* again: for a disable and a deletion that its caller is not disabled,    *)
(* for a role that ensure_an_admin_remains had nothing against it.         *)
PastCheck(r) ==
    \/ At(r, "user", {"disable", "delete"})
    \/ At(r, "authorized", {"disable", "delete"})
    \/ At(r, "checked", {"revoke_role"})

Overlaps(r) ==
    /\ overlapped' = (overlapped \/ \E o \in Requests \ {r} : PastCheck(o))
    /\ UNCHANGED vouched

(* AuthenticatedUser reads the caller's session ...                        *)
Authenticate(r, op, a, t) ==
    /\ request[r].pc = "free"
    /\ a \in signed_in
    /\ request' = [request EXCEPT ![r] =
                     [pc |-> "session", op |-> op, actor |-> a, target |-> t]]
    /\ UNCHANGED <<status, verified, admins, signed_in, observed>>

(* ... the account with its status ...                                     *)
session_user(r) ==
    LET a == request[r].actor IN
    /\ request[r].pc = "session"
    /\ \/ Exists(a) /\ status[a] # "disabled" /\ Step(r, "user")
       \/ (~Exists(a) \/ status[a] = "disabled") /\ End(r)
    /\ UNCHANGED <<status, verified, admins, signed_in, observed>>

(* ... and its roles, for require_role.  The refusal to target the caller  *)
(* follows without another read.                                           *)
require_role(r) ==
    LET q == request[r]
        refused == \/ q.actor \notin admins
                   \/ q.op \in {"enable", "disable", "delete"} /\ q.target = q.actor
    IN
    /\ q.pc = "user"
    /\ \/ ~refused /\ Step(r, "authorized")
       \/ refused /\ End(r)
    /\ UNCHANGED <<status, verified, admins, signed_in, observed>>

(* UserRepository::set_status; a missing account is a 404.                 *)
SetStatus(r) ==
    LET q == request[r] IN
    /\ At(r, "authorized", {"enable", "disable"})
    /\ \/ /\ Exists(q.target)
          /\ status' = [status EXCEPT ![q.target] =
                          IF q.op = "enable" THEN "active" ELSE "disabled"]
          /\ \/ q.op = "disable" /\ Step(r, "written") /\ Overlaps(r)
             \/ /\ q.op = "enable" /\ End(r) /\ UNCHANGED overlapped
                /\ vouched' = \/ vouched
                              \/ RequireVerification /\ q.target \notin verified
       \/ ~Exists(q.target) /\ UNCHANGED <<status, observed>> /\ End(r)
    /\ UNCHANGED <<verified, admins, signed_in>>

(* revoke_all_for_user, after a disable or on its own.                     *)
revoke_account_sessions(r) ==
    /\ At(r, "written", {"disable"}) \/ At(r, "authorized", {"revoke_sessions"})
    /\ signed_in' = signed_in \ {request[r].target}
    /\ End(r)
    /\ UNCHANGED <<status, verified, admins, observed>>

(* UserRepository::delete: sessions and role grants cascade.  An account   *)
(* that has gone, the address typed to confirm, and the trigger for the    *)
(* last owner of an organization may refuse.                               *)
DeleteAccount(r) ==
    LET t == request[r].target IN
    /\ At(r, "authorized", {"delete"})
    /\ \/ /\ Exists(t)
          /\ status' = [status EXCEPT ![t] = "deleted"]
          /\ verified' = verified \ {t}
          /\ admins' = admins \ {t}
          /\ signed_in' = signed_in \ {t}
          /\ Overlaps(r)
       \/ UNCHANGED <<status, verified, admins, signed_in, observed>>
    /\ End(r)

(* set_account_roles reads the roles of the account, and goes through the  *)
(* check only when the change takes `admin' away from one read to have it. *)
roles_for(r) ==
    LET q == request[r] IN
    /\ At(r, "authorized", {"grant", "revoke_role"})
    /\ Step(r, IF q.op = "revoke_role" /\ q.target \in admins
               THEN "read" ELSE "checked")
    /\ UNCHANGED <<status, verified, admins, signed_in, observed>>

(* Mutant: administrators who are disabled count.                          *)
AnAdminRemains_somehow(t) == admins # {t}

(* Refused only for the last active administrator.                         *)
AnAdminRemains(t) == active_admin_ids # {t}

ensure_an_admin_remains(r) ==
    LET t == request[r].target IN
    /\ At(r, "read", {"revoke_role"})
    /\ \/ AnAdminRemains(t) /\ Step(r, "checked")
       \/ ~AnAdminRemains(t) /\ End(r)
    /\ UNCHANGED <<status, verified, admins, signed_in, observed>>

(* replace_for_user.  The account is read once more just before, for the   *)
(* 404: one that goes after that has no roles left to take away, and the   *)
(* foreign key refuses it new ones.                                        *)
WriteRoles(r) ==
    LET t == request[r].target IN
    /\ \/ /\ At(r, "checked", {"grant"})
          /\ admins' = IF Exists(t) THEN admins \cup {t} ELSE admins
          /\ UNCHANGED observed
       \/ /\ At(r, "checked", {"revoke_role"})
          /\ admins' = admins \ {t}
          /\ Overlaps(r)
    /\ End(r)
    /\ UNCHANGED <<status, verified, signed_in>>

-----------------------------------------------------------------------------
Administer(r) ==
    \/ \E op \in Ops, a, t \in Users : Authenticate(r, op, a, t)
    \/ session_user(r)
    \/ require_role(r)
    \/ SetStatus(r)
    \/ revoke_account_sessions(r)
    \/ DeleteAccount(r)
    \/ roles_for(r)
    \/ ensure_an_admin_remains(r)
    \/ WriteRoles(r)

AdminNext ==
    \/ \E u \in Users : Register(u)
    \/ \E u \in Users : VerifyEmail(u)
    \/ \E u \in Users : OpenSession(u)
    \/ \E u \in Users : grant_role_by_email(u)
    \/ \E r \in Requests : Administer(r)

AdminSpec == AdminInit /\ [][AdminNext]_adminVars

-----------------------------------------------------------------------------
(* Properties                                                              *)

(* "an instance always keeps at least one administrator who can sign in":  *)
(* the two rules of administration.rs together, over every sequence of     *)
(* requests.  Two things escape them.  One is a removal written while      *)
(* another, whose checks are behind it, is not: no lock joins check and    *)
(* write.  The other is an account that was made active without a verified *)
(* address where one is required: the check counts it as one that can sign *)
(* in.                                                                     *)
AdministratorRemains ==
    ~overlapped /\ ~vouched => \E u \in admins : MaySignIn(u)

(* The claim as the code states it.  It does not hold: either of the two   *)
(* leaves an instance that nobody can administer.                          *)
AlwaysAnAdministrator == \E u \in admins : MaySignIn(u)
=============================================================================
