---------------------------- MODULE Organizations ----------------------------
(***************************************************************************)
(* Membership of one organization: who owns it, who manages it, and what   *)
(* concurrent requests may do to that.                                     *)
(*                                                                         *)
(* A membership change runs in a transaction that locks the organization   *)
(* row, reads the roles it decides on and then writes: two steps here, the *)
(* lock held in between.  Deleting an account checks the last-owner rule   *)
(* in a trigger and removes the memberships by a cascade; it takes no lock *)
(* on the organization.                                                    *)
(***************************************************************************)
EXTENDS Naturals, FiniteSets

CONSTANTS
    Users,              \* accounts
    Requests,           \* slots for concurrent API requests
    NoRequest,          \* the organization row is not locked
    MaxAccountDeletes   \* bound: requests to delete an account

ASSUME OrganizationsAssumption ==
    /\ Users # {} /\ IsFiniteSet(Users)
    /\ NoRequest \notin Requests
    /\ MaxAccountDeletes \in Nat

VARIABLES
    users,      \* accounts that exist
    life,       \* of the organization: "unborn", "live" or "deleted"
    role,       \* role[u]: organization_members.role, or "none"
    renamed,    \* the name is no longer the one it was created with
    lock,       \* the request that holds the organization row FOR UPDATE
    request,    \* request[r]: what r asks for and how far it is
    overlapped, \* observer: an account was deleted while another request was
                \* between its check and its write, or the other way around
    deletes     \* requests to delete an account so far

vars == <<users, life, role, renamed, lock, request, overlapped, deletes>>

-----------------------------------------------------------------------------
(* State                                                                   *)

OrganizationRole == {"owner", "admin", "member"}
MembershipOps == {"add_member", "set_member_role", "remove_member"}
Ops == MembershipOps \cup {"rename", "delete", "delete_account"}
Request == [pc : {"free", "begun", "write"}, op : Ops, actor : Users,
            target : Users, role : OrganizationRole]

TypeOK ==
    /\ users \in SUBSET Users
    /\ life \in {"unborn", "live", "deleted"}
    /\ role \in [Users -> OrganizationRole \cup {"none"}]
    /\ renamed \in BOOLEAN
    /\ lock \in Requests \cup {NoRequest}
    /\ request \in [Requests -> Request]
    /\ overlapped \in BOOLEAN
    /\ deletes \in Nat

Idle == [pc |-> "free", op |-> "delete", actor |-> CHOOSE u \in Users : TRUE,
         target |-> CHOOSE u \in Users : TRUE, role |-> "member"]

Init ==
    /\ users = Users
    /\ life = "unborn"
    /\ role = [u \in Users |-> "none"]
    /\ renamed = FALSE
    /\ lock = NoRequest
    /\ request = [r \in Requests |-> Idle]
    /\ overlapped = FALSE
    /\ deletes = 0

-----------------------------------------------------------------------------
(* OrganizationRole and the guards built on it                             *)

reaches(mine, other) ==
    \/ mine = "owner"
    \/ mine = "admin" /\ other \in {"admin", "member"}

is_manager(mine) == mine \in {"owner", "admin"}

Owners == {u \in Users : role[u] = "owner"}

(* Mutant: the owner who leaves is counted as another one.                 *)
ensure_an_owner == Cardinality(Owners) > 0

(* ensure_another_owner: owner_count of the rows committed by others.      *)
ensure_another_owner == Cardinality(Owners) > 1

upsert_member(u, new) == role' = [role EXCEPT ![u] = new]

remove_member(u) == role' = [role EXCEPT ![u] = "none"]

-----------------------------------------------------------------------------
(* What a request decides on once it holds the lock                        *)

(* An owner may lose that role only while another one is left.             *)
MayStopOwning(t) == role[t] = "owner" => ensure_another_owner

add_member_allowed(q) ==
    /\ is_manager(role[q.actor])
    /\ reaches(role[q.actor], q.role)
    /\ role[q.target] # "none" =>
         /\ reaches(role[q.actor], role[q.target])
         /\ role[q.target] # q.role => MayStopOwning(q.target)

set_member_role_allowed(q) ==
    /\ is_manager(role[q.actor])
    /\ role[q.target] # "none"
    /\ reaches(role[q.actor], role[q.target])
    /\ reaches(role[q.actor], q.role)
    /\ role[q.target] # q.role => MayStopOwning(q.target)

(* Leaving is always allowed, but for the last owner.                      *)
remove_member_allowed(q) ==
    /\ role[q.actor] # "none"
    /\ role[q.target] # "none"
    /\ q.target # q.actor => /\ is_manager(role[q.actor])
                             /\ reaches(role[q.actor], role[q.target])
    /\ MayStopOwning(q.target)

Allowed(q) ==
    \/ q.op = "add_member" /\ add_member_allowed(q)
    \/ q.op = "set_member_role" /\ set_member_role_allowed(q)
    \/ q.op = "remove_member" /\ remove_member_allowed(q)

-----------------------------------------------------------------------------
(* Requests                                                                *)

Step(r, l) == request' = [request EXCEPT ![r].pc = l]
End(r) == request' = [request EXCEPT ![r] = Idle]

(* A request arrives from an account that exists; add_member has already   *)
(* resolved the address to an account.                                     *)
Begin(r, op, a, t, new) ==
    /\ request[r].pc = "free"
    /\ a \in users
    /\ op = "add_member" => t \in users
    /\ request' = [request EXCEPT ![r] =
                     [pc |-> "begun", op |-> op, actor |-> a, target |-> t,
                      role |-> new]]
    /\ UNCHANGED <<users, life, role, renamed, lock>>

BeginMembership(r) ==
    /\ \E a, t \in Users, new \in OrganizationRole :
          \/ Begin(r, "add_member", a, t, new)
          \/ Begin(r, "set_member_role", a, t, new)
          \/ Begin(r, "remove_member", a, t, "member")
    /\ UNCHANGED <<overlapped, deletes>>

BeginRename(r) ==
    /\ \E a \in Users : Begin(r, "rename", a, a, "member")
    /\ UNCHANGED <<overlapped, deletes>>

BeginDelete(r) ==
    /\ \E a \in Users : Begin(r, "delete", a, a, "member")
    /\ UNCHANGED <<overlapped, deletes>>

(* An administrator deletes the account t.                                 *)
BeginDeleteAccount(r) ==
    /\ deletes < MaxAccountDeletes
    /\ \E t \in Users : Begin(r, "delete_account", t, t, "member")
    /\ deletes' = deletes + 1
    /\ UNCHANGED overlapped

(* An account whose row a delete holds: a new membership waits for it.     *)
BeingDeleted(u) == \E r \in Requests :
    request[r].pc = "write" /\ request[r].op = "delete_account"
                            /\ request[r].target = u

(* OrganizationRepository::create: the organization and its first owner in *)
(* one transaction.                                                        *)
Create(u) ==
    /\ life = "unborn" /\ u \in users /\ ~BeingDeleted(u)
    /\ life' = "live"
    /\ upsert_member(u, "owner")
    /\ UNCHANGED <<users, renamed, lock, request, overlapped, deletes>>

(* Mutant: the roles are read without the lock.                            *)
LockAndCheck_unlocked(r) ==
    LET q == request[r] IN
    /\ q.pc = "begun" /\ q.op \in MembershipOps
    /\ \/ life = "live" /\ Allowed(q) /\ Step(r, "write")
       \/ ~(life = "live" /\ Allowed(q)) /\ End(r)
    /\ UNCHANGED <<users, life, role, renamed, lock, overlapped, deletes>>

(* lock() waits for the holder; a missing organization, or a check that    *)
(* fails, ends the request and its transaction.                            *)
LockAndCheck(r) ==
    LET q == request[r] IN
    /\ q.pc = "begun" /\ q.op \in MembershipOps
    /\ lock = NoRequest
    /\ \/ life = "live" /\ Allowed(q) /\ lock' = r /\ Step(r, "write")
       \/ ~(life = "live" /\ Allowed(q)) /\ UNCHANGED lock /\ End(r)
    /\ UNCHANGED <<users, life, role, renamed, overlapped, deletes>>

(* Another request is between its check and its write.                     *)
Overlaps(r, ops) == \E o \in Requests \ {r} :
    request[o].pc = "write" /\ request[o].op \in ops

(* The write and the commit.  The foreign key refuses a membership of an   *)
(* account that has gone; any failure rolls back.                          *)
WriteMembership(r) ==
    LET q == request[r] IN
    /\ q.pc = "write" /\ q.op \in MembershipOps
    /\ \/ q.op = "remove_member" /\ remove_member(q.target)
       \/ /\ q.op # "remove_member" /\ q.target \in users
          /\ role[q.target] = "none" => ~BeingDeleted(q.target)
          /\ upsert_member(q.target, q.role)
       \/ UNCHANGED role
    /\ lock' = NoRequest
    /\ overlapped' = (overlapped \/ Overlaps(r, {"delete_account"}))
    /\ End(r)
    /\ UNCHANGED <<users, life, renamed, deletes>>

(* OrganizationService::rename and delete: access() and the role without a *)
(* lock, then the statement, which waits for the lock.                     *)
CheckRename(r) ==
    LET q == request[r]
        authorized == life = "live" /\ is_manager(role[q.actor])
    IN
    /\ q.pc = "begun" /\ q.op = "rename"
    /\ \/ authorized /\ Step(r, "write")
       \/ ~authorized /\ End(r)
    /\ UNCHANGED <<users, life, role, renamed, lock, overlapped, deletes>>

Rename(r) ==
    /\ request[r].pc = "write" /\ request[r].op = "rename"
    /\ lock = NoRequest
    /\ renamed' = (renamed \/ life = "live")
    /\ End(r)
    /\ UNCHANGED <<users, life, role, lock, overlapped, deletes>>

CheckDelete(r) ==
    LET q == request[r] IN
    /\ q.pc = "begun" /\ q.op = "delete"
    /\ \/ life = "live" /\ role[q.actor] = "owner" /\ Step(r, "write")
       \/ ~(life = "live" /\ role[q.actor] = "owner") /\ End(r)
    /\ UNCHANGED <<users, life, role, renamed, lock, overlapped, deletes>>

Delete(r) ==
    LET q == request[r] IN
    /\ q.pc = "write" /\ q.op = "delete"
    /\ lock = NoRequest
    /\ life' = IF life = "live" THEN "deleted" ELSE life
    /\ role' = [u \in Users |-> "none"]
    /\ End(r)
    /\ UNCHANGED <<users, renamed, lock, overlapped, deletes>>

(* DELETE FROM users: the trigger prevent_orphaned_organization runs first *)
(* and sees what is committed ...                                          *)
CheckDeleteAccount(r) ==
    LET t == request[r].target
        orphaned == role[t] = "owner" /\ Owners = {t}
    IN
    /\ request[r].pc = "begun" /\ request[r].op = "delete_account"
    /\ ~BeingDeleted(t)
    /\ \/ t \in users /\ ~orphaned /\ Step(r, "write")
       \/ ~(t \in users /\ ~orphaned) /\ End(r)
    /\ UNCHANGED <<users, life, role, renamed, lock, overlapped, deletes>>

(* ... then the cascade removes the membership.                            *)
DeleteAccount(r) ==
    LET t == request[r].target IN
    /\ request[r].pc = "write" /\ request[r].op = "delete_account"
    /\ users' = users \ {t}
    /\ remove_member(t)
    /\ overlapped' = (overlapped
                       \/ Overlaps(r, MembershipOps \cup {"delete_account"}))
    /\ End(r)
    /\ UNCHANGED <<life, renamed, lock, deletes>>

-----------------------------------------------------------------------------
Next ==
    \/ \E u \in Users : Create(u)
    \/ \E r \in Requests : BeginMembership(r)
    \/ \E r \in Requests : BeginRename(r)
    \/ \E r \in Requests : BeginDelete(r)
    \/ \E r \in Requests : BeginDeleteAccount(r)
    \/ \E r \in Requests : LockAndCheck(r)
    \/ \E r \in Requests : WriteMembership(r)
    \/ \E r \in Requests : CheckRename(r)
    \/ \E r \in Requests : Rename(r)
    \/ \E r \in Requests : CheckDelete(r)
    \/ \E r \in Requests : Delete(r)
    \/ \E r \in Requests : CheckDeleteAccount(r)
    \/ \E r \in Requests : DeleteAccount(r)

Spec == Init /\ [][Next]_vars

-----------------------------------------------------------------------------
(* Properties                                                              *)

(* "An organization always keeps at least one owner": the check and the    *)
(* write it guards are not separated by another membership change.  The    *)
(* exception is an account deleted between the two, or a membership        *)
(* changed, or another account deleted, between the trigger and its        *)
(* cascade: the trigger takes no lock on the organization.                 *)
OwnerRemains == life = "live" /\ ~overlapped => Owners # {}

(* "An organization must always keep an owner, and deleting an account     *)
(* must not be able to break that", as the migration that adds the trigger *)
(* says, with no exception.  The code does not keep this.                  *)
OwnerAlwaysRemains == life = "live" => Owners # {}

(* Request r changes the membership of somebody other than its actor ...   *)
ChangesAnother(r) ==
    LET q == request[r] IN
    /\ q.pc = "write" /\ q.op \in MembershipOps /\ request'[r].pc = "free"
    /\ q.target # q.actor /\ q.actor \in users
    /\ role'[q.target] # role[q.target]

(* ... and the actor's role reaches the old and the new one.               *)
WithinReach(r) ==
    LET q == request[r] IN
    /\ is_manager(role[q.actor])
    /\ \A held \in {role[q.target], role'[q.target]} \ {"none"} :
          reaches(role[q.actor], held)

(* "An account may only reach as far as its own role", and not as far as a *)
(* role it held a moment ago: when a request changes somebody else's       *)
(* membership, the actor's role at that very step reaches both the old and *)
(* the new role of the target.                                             *)
ReachIsCurrent ==
    [][\A r \in Requests : ChangesAnother(r) => WithinReach(r)]_vars
=============================================================================
