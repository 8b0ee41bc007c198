------------------------- MODULE OrganizationsProofs -------------------------
(***************************************************************************)
(* Proofs about Organizations: whatever requests race, the organization    *)
(* keeps an owner and nobody acts with a role that is no longer theirs.    *)
(***************************************************************************)
EXTENDS Organizations, FiniteSetTheorems, TLAPS

-----------------------------------------------------------------------------
(* The inductive invariant                                                 *)

(* A membership change, or an account deletion, past its check.            *)
Writes(r) == request[r].pc = "write" /\ request[r].op \in MembershipOps
Deletes(r) == request[r].pc = "write" /\ request[r].op = "delete_account"

(* A membership change past its check holds the organization's row, which  *)
(* keeps the organization there; without one there are no memberships.     *)
LockInv ==
    /\ \A r \in Requests : Writes(r) => lock = r /\ life = "live"
    /\ life # "live" => \A u \in Users : role[u] = "none"

(* What a request checked still holds when it writes, unless an account    *)
(* was deleted in between.                                                 *)
CheckInv == ~overlapped => \A r \in Requests :
    /\ Writes(r) => Allowed(request[r])
    /\ Deletes(r) => Owners # {request[r].target}

(* The reach of the actor survives even that, while the actor exists.      *)
Reach(q) ==
    q.actor # q.target /\ q.actor \in users =>
      /\ is_manager(role[q.actor])
      /\ q.op # "remove_member" => reaches(role[q.actor], q.role)
      /\ role[q.target] # "none" => reaches(role[q.actor], role[q.target])

ReachInv == \A r \in Requests : Writes(r) => Reach(request[r])

Parts == LockInv /\ CheckInv /\ OwnerRemains /\ ReachInv

IInv == TypeOK /\ Parts

-----------------------------------------------------------------------------
(* Lemmas                                                                  *)

(* A free slot is a request like any other.                                *)
LEMMA IdleType == Idle \in Request /\ Idle.pc = "free"
BY OrganizationsAssumption DEF Idle, Request, Ops, MembershipOps,
                               OrganizationRole

(* ensure_another_owner: with more than one, whoever goes leaves one.      *)
LEMMA AnotherOwner ==
    ASSUME NEW t, ensure_another_owner
    PROVE  \E u \in Owners : u # t
<1> SUFFICES ASSUME Owners \subseteq {t} PROVE FALSE
  OBVIOUS
<1>1. IsFiniteSet({t}) /\ Cardinality({t}) = 1
  BY FS_Singleton
<1>2. Cardinality(Owners) <= 1 /\ Cardinality(Owners) \in Nat
  <2> DEFINE S == Owners
  <2> HIDE DEF S
  <2>1. Cardinality(S) <= Cardinality({t}) /\ IsFiniteSet(S)
    BY <1>1, FS_Subset DEF S
  <2> QED BY <2>1, <1>1, FS_CardinalityType DEF S
<1> QED BY <1>2 DEF ensure_another_owner

(* What a step makes of the request it is about.                           *)
LEMMA RequestType ==
    ASSUME TypeOK, NEW r \in Requests
    PROVE  /\ request[r] \in Request
           /\ request[r].actor \in Users /\ request[r].target \in Users
           /\ request[r].role \in OrganizationRole
           /\ role[request[r].target] \in OrganizationRole \cup {"none"}
           /\ \A l \in {"free", "begun", "write"} :
                 LET x == [request[r] EXCEPT !.pc = l] IN
                 /\ x \in Request /\ x.pc = l /\ x.op = request[r].op
                 /\ x.actor = request[r].actor /\ x.target = request[r].target
                 /\ x.role = request[r].role
BY DEF TypeOK, Request

(* Each step moves one request; this is all that becomes of it.            *)
Moves(r, x) == request' = [request EXCEPT ![r] = x]

LEMMA StepMoves ==
    ASSUME TypeOK, NEW r \in Requests, NEW l \in {"free", "begun", "write"},
           Step(r, l)
    PROVE  \E x \in Request :
             /\ Moves(r, x) /\ x.pc = l /\ x.op = request[r].op
             /\ x.actor = request[r].actor /\ x.target = request[r].target
             /\ x.role = request[r].role
<1> DEFINE x == [request[r] EXCEPT !.pc = l]
<1>1. Moves(r, x)
  BY DEF Step, Moves, TypeOK
<1> QED BY <1>1, RequestType

LEMMA EndMoves ==
    ASSUME NEW r \in Requests, End(r)
    PROVE  \E x \in Request : Moves(r, x) /\ x.pc = "free"
BY IdleType DEF End, Moves

LEMMA BeginMoves ==
    ASSUME NEW r \in Requests, NEW op \in Ops, NEW a \in Users,
           NEW t \in Users, NEW new \in OrganizationRole,
           Begin(r, op, a, t, new)
    PROVE  /\ \E x \in Request : Moves(r, x) /\ x.pc = "begun"
           /\ UNCHANGED <<users, life, role, renamed, lock>>
<1> DEFINE x == [pc |-> "begun", op |-> op, actor |-> a, target |-> t,
                 role |-> new]
<1>1. Moves(r, x) /\ x \in Request /\ x.pc = "begun"
  BY DEF Begin, Moves, Request
<1> QED BY <1>1 DEF Begin

(* The other requests stay where they were.                                *)
LEMMA OthersStay ==
    ASSUME TypeOK, NEW r \in Requests, NEW x \in Request, Moves(r, x)
    PROVE  /\ request' \in [Requests -> Request]
           /\ request'[r] = x
           /\ \A o \in Requests : o # r => request'[o] = request[o]
BY DEF TypeOK, Moves

(* Nothing about a request's checks changes while the roles stay.          *)
LEMMA SameRoles ==
    ASSUME UNCHANGED <<users, role>>
    PROVE  /\ Owners' = Owners
           /\ \A o \in Requests : request'[o] = request[o] =>
                /\ Allowed(request[o]) => Allowed(request[o])'
                /\ Reach(request[o]) => Reach(request[o])'
<1>1. Owners' = Owners
  BY DEF Owners
<1> QED
  BY <1>1 DEF Allowed, add_member_allowed, set_member_role_allowed,
     remove_member_allowed, MayStopOwning, ensure_another_owner, Reach,
     is_manager, reaches

-----------------------------------------------------------------------------
(* A step that only moves a request, and not past a check                  *)

Rest == <<users, life, role, lock, overlapped>>

LEMMA QuietStep ==
    ASSUME IInv, NEW r \in Requests, NEW x \in Request, Moves(r, x),
           x.pc = "write" => x.op \notin MembershipOps \cup {"delete_account"},
           UNCHANGED Rest
    PROVE  Parts'
<1>1. \A o \in Requests : Writes(o)' \/ Deletes(o)' =>
         o # r /\ request'[o] = request[o]
  BY OthersStay DEF IInv, Writes, Deletes
<1>2. \A o \in Requests : (Writes(o)' => Writes(o)) /\ (Deletes(o)' => Deletes(o))
  BY <1>1 DEF Writes, Deletes
<1>3. UNCHANGED <<users, role>>
  BY DEF Rest
<1>4. LockInv'
  BY <1>1, <1>2 DEF IInv, Parts, LockInv, Rest
<1>5. CheckInv'
  BY <1>1, <1>2, <1>3, SameRoles DEF IInv, Parts, CheckInv, Rest
<1>6. ReachInv'
  BY <1>1, <1>2, <1>3, SameRoles DEF IInv, Parts, ReachInv
<1>7. OwnerRemains'
  BY <1>3, SameRoles DEF IInv, Parts, OwnerRemains, Rest
<1> QED BY <1>4, <1>5, <1>6, <1>7 DEF Parts

-----------------------------------------------------------------------------
(* Every step keeps the types                                              *)

(* A step that moves a request from one type to another keeps the types    *)
(* when what it writes elsewhere has its type.                             *)
LEMMA TypeStep == ASSUME TypeOK, [Next]_vars PROVE TypeOK'
<1> DEFINE Others == /\ users' \in SUBSET Users
                     /\ life' \in {"unborn", "live", "deleted"}
                     /\ role' \in [Users -> OrganizationRole \cup {"none"}]
                     /\ renamed' \in BOOLEAN
                     /\ lock' \in Requests \cup {NoRequest}
                     /\ overlapped' \in BOOLEAN
                     /\ deletes' \in Nat
<1>a. ASSUME NEW r \in Requests, NEW x \in Request, Moves(r, x), Others
      PROVE  TypeOK'
  BY <1>a, OthersStay DEF TypeOK
<1>b. ASSUME UNCHANGED <<users, life, role, renamed, lock, overlapped>>,
             deletes' \in Nat
      PROVE  Others
  BY <1>b DEF TypeOK
<1>1. CASE UNCHANGED vars
  BY <1>1 DEF TypeOK, vars
<1>2. ASSUME NEW u \in Users, Create(u) PROVE TypeOK'
  BY <1>2 DEF Create, upsert_member, TypeOK, OrganizationRole
<1>3. ASSUME NEW r \in Requests, BeginMembership(r) PROVE TypeOK'
  <2>1. \E x \in Request : Moves(r, x)
    BY <1>3, BeginMoves DEF BeginMembership, Ops, MembershipOps,
       OrganizationRole
  <2>2. Others
    BY <1>3, <1>b DEF BeginMembership, Begin, TypeOK
  <2> QED BY <1>a, <2>1, <2>2
<1>4. ASSUME NEW r \in Requests, BeginRename(r) PROVE TypeOK'
  <2>1. \E x \in Request : Moves(r, x)
    BY <1>4, BeginMoves DEF BeginRename, Ops, OrganizationRole
  <2>2. Others
    BY <1>4, <1>b DEF BeginRename, Begin, TypeOK
  <2> QED BY <1>a, <2>1, <2>2
<1>5. ASSUME NEW r \in Requests, BeginDelete(r) PROVE TypeOK'
  <2>1. \E x \in Request : Moves(r, x)
    BY <1>5, BeginMoves DEF BeginDelete, Ops, OrganizationRole
  <2>2. Others
    BY <1>5, <1>b DEF BeginDelete, Begin, TypeOK
  <2> QED BY <1>a, <2>1, <2>2
<1>6. ASSUME NEW r \in Requests, BeginDeleteAccount(r) PROVE TypeOK'
  <2>1. \E x \in Request : Moves(r, x)
    BY <1>6, BeginMoves DEF BeginDeleteAccount, Ops, OrganizationRole
  <2>2. Others
    BY <1>6, <1>b DEF BeginDeleteAccount, Begin, TypeOK
  <2> QED BY <1>a, <2>1, <2>2
<1>c. ASSUME NEW r \in Requests, Step(r, "write") \/ End(r)
      PROVE  \E x \in Request : Moves(r, x)
  BY <1>c, StepMoves, EndMoves
<1>7. ASSUME NEW r \in Requests, LockAndCheck(r) PROVE TypeOK'
  <2>1. Others
    BY <1>7 DEF LockAndCheck, TypeOK
  <2> QED BY <1>7, <1>a, <1>c, <2>1 DEF LockAndCheck
<1>8. ASSUME NEW r \in Requests, WriteMembership(r) PROVE TypeOK'
  <2>1. role' \in [Users -> OrganizationRole \cup {"none"}]
    BY <1>8, RequestType DEF WriteMembership, remove_member, upsert_member,
       TypeOK
  <2>2. overlapped' \in BOOLEAN
    BY <1>8, Zenon DEF WriteMembership, TypeOK, Overlaps
  <2>3. Others
    BY <1>8, <2>1, <2>2 DEF WriteMembership, TypeOK
  <2> QED BY <1>8, <1>a, <1>c, <2>3 DEF WriteMembership
<1>9. ASSUME NEW r \in Requests, CheckRename(r) \/ CheckDelete(r)
                                 \/ CheckDeleteAccount(r)
      PROVE  TypeOK'
  <2>1. Others
    BY <1>9 DEF CheckRename, CheckDelete, CheckDeleteAccount, TypeOK
  <2> QED BY <1>9, <1>a, <1>c, <2>1
          DEF CheckRename, CheckDelete, CheckDeleteAccount
<1>10. ASSUME NEW r \in Requests, Rename(r) PROVE TypeOK'
  <2>1. renamed' \in BOOLEAN
    BY <1>10, Zenon DEF Rename, TypeOK
  <2>2. Others
    BY <1>10, <2>1 DEF Rename, TypeOK
  <2> QED BY <1>10, <1>a, <1>c, <2>2 DEF Rename
<1>11. ASSUME NEW r \in Requests, Delete(r) PROVE TypeOK'
  <2>1. Others
    BY <1>11 DEF Delete, TypeOK
  <2> QED BY <1>11, <1>a, <1>c, <2>1 DEF Delete
<1>12. ASSUME NEW r \in Requests, DeleteAccount(r) PROVE TypeOK'
  <2>1. overlapped' \in BOOLEAN
    BY <1>12, Zenon DEF DeleteAccount, TypeOK, Overlaps
  <2>2. Others
    BY <1>12, <2>1 DEF DeleteAccount, remove_member, TypeOK
  <2> QED BY <1>12, <1>a, <1>c, <2>2 DEF DeleteAccount
<1> QED BY <1>1, <1>2, <1>3, <1>4, <1>5, <1>6, <1>7, <1>8, <1>9, <1>10,
           <1>11, <1>12 DEF Next

-----------------------------------------------------------------------------
(* The steps that matter                                                   *)

(* What a request may do it may also do with the reach of its actor.       *)
LEMMA AllowedReaches ==
    ASSUME TypeOK, NEW r \in Requests, Allowed(request[r])
    PROVE  Reach(request[r])
BY RequestType DEF Allowed, add_member_allowed, set_member_role_allowed,
   remove_member_allowed, Reach, is_manager, reaches

(* Taking the lock and checking: the holder is now the request itself.     *)
LEMMA LockAndCheckStep ==
    ASSUME IInv, NEW r \in Requests, LockAndCheck(r)
    PROVE  Parts'
<1> DEFINE q == request[r]
<1>0. TypeOK /\ Parts
  BY DEF IInv
<1>1. CASE End(r) /\ UNCHANGED lock
  <2> PICK x \in Request : Moves(r, x) /\ x.pc = "free"
    BY <1>1, EndMoves
  <2> QED BY <1>1, QuietStep DEF LockAndCheck, Rest
<1>2. CASE life = "live" /\ Allowed(q) /\ lock' = r /\ Step(r, "write")
  <2> PICK x \in Request :
             /\ Moves(r, x) /\ x.pc = "write" /\ x.op = q.op
             /\ x.actor = q.actor /\ x.target = q.target /\ x.role = q.role
    BY <1>0, <1>2, StepMoves
  <2>1. lock = NoRequest /\ q.op \in MembershipOps
        /\ UNCHANGED <<users, life, role, overlapped>>
    BY DEF LockAndCheck
  <2>2. request'[r] = x
        /\ \A o \in Requests \ {r} : request'[o] = request[o]
    BY <1>0, OthersStay
  <2>3. \A o \in Requests : ~Writes(o)
    BY <1>0, <2>1, OrganizationsAssumption DEF Parts, LockInv
  <2>4. \A o \in Requests : Writes(o)' => o = r
    BY <2>2, <2>3 DEF Writes
  <2>5. \A o \in Requests : Deletes(o)' => Deletes(o) /\ o # r
    BY <2>1, <2>2 DEF Deletes, MembershipOps
  <2>6. Allowed(x)' /\ Reach(x)'
    <3>1. Reach(q)
      BY <1>0, <1>2, AllowedReaches
    <3> QED BY <1>2, <3>1, <2>1, SameRoles
            DEF Allowed, add_member_allowed, set_member_role_allowed,
                remove_member_allowed, MayStopOwning, ensure_another_owner,
                Reach, is_manager, reaches
  <2>7. LockInv'
    BY <1>0, <1>2, <2>1, <2>4 DEF Parts, LockInv
  <2>8. CheckInv'
    BY <1>0, <2>1, <2>2, <2>4, <2>5, <2>6, SameRoles DEF Parts, CheckInv
  <2>9. ReachInv'
    BY <2>2, <2>4, <2>6 DEF ReachInv
  <2>10. OwnerRemains'
    BY <1>0, <2>1, SameRoles DEF Parts, OwnerRemains
  <2> QED BY <2>7, <2>8, <2>9, <2>10 DEF Parts
<1> QED BY <1>1, <1>2 DEF LockAndCheck

(* The trigger before an account is deleted.                               *)
LEMMA CheckDeleteAccountStep ==
    ASSUME IInv, NEW r \in Requests, CheckDeleteAccount(r)
    PROVE  Parts'
<1> DEFINE t == request[r].target
<1>0. TypeOK /\ Parts
  BY DEF IInv
<1>1. CASE End(r)
  <2> PICK x \in Request : Moves(r, x) /\ x.pc = "free"
    BY <1>1, EndMoves
  <2> QED BY <1>1, QuietStep DEF CheckDeleteAccount, Rest
<1>2. CASE ~(role[t] = "owner" /\ Owners = {t}) /\ Step(r, "write")
  <2> PICK x \in Request :
             /\ Moves(r, x) /\ x.pc = "write" /\ x.op = request[r].op
             /\ x.target = t
    BY <1>0, <1>2, StepMoves
  <2>1. request[r].op = "delete_account"
        /\ UNCHANGED <<users, life, role, lock, overlapped>>
    BY DEF CheckDeleteAccount
  <2>2. request'[r] = x
        /\ \A o \in Requests \ {r} : request'[o] = request[o]
    BY <1>0, OthersStay
  <2>3. \A o \in Requests : Writes(o)' => Writes(o) /\ o # r
    BY <2>1, <2>2 DEF Writes, MembershipOps
  <2>4. \A o \in Requests : Deletes(o)' /\ o # r => Deletes(o)
    BY <2>2 DEF Deletes
  <2>5. Owners # {t}
    BY <1>2 DEF Owners
  <2>6. LockInv'
    BY <1>0, <2>1, <2>3 DEF Parts, LockInv
  <2>7. CheckInv'
    BY <1>0, <2>1, <2>2, <2>3, <2>4, <2>5, SameRoles DEF Parts, CheckInv
  <2>8. ReachInv'
    BY <1>0, <2>1, <2>2, <2>3, SameRoles DEF Parts, ReachInv
  <2>9. OwnerRemains'
    BY <1>0, <2>1, SameRoles DEF Parts, OwnerRemains
  <2> QED BY <2>6, <2>7, <2>8, <2>9 DEF Parts
<1> QED BY <1>1, <1>2 DEF CheckDeleteAccount

(* Creation: before it nobody is a member and no change is under way.      *)
LEMMA CreateStep ==
    ASSUME IInv, NEW u \in Users, Create(u)
    PROVE  Parts'
<1>0. TypeOK /\ Parts
  BY DEF IInv
<1>1. role' = [role EXCEPT ![u] = "owner"] /\ life = "unborn"
      /\ life' = "live" /\ ~BeingDeleted(u)
      /\ UNCHANGED <<users, lock, request, overlapped>>
  BY DEF Create, upsert_member
<1>2. \A o \in Requests : ~Writes(o)
  BY <1>0, <1>1 DEF Parts, LockInv
<1>3. \A o \in Requests : ~Writes(o)' /\ (Deletes(o)' => Deletes(o))
  BY <1>1, <1>2 DEF Writes, Deletes
<1>4. Owners' = {u}
  BY <1>0, <1>1 DEF Owners, Parts, LockInv, TypeOK
<1>5. \A o \in Requests : Deletes(o) => request[o].target # u
  BY <1>1 DEF BeingDeleted, Deletes
<1>6. LockInv' /\ ReachInv' /\ OwnerRemains'
  BY <1>1, <1>3, <1>4 DEF LockInv, ReachInv, OwnerRemains
<1>7. CheckInv'
  BY <1>1, <1>3, <1>4, <1>5 DEF CheckInv
<1> QED BY <1>6, <1>7 DEF Parts

(* The write of a membership change: the lock makes it the only one, and   *)
(* what it checked is still so, or an account deletion overlaps.           *)
LEMMA WriteMembershipStep ==
    ASSUME IInv, NEW r \in Requests, WriteMembership(r)
    PROVE  Parts'
<1> DEFINE q == request[r]
           t == request[r].target
<1>0. TypeOK /\ Parts
  BY DEF IInv
<1>1. /\ Writes(r) /\ lock' = NoRequest /\ UNCHANGED <<users, life>>
      /\ overlapped' = (overlapped \/ Overlaps(r, {"delete_account"}))
      /\ End(r)
  BY DEF WriteMembership, Writes
<1> PICK x \in Request : Moves(r, x) /\ x.pc = "free"
  BY <1>1, EndMoves
<1>2. request'[r] = x
      /\ \A o \in Requests \ {r} : request'[o] = request[o]
  BY <1>0, OthersStay
<1>3. life = "live" /\ \A o \in Requests : Writes(o) => o = r
  BY <1>0, <1>1 DEF Parts, LockInv
<1>4. \A o \in Requests : ~Writes(o)'
  BY <1>2, <1>3 DEF Writes
<1>5. \A o \in Requests : Deletes(o)' => Deletes(o) /\ o # r
  BY <1>2 DEF Deletes
<1>6. ~overlapped' => ~overlapped /\ \A o \in Requests : ~Deletes(o)'
  <2>1. (\E o \in Requests : Deletes(o)') => Overlaps(r, {"delete_account"})
    BY <1>5 DEF Overlaps, Deletes
  <2> QED BY <1>1, <2>1, Zenon
<1>7. LockInv' /\ CheckInv' /\ ReachInv'
  BY <1>1, <1>3, <1>4, <1>6 DEF LockInv, CheckInv, ReachInv
<1>8. ASSUME ~overlapped' PROVE Owners' # {}
  <2>1. Allowed(q) /\ Owners # {}
    BY <1>0, <1>1, <1>3, <1>6, <1>8 DEF Parts, CheckInv, OwnerRemains
  <2>2. t \in Users /\ q.op \in MembershipOps
    BY <1>0, <1>1, RequestType DEF Writes
  <2>3. CASE role' = role
    BY <2>1, <2>3 DEF Owners
  <2>4. ASSUME NEW new, role' = [role EXCEPT ![t] = new], new # "owner",
               role[t] = "owner" => ensure_another_owner
        PROVE  Owners' # {}
    <3>1. \E u \in Owners : u # t
      BY <2>1, <2>4, AnotherOwner DEF Owners
    <3> QED BY <1>0, <2>4, <3>1 DEF Owners, TypeOK
  <2>5. CASE q.op = "remove_member" /\ remove_member(t)
    <3>1. role[t] = "owner" => ensure_another_owner
      BY <2>1, <2>5 DEF Allowed, remove_member_allowed, MayStopOwning
    <3> QED BY <2>4, <2>5, <3>1 DEF remove_member
  <2>6. CASE q.op # "remove_member" /\ upsert_member(t, q.role)
    <3>1. CASE q.role = "owner"
      BY <1>0, <2>2, <2>6, <3>1 DEF upsert_member, Owners, TypeOK
    <3>2. CASE q.role # "owner"
      <4>1. role[t] = "owner" => ensure_another_owner
        BY <2>1, <2>6, <3>2 DEF Allowed, add_member_allowed,
           set_member_role_allowed, MayStopOwning
      <4> QED BY <2>4, <2>6, <3>2, <4>1 DEF upsert_member
    <3> QED BY <3>1, <3>2
  <2> QED BY <2>3, <2>5, <2>6 DEF WriteMembership
<1>9. OwnerRemains'
  BY <1>8 DEF OwnerRemains
<1> QED BY <1>7, <1>9 DEF Parts

(* Deleting the organization waits for the lock: no change is under way.   *)
LEMMA DeleteStep ==
    ASSUME IInv, NEW r \in Requests, Delete(r)
    PROVE  Parts'
<1>0. TypeOK /\ Parts
  BY DEF IInv
<1>1. /\ lock = NoRequest /\ End(r) /\ role' = [u \in Users |-> "none"]
      /\ life' # "live" /\ UNCHANGED <<users, lock, overlapped>>
  BY DEF Delete
<1> PICK x \in Request : Moves(r, x) /\ x.pc = "free"
  BY <1>1, EndMoves
<1>2. request'[r] = x
      /\ \A o \in Requests \ {r} : request'[o] = request[o]
  BY <1>0, OthersStay
<1>3. \A o \in Requests : ~Writes(o)
  BY <1>0, <1>1, OrganizationsAssumption DEF Parts, LockInv
<1>4. \A o \in Requests : ~Writes(o)'
  BY <1>2, <1>3 DEF Writes
<1>5. Owners' = {}
  BY <1>1 DEF Owners
<1> QED BY <1>1, <1>4, <1>5
        DEF Parts, LockInv, CheckInv, ReachInv, OwnerRemains

(* The cascade of an account deletion.  It takes no lock: what others      *)
(* checked may no longer hold, and then overlapped says so.                *)
LEMMA DeleteAccountStep ==
    ASSUME IInv, NEW r \in Requests, DeleteAccount(r)
    PROVE  Parts'
<1> DEFINE t == request[r].target
           Late == MembershipOps \cup {"delete_account"}
<1>0. TypeOK /\ Parts
  BY DEF IInv
<1>1. /\ Deletes(r) /\ End(r) /\ users' = users \ {t}
      /\ role' = [role EXCEPT ![t] = "none"]
      /\ overlapped' = (overlapped \/ Overlaps(r, Late))
      /\ UNCHANGED <<life, lock>>
  BY DEF DeleteAccount, Deletes, remove_member
<1> PICK x \in Request : Moves(r, x) /\ x.pc = "free"
  BY <1>1, EndMoves
<1>2. request'[r] = x
      /\ \A o \in Requests \ {r} : request'[o] = request[o]
  BY <1>0, OthersStay
<1>3. \A o \in Requests : /\ Writes(o)' => Writes(o) /\ o # r
                          /\ Deletes(o)' => Deletes(o) /\ o # r
  BY <1>2 DEF Writes, Deletes
<1>4. ~overlapped' => /\ ~overlapped
                      /\ \A o \in Requests : ~Writes(o)' /\ ~Deletes(o)'
  <2>1. (\E o \in Requests : Writes(o)' \/ Deletes(o)') => Overlaps(r, Late)
    BY <1>3 DEF Overlaps, Writes, Deletes
  <2> QED BY <1>1, <2>1, Zenon
<1>5. \A u \in Users : role'[u] = IF u = t THEN "none" ELSE role[u]
  BY <1>0, <1>1 DEF TypeOK
<1>6. LockInv'
  BY <1>0, <1>1, <1>3, <1>5 DEF Parts, LockInv
<1>7. CheckInv'
  BY <1>4 DEF CheckInv
<1>8. ReachInv'
  <2> SUFFICES ASSUME NEW o \in Requests, Writes(o)'
               PROVE  Reach(request[o])'
    BY DEF ReachInv
  <2>1. request'[o] = request[o] /\ Reach(request[o])
    BY <1>0, <1>2, <1>3 DEF Parts, ReachInv
  <2>2. request[o].actor \in Users /\ request[o].target \in Users
    BY <1>0, RequestType
  <2> QED BY <1>1, <1>5, <2>1, <2>2 DEF Reach, is_manager, reaches
<1>9. OwnerRemains'
  <2> SUFFICES ASSUME life' = "live", ~overlapped' PROVE Owners' # {}
    BY DEF OwnerRemains
  <2>1. Owners # {} /\ Owners # {t}
    BY <1>0, <1>1, <1>4 DEF Parts, OwnerRemains, CheckInv
  <2>2. PICK u \in Owners : u # t
    BY <2>1
  <2> QED BY <1>5, <2>2 DEF Owners
<1> QED BY <1>6, <1>7, <1>8, <1>9 DEF Parts

-----------------------------------------------------------------------------
(* The theorems                                                            *)

(* Every step keeps the inductive invariant.                               *)
LEMMA InductiveStep == ASSUME IInv, [Next]_vars PROVE IInv'
<1>0. TypeOK' /\ TypeOK /\ Parts
  BY TypeStep DEF IInv
<1>1. CASE UNCHANGED vars
  <2>1. UNCHANGED <<users, life, role, lock, request, overlapped>>
    BY <1>1 DEF vars
  <2>2. \A o \in Requests : Writes(o)' = Writes(o) /\ Deletes(o)' = Deletes(o)
    BY <2>1 DEF Writes, Deletes
  <2> QED BY <1>0, <2>1, <2>2, SameRoles
          DEF IInv, Parts, LockInv, CheckInv, OwnerRemains, ReachInv
<1>a. ASSUME NEW r \in Requests, UNCHANGED Rest,
             \/ Step(r, "write") /\ request[r].op \in {"rename", "delete"}
             \/ End(r)
             \/ \E x \in Request : Moves(r, x) /\ x.pc = "begun"
      PROVE  Parts'
  <2>1. \E x \in Request :
          /\ Moves(r, x)
          /\ x.pc = "write" => x.op \in {"rename", "delete"}
    BY <1>0, <1>a, StepMoves, EndMoves
  <2> QED BY <1>a, <2>1, QuietStep DEF MembershipOps
<1>2. ASSUME NEW r \in Requests, BeginMembership(r) \/ BeginRename(r)
                                 \/ BeginDelete(r) \/ BeginDeleteAccount(r)
      PROVE  Parts'
  <2>1. \E x \in Request : Moves(r, x) /\ x.pc = "begun"
    BY <1>2, BeginMoves DEF BeginMembership, BeginRename, BeginDelete,
       BeginDeleteAccount, Ops, MembershipOps, OrganizationRole
  <2>2. UNCHANGED Rest
    BY <1>2 DEF BeginMembership, BeginRename, BeginDelete,
       BeginDeleteAccount, Begin, Rest
  <2> QED BY <1>a, <2>1, <2>2
<1>3. ASSUME NEW r \in Requests,
             CheckRename(r) \/ Rename(r) \/ CheckDelete(r)
      PROVE  Parts'
  BY <1>a, <1>3 DEF CheckRename, Rename, CheckDelete, Rest
<1> QED BY <1>0, <1>1, <1>2, <1>3, CreateStep, LockAndCheckStep,
           WriteMembershipStep, DeleteStep, CheckDeleteAccountStep,
           DeleteAccountStep DEF Next, IInv

LEMMA InitInv == ASSUME Init PROVE IInv
<1>1. TypeOK
  BY IdleType, OrganizationsAssumption DEF Init, TypeOK
<1>2. \A r \in Requests : ~Writes(r) /\ ~Deletes(r)
  BY IdleType DEF Init, Writes, Deletes
<1> QED BY <1>1, <1>2 DEF Init, IInv, Parts, LockInv, CheckInv, OwnerRemains,
                          ReachInv

LEMMA Invariance == Spec => []IInv
BY InitInv, InductiveStep, PTL DEF Spec

(* Type correctness of Organizations, for every number of accounts and     *)
(* requests.                                                               *)
THEOREM TypeCorrect == Spec => []TypeOK
BY Invariance, PTL DEF IInv

(* However membership changes, deletions of accounts and the deletion of   *)
(* the organization interleave, a live organization has an owner, unless   *)
(* an account deletion overlapped another change.                          *)
THEOREM AnOwnerRemains == Spec => []OwnerRemains
<1>1. IInv => OwnerRemains
  BY DEF IInv, Parts
<1> QED BY <1>1, Invariance, PTL

(* Whoever changes somebody else's membership has, at that very step, a    *)
(* role that reaches the target's old and new one: the check made under    *)
(* the lock of the organization is still true at the write.                *)
THEOREM NobodyActsBeyondReach == Spec => ReachIsCurrent
<1>1. ASSUME IInv, [Next]_vars, NEW r \in Requests, ChangesAnother(r)
      PROVE  WithinReach(r)
  <2> DEFINE q == request[r]
             t == request[r].target
  <2>0. TypeOK /\ Writes(r) /\ Reach(q) /\ q.actor # t /\ q.actor \in users
    BY <1>1 DEF ChangesAnother, IInv, Parts, ReachInv, Writes
  <2>1. request'[r] # request[r] /\ request'[r].pc = "free"
    BY <1>1 DEF ChangesAnother
  <2>2. ASSUME NEW o \in Requests, NEW x \in Request, Moves(o, x)
        PROVE  o = r
    BY <2>0, <2>1, <2>2, OthersStay
  <2>3. ASSUME NEW o \in Requests, Step(o, "write") \/ End(o)
        PROVE  o = r
    BY <2>0, <2>2, <2>3, StepMoves, EndMoves
  <2>4. WriteMembership(r)
    <3>1. \A o \in Requests : ~(BeginMembership(o) \/ BeginRename(o)
                                \/ BeginDelete(o) \/ BeginDeleteAccount(o))
      <4> SUFFICES ASSUME NEW o \in Requests,
                     BeginMembership(o) \/ BeginRename(o)
                     \/ BeginDelete(o) \/ BeginDeleteAccount(o)
                   PROVE  FALSE
        OBVIOUS
      <4>1. /\ \E x \in Request : Moves(o, x)
            /\ request[o].pc = "free"
        BY BeginMoves DEF BeginMembership, BeginRename, BeginDelete,
           BeginDeleteAccount, Begin, Ops, MembershipOps, OrganizationRole
      <4> QED BY <2>0, <2>2, <4>1 DEF Writes
    <3>2. \A u \in Users : ~Create(u)
      BY <2>1 DEF Create
    <3>3. \A o \in Requests :
            ~(\/ LockAndCheck(o) \/ CheckRename(o) \/ Rename(o)
              \/ CheckDelete(o) \/ Delete(o) \/ CheckDeleteAccount(o)
              \/ DeleteAccount(o))
      BY <2>0, <2>3 DEF LockAndCheck, CheckRename, Rename, CheckDelete,
         Delete, CheckDeleteAccount, DeleteAccount, Writes, MembershipOps
    <3>4. \A o \in Requests : WriteMembership(o) => o = r
      BY <2>3 DEF WriteMembership
    <3> QED BY <1>1, <2>1, <3>1, <3>2, <3>3, <3>4 DEF Next, vars
  <2>5. \/ role'[t] \in {role[t], "none"}
        \/ q.op # "remove_member" /\ role'[t] = q.role
    BY <2>0, <2>4, RequestType DEF WriteMembership, remove_member,
       upsert_member, TypeOK
  <2> QED BY <2>0, <2>5 DEF Reach, WithinReach
<1>2. IInv /\ [Next]_vars =>
        [\A r \in Requests : ChangesAnother(r) => WithinReach(r)]_vars
  BY <1>1
<1> QED BY <1>2, Invariance, PTL DEF Spec, ReachIsCurrent
=============================================================================
