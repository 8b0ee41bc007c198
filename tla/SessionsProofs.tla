--------------------------- MODULE SessionsProofs ---------------------------
(***************************************************************************)
(* Safety of the refresh-token rotation for any number of sessions, tokens *)
(* and concurrent refresh requests, and for any clock.                     *)
(***************************************************************************)
EXTENDS Sessions, FiniteSetTheorems, TLAPS

(* What a refresh request holds between its lookup and its last statement: *)
(* one that rotates has the row of an open session locked and presents a   *)
(* token nobody has used since; one that revokes presents a used token.    *)
(* One that rotates began before the session's end.                        *)
RequestInv ==
    \A r \in Requests :
        /\ pc[r] \in {"rotate", "revoke"} => presented[r] \in Tokens
        /\ begun[r] <= now
        /\ pc[r] = "rotate" =>
             /\ lock[token[presented[r]].session] = r
             /\ token[presented[r]].state = "unused"
             /\ session[token[presented[r]].session].state = "open"
             /\ begun[r] < session[token[presented[r]].session].expires
        /\ pc[r] = "revoke" => token[presented[r]].state = "used"

(* A token belongs to a session that was opened, and was used before its   *)
(* end if it was used.                                                     *)
FamilyInv ==
    \A t \in Tokens : token[t].state # "none" =>
        /\ session[token[t].session].state # "none"
        /\ token[t].state = "used" =>
             token[t].used_at < session[token[t].session].expires

(* Two unused tokens never share a session.                                *)
RotationInv ==
    \A t, u \in Tokens :
        /\ token[t].state = "unused" /\ token[u].state = "unused"
        /\ token[t].session = token[u].session
        => t = u

IInv == TypeOK /\ RequestInv /\ FamilyInv /\ RotationInv

-----------------------------------------------------------------------------
(* What the statements do to the rows                                      *)

(* A rotation leaves every row but two alone: the token presented becomes  *)
(* used at the given time, and a fresh one of the same session is born.    *)
LEMMA ReplaceRows ==
    ASSUME TypeOK, NEW t \in Tokens, NEW new \in Tokens, NEW time \in Nat,
           Replace(t, new, time), token[t].state = "unused"
    PROVE  /\ token' \in [Tokens -> TokenRow] /\ new # t
           /\ token[new].state = "none" /\ token'[new].state = "unused"
           /\ token'[new].session = token[t].session
           /\ token'[t].state = "used" /\ token'[t].session = token[t].session
           /\ token'[t].used_at = time
           /\ \A u \in Tokens \ {t, new} : token'[u] = token[u]
<1> DEFINE s == token[t].session
           e == Least(expires_in(time), session[s].expires)
           old == [token[t] EXCEPT !.state = "used", !.used_at = time]
<1>1. token[t] \in TokenRow /\ s \in Sessions /\ new # t
    BY DEF TypeOK, TokenRow, Replace
<1>2. e \in Int
    BY <1>1, SessionsAssumption DEF TypeOK, SessionRow, Least, expires_in
<1>3. Issued(s, e) \in TokenRow
    BY <1>1, <1>2 DEF TokenRow, Issued
<1>4. token' = [token EXCEPT ![new] = Issued(s, e), ![t] = old]
    BY DEF Replace
<1>5. old \in TokenRow
    <2>1. time \in Int
        OBVIOUS
    <2> QED
        BY <1>1, <2>1, Zenon DEF TokenRow
<1>6. /\ token'[new] = Issued(s, e) /\ token'[t] = old
      /\ \A u \in Tokens \ {t, new} : token'[u] = token[u]
      /\ token' \in [Tokens -> TokenRow]
    BY <1>1, <1>3, <1>4, <1>5 DEF TypeOK
<1>7. old.state = "used" /\ old.session = token[t].session /\ old.used_at = time
    BY <1>1 DEF TokenRow
<1> QED
    BY <1>1, <1>6, <1>7 DEF Issued, Replace

(* Revocation closes the open sessions among S and touches nothing else.   *)
LEMMA RevokedRows ==
    ASSUME TypeOK, NEW S, Revoked(S)
    PROVE  /\ session' \in [Sessions -> SessionRow]
           /\ \A s \in Sessions :
                /\ session'[s].expires = session[s].expires
                /\ s \notin S => session'[s] = session[s]
                /\ session'[s].state = "none" <=> session[s].state = "none"
                /\ session[s].state = "revoked" => session'[s].state = "revoked"
<1> SUFFICES ASSUME NEW s \in Sessions
             PROVE  /\ session'[s] \in SessionRow
                    /\ session'[s].expires = session[s].expires
                    /\ s \notin S => session'[s] = session[s]
                    /\ session'[s].state = "none" <=> session[s].state = "none"
                    /\ session[s].state = "revoked"
                         => session'[s].state = "revoked"
    BY DEF Revoked
<1>1. session[s] \in SessionRow
    BY DEF TypeOK
<1>2. session'[s] = IF s \in S /\ session[s].state = "open"
                    THEN [session[s] EXCEPT !.state = "revoked"] ELSE session[s]
    BY DEF Revoked
<1> QED
    BY <1>1, <1>2 DEF SessionRow

(* Nobody but the holder of a session's lock changes a session that is     *)
(* being rotated; the holder is unique.                                    *)
LEMMA RevokeKeeps ==
    ASSUME IInv, NEW S \in SUBSET Sessions, Revoked(S),
           \A s \in S : lock[s] = Nobody,
           UNCHANGED <<now, token, lock>>,
           \A r \in Requests :
              \/ /\ pc'[r] = pc[r] /\ presented'[r] = presented[r]
                 /\ begun'[r] = begun[r]
              \/ pc'[r] = "free" /\ begun'[r] = 0
    PROVE  RequestInv' /\ FamilyInv' /\ RotationInv'
<1> USE DEF IInv
<1>1. FamilyInv' /\ RotationInv'
    BY RevokedRows DEF FamilyInv, RotationInv, TypeOK, TokenRow
<1>2. ASSUME NEW r \in Requests, pc'[r] = "rotate"
      PROVE  session'[token[presented[r]].session] = session[token[presented[r]].session]
    <2>1. pc[r] = "rotate" /\ presented'[r] = presented[r]
        BY <1>2
    <2>2. token[presented[r]].session \in Sessions
        BY <2>1 DEF RequestInv, TypeOK, TokenRow
    <2>3. lock[token[presented[r]].session] # Nobody
        BY <2>1, SessionsAssumption DEF RequestInv
    <2> QED
        BY <2>2, <2>3, RevokedRows
<1>3. RequestInv'
    <2>1. now \in Nat
        BY SessionsAssumption DEF TypeOK
    <2> QED
        BY <1>2, <2>1 DEF RequestInv
<1> QED
    BY <1>1, <1>3

-----------------------------------------------------------------------------
(* Type correctness                                                        *)

(* Every statement of the session repository keeps its rows well formed.   *)
LEMMA TypeStep ==
    ASSUME TypeOK, RequestInv, [Next]_vars
    PROVE  TypeOK'
<1> USE SessionsAssumption
<1>1. ASSUME NEW s \in Sessions, NEW t \in Tokens, NEW i \in 0..MaxTime,
             NEW j \in 0..MaxTime, Create(s, t, i, j)
      PROVE TypeOK'
    <2>1. expires_in(i) \in Int /\ expires_in(j) \in Int
        BY DEF expires_in
    <2>2. [state |-> "open", expires |-> expires_in(i)] \in SessionRow
        BY <2>1 DEF SessionRow
    <2>3. Issued(s, expires_in(j)) \in TokenRow
        BY <2>1 DEF TokenRow, Issued
    <2> QED
        BY <1>1, <2>2, <2>3 DEF TypeOK, Create
<1>2. ASSUME NEW r \in Requests, NEW t \in Tokens, Lookup(r, t)
      PROVE TypeOK'
    <2>1. token[t].session \in Sessions
        BY DEF TypeOK, TokenRow
    <2>2. CASE Done(r) /\ UNCHANGED <<lock, replayed>>
        BY <1>2, <2>2 DEF TypeOK, Lookup, Done
    <2>3. CASE UNCHANGED begun
        BY <1>2, <2>1, <2>3 DEF TypeOK, Lookup, Done
    <2> QED
        BY <1>2, <2>2, <2>3 DEF Lookup
<1>3. ASSUME NEW r \in Requests, Rotate(r)
      PROVE TypeOK'
    <2>1. /\ presented[r] \in Tokens /\ token[presented[r]].state = "unused"
          /\ begun[r] \in Nat
        BY <1>3 DEF Rotate, RequestInv, TypeOK
    <2>2. token' \in [Tokens -> TokenRow]
        BY <1>3, <2>1, ReplaceRows DEF Rotate, TypeOK
    <2>3. /\ pc' \in [Requests -> {"free", "begun", "rotate", "revoke"}]
          /\ presented' \in [Requests -> Tokens \cup {NoToken}]
          /\ begun' \in [Requests -> 0..MaxTime]
        BY <1>3 DEF TypeOK, Rotate, Done
    <2> QED
        BY <1>3, <2>2, <2>3 DEF TypeOK, Rotate
<1>4. ASSUME NEW r \in Requests, RevokeFamily(r)
      PROVE TypeOK'
    BY <1>4, RevokedRows DEF TypeOK, RevokeFamily, Done
<1>5. ASSUME NEW s \in Sessions, Logout(s)
      PROVE TypeOK'
    BY <1>5, RevokedRows DEF TypeOK, Logout
<1>6. ASSUME NEW keep, RevokeMany(keep)
      PROVE TypeOK'
    BY <1>6, RevokedRows DEF TypeOK, RevokeMany
<1>7. CASE Tick
    BY <1>7 DEF TypeOK, Tick
<1>8. CASE UNCHANGED vars
    BY <1>8 DEF TypeOK, vars
<1>9. ASSUME NEW r \in Requests, Begin(r)
      PROVE TypeOK'
    BY <1>9 DEF TypeOK, Begin
<1>10. ASSUME NEW r \in Requests, BreakOff(r)
      PROVE TypeOK'
    BY <1>10 DEF TypeOK, BreakOff, Done
<1> QED
    BY <1>1, <1>2, <1>3, <1>4, <1>5, <1>6, <1>7, <1>8, <1>9, <1>10
    DEF Next, Refresh, SignOut

-----------------------------------------------------------------------------
(* The inductive invariant                                                 *)

(* Every step keeps what the requests hold, the families and the rotation. *)
LEMMA FamilyStep ==
    ASSUME IInv, [Next]_vars
    PROVE  RequestInv' /\ FamilyInv' /\ RotationInv'
<1> USE SessionsAssumption DEF IInv
<1>0. \A t \in Tokens : token[t].session \in Sessions
    BY DEF TypeOK, TokenRow
<1>n. now \in Nat /\ \A r \in Requests : begun[r] \in Nat
    BY DEF TypeOK
<1>1. ASSUME NEW s \in Sessions, NEW t \in Tokens, NEW i \in 0..MaxTime,
             NEW j \in 0..MaxTime, Create(s, t, i, j)
      PROVE RequestInv' /\ FamilyInv' /\ RotationInv'
    <2>1. /\ token'[t].state = "unused" /\ token'[t].session = s
          /\ \A u \in Tokens \ {t} : token'[u] = token[u]
        BY <1>1 DEF Create, Issued, TypeOK
    <2>2. /\ session'[s].state = "open"
          /\ \A q \in Sessions \ {s} : session'[q] = session[q]
        BY <1>1 DEF Create, TypeOK
    <2>3. \A u \in Tokens : token[u].state # "none" => token[u].session # s
        BY <1>1 DEF Create, FamilyInv
    <2>4. token[t].state = "none" /\ UNCHANGED <<now, lock, pc, presented, begun>>
        BY <1>1 DEF Create
    <2>5. RotationInv'
        BY <2>1, <2>3 DEF RotationInv
    <2>6. FamilyInv'
        BY <1>0, <2>1, <2>2, <2>3 DEF FamilyInv
    <2>7. RequestInv'
        <3> SUFFICES ASSUME NEW r \in Requests, pc[r] \in {"rotate", "revoke"}
                     PROVE  /\ presented[r] # t
                            /\ session'[token[presented[r]].session]
                                 = session[token[presented[r]].session]
            BY <2>1, <2>4 DEF RequestInv
        <3>1. /\ presented[r] \in Tokens
              /\ token[presented[r]].state # "none"
            BY DEF RequestInv, TypeOK
        <3> QED
            BY <1>0, <2>2, <2>3, <2>4, <3>1
    <2> QED
        BY <2>5, <2>6, <2>7
<1>2. ASSUME NEW r \in Requests, NEW t \in Tokens, Lookup(r, t)
      PROVE RequestInv' /\ FamilyInv' /\ RotationInv'
    <2>1. FamilyInv' /\ RotationInv'
        BY <1>2 DEF Lookup, FamilyInv, RotationInv
    <2>2. RequestInv'
        <3>1. CASE Done(r) /\ UNCHANGED lock
            BY <1>2, <1>n, <3>1 DEF Lookup, Done, RequestInv, TypeOK
        <3>2. CASE /\ token[t].state = "used"
                   /\ pc' = [pc EXCEPT ![r] = "revoke"]
                   /\ presented' = [presented EXCEPT ![r] = t]
                   /\ UNCHANGED <<begun, lock>>
            BY <1>2, <3>2 DEF Lookup, RequestInv, TypeOK
        <3>3. CASE /\ token[t].state = "unused" /\ ~Invalid(t)
                   /\ UNCHANGED begun
                   /\ pc' = [pc EXCEPT ![r] = "rotate"]
                   /\ presented' = [presented EXCEPT ![r] = t]
                   /\ lock' = [lock EXCEPT ![token[t].session] = r]
            <4>1. session[token[t].session].state = "open"
                BY <1>0, <3>3 DEF FamilyInv, TypeOK, SessionRow, Invalid
            <4>2. lock[token[t].session] = Nobody
                BY <1>2 DEF Lookup
            <4>3. \A q \in Requests \ {r} : pc[q] = "rotate" =>
                    token[presented[q]].session # token[t].session
                BY <4>2 DEF RequestInv
            <4>4. begun[r] < session[token[t].session].expires
                <5>1. session[token[t].session].expires \in Int
                    BY <1>0 DEF TypeOK, SessionRow
                <5>2. ~(session[token[t].session].expires <= now)
                    BY <3>3 DEF Invalid
                <5>3. begun[r] <= now
                    BY DEF RequestInv
                <5> QED
                    BY <1>n, <5>1, <5>2, <5>3
            <4> QED
                BY <1>0, <1>2, <3>3, <4>1, <4>3, <4>4 DEF Lookup, RequestInv, TypeOK
        <3> QED
            BY <1>2, <3>1, <3>2, <3>3 DEF Lookup
    <2> QED
        BY <2>1, <2>2
<1>3. ASSUME NEW r \in Requests, Rotate(r)
      PROVE RequestInv' /\ FamilyInv' /\ RotationInv'
    <2> DEFINE t == presented[r]
    <2>1. /\ t \in Tokens /\ token[t].state = "unused"
          /\ lock[token[t].session] = r /\ session[token[t].session].state = "open"
          /\ begun[r] < session[token[t].session].expires
        BY <1>3 DEF Rotate, RequestInv
    <2>2. /\ UNCHANGED <<now, session>>
          /\ lock' = [lock EXCEPT ![token[t].session] = Nobody]
          /\ pc'[r] = "free" /\ begun'[r] = 0
          /\ \A q \in Requests \ {r} :
                /\ pc'[q] = pc[q] /\ presented'[q] = presented[q]
                /\ begun'[q] = begun[q]
        BY <1>3 DEF Rotate, Done, TypeOK
    <2>b. \A q \in Requests : begun'[q] <= now'
        BY <1>n, <2>2 DEF RequestInv
    <2>3. ASSUME NEW q \in Requests, pc'[q] \in {"rotate", "revoke"}
          PROVE  /\ q # r /\ pc'[q] = pc[q] /\ presented'[q] = presented[q]
                 /\ presented[q] \in Tokens
                 /\ pc[q] = "rotate" =>
                      /\ token[presented[q]].session # token[t].session
                      /\ lock'[token[presented[q]].session] = q
        <3>1. /\ q # r /\ pc[q] \in {"rotate", "revoke"}
              /\ presented[q] \in Tokens
            BY <2>2, <2>3 DEF RequestInv
        <3>2. pc[q] = "rotate" =>
                /\ lock[token[presented[q]].session] = q
                /\ token[presented[q]].session \in Sessions
            BY <1>0, <3>1 DEF RequestInv
        <3> QED
            BY <2>1, <2>2, <3>1, <3>2 DEF TypeOK
    <2>4. ASSUME NEW new \in Tokens, Replace(t, new, begun[r])
          PROVE  RequestInv' /\ FamilyInv' /\ RotationInv'
        <3> HIDE DEF t
        <3>1. /\ new # t /\ token[new].state = "none"
              /\ token'[new].state = "unused"
              /\ token'[new].session = token[t].session
              /\ token'[t].state = "used" /\ token'[t].session = token[t].session
              /\ token'[t].used_at = begun[r]
              /\ \A u \in Tokens \ {t, new} : token'[u] = token[u]
            BY <1>n, <2>1, <2>4, ReplaceRows
        <3>2. FamilyInv'
            BY <2>1, <2>2, <3>1 DEF FamilyInv
        <3>3. RotationInv'
            BY <2>1, <3>1 DEF RotationInv
        <3>4. RequestInv'
            <4> SUFFICES ASSUME NEW q \in Requests, pc'[q] \in {"rotate", "revoke"}
                         PROVE  /\ token'[presented[q]].session
                                     = token[presented[q]].session
                                /\ token'[presented[q]].state
                                     = token[presented[q]].state
                BY <2>2, <2>3, <2>b DEF RequestInv
            <4>1. presented[q] # new
                BY <2>3, <3>1 DEF RequestInv, TypeOK
            <4>2. presented[q] # t
                BY <2>1, <2>3 DEF RequestInv, TypeOK
            <4> QED
                BY <2>3, <3>1, <4>1, <4>2
        <3> QED
            BY <3>2, <3>3, <3>4
    <2> QED
        BY <1>3, <2>4 DEF Rotate
<1>4. ASSUME NEW r \in Requests, RevokeFamily(r)
      PROVE RequestInv' /\ FamilyInv' /\ RotationInv'
    <2>1. {token[presented[r]].session} \in SUBSET Sessions
        BY <1>0, <1>4 DEF RevokeFamily, RequestInv
    <2> QED
        BY <1>4, <2>1, RevokeKeeps DEF RevokeFamily, Done, TypeOK
<1>5. ASSUME NEW s \in Sessions, Logout(s)
      PROVE RequestInv' /\ FamilyInv' /\ RotationInv'
    <2>1. {s} \in SUBSET Sessions
        OBVIOUS
    <2> QED
        BY <1>5, <2>1, RevokeKeeps DEF Logout
<1>6. ASSUME NEW keep, RevokeMany(keep)
      PROVE RequestInv' /\ FamilyInv' /\ RotationInv'
    <2>1. Sessions \ keep \in SUBSET Sessions
        OBVIOUS
    <2> QED
        BY <1>6, <2>1, RevokeKeeps DEF RevokeMany
<1>7. CASE Tick
    BY <1>7, <1>n DEF Tick, RequestInv, FamilyInv, RotationInv
<1>8. CASE UNCHANGED vars
    BY <1>8 DEF vars, RequestInv, FamilyInv, RotationInv
<1>9. ASSUME NEW r \in Requests, Begin(r)
      PROVE RequestInv' /\ FamilyInv' /\ RotationInv'
    BY <1>9, <1>n DEF Begin, RequestInv, FamilyInv, RotationInv, TypeOK
<1>10. ASSUME NEW r \in Requests, BreakOff(r)
      PROVE RequestInv' /\ FamilyInv' /\ RotationInv'
    <2>1. FamilyInv' /\ RotationInv'
        BY <1>10 DEF BreakOff, FamilyInv, RotationInv
    <2>2. /\ UNCHANGED <<now, session, token>>
          /\ pc'[r] = "free" /\ begun'[r] = 0
          /\ \A q \in Requests \ {r} :
                /\ pc'[q] = pc[q] /\ presented'[q] = presented[q]
                /\ begun'[q] = begun[q]
          /\ \A s \in Sessions : lock[s] # r => lock'[s] = lock[s]
        BY <1>10 DEF BreakOff, Done, TypeOK
    <2>3. RequestInv'
        BY <1>0, <1>n, <2>2 DEF RequestInv
    <2> QED
        BY <2>1, <2>3
<1> QED
    BY <1>1, <1>2, <1>3, <1>4, <1>5, <1>6, <1>7, <1>8, <1>9, <1>10
    DEF Next, Refresh, SignOut

(* The inductive invariant holds throughout every behaviour.               *)
LEMMA Invariance == Spec => []IInv
<1>1. Init => IInv
    <2> SUFFICES ASSUME Init PROVE IInv
        OBVIOUS
    <2>1. (CHOOSE s \in Sessions : TRUE) \in Sessions
        BY SessionsAssumption
    <2>2. TypeOK
        BY <2>1, SessionsAssumption DEF Init, TypeOK, SessionRow, TokenRow
    <2> QED
        BY <2>2 DEF Init, IInv, RequestInv, FamilyInv, RotationInv
<1>2. IInv /\ [Next]_vars => IInv'
    BY TypeStep, FamilyStep DEF IInv
<1> QED
    BY <1>1, <1>2, PTL DEF Spec

-----------------------------------------------------------------------------
(* OneLiveToken, for every instance: however many requests present the     *)
(* same token at once, rotation never leaves a session two tokens that can *)
(* be redeemed.                                                            *)
THEOREM RotationNeverForks == Spec => []OneLiveToken
<1>1. IInv => OneLiveToken
    <2> SUFFICES ASSUME IInv, NEW s \in Sessions
                 PROVE  Cardinality({t \in Family(s) : token[t].state = "unused"}) <= 1
        BY DEF OneLiveToken
    <2> DEFINE L == {t \in Family(s) : token[t].state = "unused"}
    <2>1. \A t, u \in L : t = u
        BY DEF IInv, RotationInv, Family
    <2>2. CASE L = {}
        BY <2>2, FS_EmptySet
    <2>3. ASSUME NEW t \in L PROVE Cardinality(L) <= 1
        <3>1. L = {t}
            BY <2>1, <2>3
        <3> HIDE DEF L
        <3>2. Cardinality({t}) = 1
            BY FS_Singleton, Zenon
        <3>3. Cardinality(L) = 1
            BY <3>1, <3>2, Zenon
        <3> QED
            BY <3>3
    <2> QED
        BY <2>2, <2>3
<1> QED
    BY <1>1, Invariance, PTL

(* RedeemedInTime, for every instance: no token of a session was redeemed  *)
(* after its end, though the first one may be valid for longer and a       *)
(* request may wait for the rows after it began.                           *)
THEOREM RotationNeverExtends == Spec => []RedeemedInTime
<1>1. IInv => RedeemedInTime
    BY DEF IInv, FamilyInv, RedeemedInTime, Family
<1> QED
    BY <1>1, Invariance, PTL

(* RevokedIsFinal, for every instance: no refresh that was already running *)
(* when its session was revoked adds a token to it, and nothing reopens    *)
(* the session.                                                            *)
THEOREM RevocationIsFinal == Spec => RevokedIsFinal
<1>1. ASSUME IInv, [Next]_vars, NEW s \in Sessions,
             session[s].state = "revoked"
      PROVE  session'[s].state = "revoked" /\ Family(s)' = Family(s)
    <2> USE <1>1 DEF IInv
    <2>1. ASSUME NEW q \in Sessions, NEW t \in Tokens, NEW i \in 0..MaxTime,
                 NEW j \in 0..MaxTime, Create(q, t, i, j)
          PROVE  session'[s].state = "revoked" /\ Family(s)' = Family(s)
        <3>1. q # s /\ session'[s] = session[s]
            BY <2>1 DEF Create, TypeOK
        <3>2. /\ token[t].state = "none" /\ token'[t].session = q
              /\ \A u \in Tokens \ {t} : token'[u] = token[u]
            BY <2>1 DEF Create, Issued, TypeOK
        <3> QED
            BY <3>1, <3>2 DEF Family
    <2>2. ASSUME NEW r \in Requests, NEW t \in Tokens, Lookup(r, t)
          PROVE  session'[s].state = "revoked" /\ Family(s)' = Family(s)
        BY <2>2 DEF Lookup, Family
    <2>3. ASSUME NEW r \in Requests, Rotate(r)
          PROVE  session'[s].state = "revoked" /\ Family(s)' = Family(s)
        <3>1. /\ presented[r] \in Tokens /\ token[presented[r]].state = "unused"
              /\ token[presented[r]].session # s /\ begun[r] \in Nat
            BY <2>3 DEF Rotate, RequestInv, TypeOK
        <3>2. ASSUME NEW new \in Tokens, Replace(presented[r], new, begun[r])
              PROVE  Family(s)' = Family(s)
            <4>1. /\ token[new].state = "none"
                  /\ token'[new].session = token[presented[r]].session
                  /\ token'[presented[r]].session = token[presented[r]].session
                  /\ \A u \in Tokens \ {presented[r], new} : token'[u] = token[u]
                BY <3>1, <3>2, ReplaceRows
            <4> QED
                BY <3>1, <4>1 DEF Family
        <3> QED
            BY <2>3, <3>2 DEF Rotate
    <2>4. ASSUME NEW S, Revoked(S), UNCHANGED token
          PROVE  session'[s].state = "revoked" /\ Family(s)' = Family(s)
        BY <2>4, RevokedRows DEF Family
    <2>5. CASE UNCHANGED <<session, token>>
        BY <2>5 DEF Family
    <2> QED
        BY <2>1, <2>2, <2>3, <2>4, <2>5
        DEF Next, vars, Refresh, SignOut, Begin, RevokeFamily, BreakOff, Logout,
            RevokeMany, Tick
<1>2. IInv /\ [Next]_vars =>
        [\A s \in Sessions :
            session[s].state = "revoked" =>
                session'[s].state = "revoked" /\ Family(s)' = Family(s)]_vars
    BY <1>1
<1> QED
    BY <1>2, Invariance, PTL DEF Spec, RevokedIsFinal
=============================================================================
