------------------------------ MODULE Sessions ------------------------------
(***************************************************************************)
(* The sessions of one account and their refresh tokens: rotation on every *)
(* use, detection of a token presented twice, revocation and expiry.       *)
(*                                                                         *)
(* refresh() is a transaction that locks the token row and the session row *)
(* with its first statement; it is three steps here, because its clock is  *)
(* read when it begins and again once it has the rows.  A reused token is  *)
(* revoked by a statement of its own, after the transaction.  Every token  *)
(* ever issued may be presented at any time, by a client that retries as   *)
(* well as by anybody else, and a handler may break off anywhere.          *)
(***************************************************************************)
EXTENDS Integers, FiniteSets

CONSTANTS
    Sessions,   \* sessions the account may open
    Tokens,     \* refresh tokens that may be issued
    Requests,   \* slots for concurrent refresh requests
    Nobody,     \* the session row is not locked
    NoToken,    \* a request slot not in use
    TTL,        \* refresh_token_ttl_seconds
    MaxTime     \* bound: the clock

ASSUME SessionsAssumption ==
    /\ Sessions # {}
    /\ Nobody \notin Requests /\ NoToken \notin Tokens
    /\ TTL \in Nat \ {0} /\ MaxTime \in Nat

VARIABLES
    now,        \* the clock
    session,    \* session[s]: the sessions row
    token,      \* token[t]: the session_tokens row
    lock,       \* lock[s]: the request that holds the row of s
    pc,         \* pc[r]: where refresh request r is
    presented,  \* presented[r]: the token it presents
    begun,      \* begun[r]: when its transaction began
    replayed    \* observer: sessions in which a used token came back

vars == <<now, session, token, lock, pc, presented, begun, replayed>>

-----------------------------------------------------------------------------
(* State                                                                   *)

SessionRow == [state : {"none", "open", "revoked"}, expires : Int]
TokenRow == [state : {"none", "unused", "used"},
             session : Sessions, expires : Int, used_at : Int]

TypeOK ==
    /\ now \in 0..MaxTime
    /\ session \in [Sessions -> SessionRow]
    /\ token \in [Tokens -> TokenRow]
    /\ lock \in [Sessions -> Requests \cup {Nobody}]
    /\ pc \in [Requests -> {"free", "begun", "rotate", "revoke"}]
    /\ presented \in [Requests -> Tokens \cup {NoToken}]
    /\ begun \in [Requests -> 0..MaxTime]
    /\ replayed \in SUBSET Sessions

Init ==
    /\ now = 0
    /\ session = [s \in Sessions |-> [state |-> "none", expires |-> 0]]
    /\ token = [t \in Tokens |-> [state |-> "none", expires |-> 0, used_at |-> 0,
                                  session |-> CHOOSE s \in Sessions : TRUE]]
    /\ lock = [s \in Sessions |-> Nobody]
    /\ pc = [r \in Requests |-> "free"]
    /\ presented = [r \in Requests |-> NoToken]
    /\ begun = [r \in Requests |-> 0]
    /\ replayed = {}

Least(a, b) == IF a <= b THEN a ELSE b

expires_in(time) == time + TTL

(* The row of a token just issued.                                         *)
Issued(s, e) == [state |-> "unused", session |-> s, expires |-> e, used_at |-> 0]

-----------------------------------------------------------------------------
(* start_session and SessionRepository::create.  The clock is read once    *)
(* for the session and once more for its first token, before the insert,   *)
(* so the token may end after the session.                                 *)
Create(s, t, i, j) ==
    /\ i <= j /\ j <= now
    /\ session[s].state = "none" /\ token[t].state = "none"
    /\ session' = [session EXCEPT
                     ![s] = [state |-> "open", expires |-> expires_in(i)]]
    /\ token' = [token EXCEPT ![t] = Issued(s, expires_in(j))]
    /\ UNCHANGED <<now, lock, pc, presented, begun, replayed>>

(* SessionRepository::refresh.  NOW() is the time its transaction begins.  *)
Begin(r) ==
    /\ pc[r] = "free"
    /\ pc' = [pc EXCEPT ![r] = "begun"]
    /\ begun' = [begun EXCEPT ![r] = now]
    /\ UNCHANGED <<now, session, token, lock, presented, replayed>>

(* Mutant: the end of the session is left to the end of its tokens.        *)
Invalid_token_only(t) ==
    \/ session[token[t].session].state = "revoked"
    \/ token[t].expires <= now

Invalid(t) ==
    \/ session[token[t].session].state = "revoked"
    \/ token[t].expires <= now
    \/ session[token[t].session].expires <= now

Done(r) ==
    /\ pc' = [pc EXCEPT ![r] = "free"]
    /\ presented' = [presented EXCEPT ![r] = NoToken]
    /\ begun' = [begun EXCEPT ![r] = 0]

(* The lookup waits for whoever holds the rows and then sees what that one *)
(* committed.  The rows stay locked only for a rotation.                   *)
Lookup(r, t) ==
    LET s == token[t].session IN
    /\ pc[r] = "begun"
    /\ token[t].state # "none" /\ lock[s] = Nobody
    /\ \/ /\ token[t].state = "used"
          /\ pc' = [pc EXCEPT ![r] = "revoke"]
          /\ presented' = [presented EXCEPT ![r] = t]
          /\ replayed' = replayed \cup {s}
          /\ UNCHANGED <<begun, lock>>
       \/ /\ token[t].state = "unused" /\ Invalid(t)
          /\ Done(r)
          /\ UNCHANGED <<lock, replayed>>
       \/ /\ token[t].state = "unused" /\ ~Invalid(t)
          /\ pc' = [pc EXCEPT ![r] = "rotate"]
          /\ presented' = [presented EXCEPT ![r] = t]
          /\ lock' = [lock EXCEPT ![s] = r]
          /\ UNCHANGED <<begun, replayed>>
    /\ UNCHANGED <<now, session, token>>

(* Mutant: the token presented stays redeemable.                           *)
Replace_unmarked(t, new, time) ==
    LET s == token[t].session IN
    /\ token[new].state = "none"
    /\ token' = [token EXCEPT ![new] =
                   Issued(s, Least(expires_in(time), session[s].expires))]

(* The replacement and the mark on the old token, committed together.  The *)
(* handler reads the clock for the expiry just before it begins; whichever *)
(* the reading, LEAST makes it the end of the session.                     *)
Replace(t, new, time) ==
    LET s == token[t].session IN
    /\ token[new].state = "none"
    /\ token' = [token EXCEPT
                   ![new] = Issued(s, Least(expires_in(time), session[s].expires)),
                   ![t] = [@ EXCEPT !.state = "used", !.used_at = time]]

Rotate(r) ==
    LET t == presented[r] IN
    /\ pc[r] = "rotate"
    /\ \E new \in Tokens : Replace(t, new, begun[r])
    /\ lock' = [lock EXCEPT ![token[t].session] = Nobody]
    /\ Done(r)
    /\ UNCHANGED <<now, session, replayed>>

Revoked(S) ==
    session' = [s \in Sessions |->
                  IF s \in S /\ session[s].state = "open"
                  THEN [session[s] EXCEPT !.state = "revoked"] ELSE session[s]]

(* AuthService::refresh on Reused: the whole family is revoked.            *)
RevokeFamily(r) ==
    LET s == token[presented[r]].session IN
    /\ pc[r] = "revoke"
    /\ lock[s] = Nobody
    /\ Revoked({s})
    /\ Done(r)
    /\ UNCHANGED <<now, token, lock, replayed>>

(* A failed statement or a stopped process ends the handler.  What its     *)
(* transaction did is rolled back; nothing takes up what it had left.      *)
BreakOff(r) ==
    /\ pc[r] # "free"
    /\ lock' = [s \in Sessions |-> IF lock[s] = r THEN Nobody ELSE lock[s]]
    /\ Done(r)
    /\ UNCHANGED <<now, session, token, replayed>>

(* Mutant: the refresh that is running is not waited for.                  *)
Logout_unlocked(s) ==
    /\ session[s].state = "open"
    /\ Revoked({s})
    /\ UNCHANGED <<now, token, lock, pc, presented, begun, replayed>>

(* logout: revoke, which waits for the row.                                *)
Logout(s) ==
    /\ session[s].state = "open" /\ lock[s] = Nobody
    /\ Revoked({s})
    /\ UNCHANGED <<now, token, lock, pc, presented, begun, replayed>>

(* revoke_all_for_user (logout_all, reset, disable) and revoke_others      *)
(* (password change): one statement over the open sessions but `keep'.     *)
RevokeMany(keep) ==
    /\ \A s \in Sessions \ keep : lock[s] = Nobody
    /\ \E s \in Sessions \ keep : session[s].state = "open"
    /\ Revoked(Sessions \ keep)
    /\ UNCHANGED <<now, token, lock, pc, presented, begun, replayed>>

Tick ==
    /\ now < MaxTime
    /\ now' = now + 1
    /\ UNCHANGED <<session, token, lock, pc, presented, begun, replayed>>

-----------------------------------------------------------------------------
(* POST /auth/refresh: the handler's steps.                                *)
Refresh(r) ==
    \/ Begin(r)
    \/ \E t \in Tokens : Lookup(r, t)
    \/ Rotate(r)
    \/ RevokeFamily(r)
    \/ BreakOff(r)

(* POST /auth/logout and /auth/logout-all; a password change keeps the     *)
(* caller's own session.                                                   *)
SignOut ==
    \/ \E s \in Sessions : Logout(s)
    \/ RevokeMany({})
    \/ \E s \in Sessions : RevokeMany({s})

Next ==
    \/ \E s \in Sessions, t \in Tokens, i, j \in 0..MaxTime : Create(s, t, i, j)
    \/ \E r \in Requests : Refresh(r)
    \/ SignOut
    \/ Tick

Spec == Init /\ [][Next]_vars

-----------------------------------------------------------------------------
(* Properties                                                              *)

Family(s) == {t \in Tokens : token[t].state # "none" /\ token[t].session = s}

(* A session has one token that can still be redeemed, however many        *)
(* requests present the same one at once: rotation never forks the family. *)
OneLiveToken ==
    \A s \in Sessions : Cardinality({t \in Family(s) : token[t].state = "unused"}) <= 1

(* Rotation cannot extend a session: whatever its tokens say, none of them *)
(* was ever redeemed at or after the end the session was given when it was *)
(* opened.  The first token may be valid longer than its session, and a    *)
(* lookup may wait for the rows while the time runs out.                   *)
RedeemedInTime ==
    \A s \in Sessions : \A t \in Family(s) :
        token[t].state = "used" => token[t].used_at < session[s].expires

(* Revocation is final and immediate: a revoked session stays revoked and  *)
(* gains no token from a refresh that was already running.                 *)
RevokedIsFinal ==
    [][\A s \in Sessions :
         session[s].state = "revoked" =>
            session'[s].state = "revoked" /\ Family(s)' = Family(s)]_vars

(* "replaying an already-used token is treated as theft: the entire        *)
(* session family is revoked": a family one of whose used tokens came back *)
(* is revoked, or the handler that noticed is about to do it.              *)
ReplayEndsFamily ==
    \A s \in replayed :
        \/ session[s].state = "revoked"
        \/ \E r \in Requests : pc[r] = "revoke" /\ token[presented[r]].session = s
=============================================================================
