--------------------------- MODULE AccountsProofs ---------------------------
(***************************************************************************)
(* Proofs about Accounts: the lock after repeated failures, and the        *)
(* sessions a new password or a disabled account ends.  In the second      *)
(* part, proofs about Administration: the administrator who remains.       *)
(***************************************************************************)
EXTENDS Accounts, Administration, TLAPS

-----------------------------------------------------------------------------
(* The inductive invariant                                                 *)

(* The row counts every wrong password of the window, unless a window was  *)
(* cleared by mistake; it is locked, or was, just when the count says so;  *)
(* and a lock that has run out starts a new window.                        *)
WindowInv ==
    /\ ~stale => guesses <= user.failed
    /\ user.failed >= MAX_ATTEMPTS <=> user.lock # "none"
    /\ user.lock = "expired" => guesses = 0

(* A request about to revoke the sessions, s among them.                   *)
Revokes(w, s) == writer[w].pc = "revoke" /\ writer[w].keep # s
Doomed(s) == \E w \in Writers : Revokes(w, s)

(* A live session that no interleaving has spared.                         *)
Fresh(s) == session[s].state = "live" /\ session[s].spared = "no"

(* A live session that proved an older password, or that of an account     *)
(* since disabled, has a request at its heels.                             *)
SessionInv ==
    /\ \A w \in Writers : writer[w].op = "disable" => writer[w].keep = NoSession
    /\ \A s \in Sessions :
         Fresh(s) =>
           \/ session[s].proof = newest /\ user.status # "disabled"
           \/ Doomed(s)

IInv == TypeOK /\ WindowInv /\ SessionInv

-----------------------------------------------------------------------------
(* What the statements do to the account                                   *)

LEMMA UserFields ==
    ASSUME TypeOK
    PROVE  /\ user.failed \in Nat /\ user.password \in Passwords
           /\ user.lock \in {"none", "locked", "expired"}
           /\ user.status \in {"active", "disabled"}
           /\ MAX_ATTEMPTS \in Nat /\ MAX_ATTEMPTS > 0
BY AccountsAssumption DEF TypeOK, UserRecord

(* reset_login_failures and record_login_success.                          *)
LEMMA Clears ==
    ASSUME TypeOK, user' = [user EXCEPT !.failed = 0, !.lock = "none"]
    PROVE  /\ user' \in UserRecord /\ user'.failed = 0 /\ user'.lock = "none"
           /\ user'.status = user.status
<1>1. user \in UserRecord
  BY DEF TypeOK
<1> QED BY <1>1, Zenon DEF UserRecord

LEMMA Counts ==
    ASSUME TypeOK, record_login_failure
    PROVE  /\ user' \in UserRecord /\ user'.failed = user.failed + 1
           /\ user'.lock = IF user.failed + 1 >= MAX_ATTEMPTS THEN "locked"
                           ELSE user.lock
           /\ user'.status = user.status
<1> DEFINE f == user.failed + 1
           k == IF user.failed + 1 >= MAX_ATTEMPTS THEN "locked" ELSE user.lock
<1>1. /\ user \in UserRecord /\ f \in Nat
      /\ k \in {"none", "locked", "expired"}
  BY UserFields DEF TypeOK
<1>2. user' = [user EXCEPT !.failed = f, !.lock = k]
  BY DEF record_login_failure, TypeOK, UserRecord
<1> HIDE DEF f, k
<1>3. /\ user' \in UserRecord /\ user'.failed = f /\ user'.lock = k
      /\ user'.status = user.status
  BY <1>1, <1>2, Zenon DEF UserRecord
<1> QED BY <1>3 DEF f, k

LEMMA Renews ==
    ASSUME TypeOK, NEW p \in Passwords, update_password(p)
    PROVE  /\ user' \in UserRecord /\ user'.failed = 0 /\ user'.lock = "none"
           /\ user'.status = user.status
<1>1. user \in UserRecord
  BY DEF TypeOK
<1> QED BY <1>1, Zenon DEF UserRecord, update_password

LEMMA Rehashes ==
    ASSUME TypeOK, NEW p \in Passwords, replace_password_hash(p)
    PROVE  /\ user' \in UserRecord /\ user'.failed = user.failed
           /\ user'.lock = user.lock /\ user'.status = user.status
<1>1. user \in UserRecord
  BY DEF TypeOK
<1> QED BY <1>1, Zenon DEF UserRecord, replace_password_hash

LEMMA Switches ==
    ASSUME TypeOK, NEW st \in {"active", "disabled"},
           user' = [user EXCEPT !.status = st]
    PROVE  /\ user' \in UserRecord /\ user'.failed = user.failed
           /\ user'.lock = user.lock /\ user'.status = st
<1>1. user \in UserRecord
  BY DEF TypeOK
<1> QED BY <1>1, Zenon DEF UserRecord

LEMMA RunsOut ==
    ASSUME TypeOK, user' = [user EXCEPT !.lock = "expired"]
    PROVE  /\ user' \in UserRecord /\ user'.failed = user.failed
           /\ user'.lock = "expired" /\ user'.status = user.status
<1>1. user \in UserRecord
  BY DEF TypeOK
<1> QED BY <1>1, Zenon DEF UserRecord

-----------------------------------------------------------------------------
(* What each step does to the window, the sign-ins, the writers            *)

LoginsTyped == login' \in [Logins -> Login]

LEMMA LoginsStep ==
    ASSUME TypeOK, NEW l \in Logins, SignIn(l)
    PROVE  LoginsTyped
<1>1. login[l] \in Login /\ login[l].password \in Passwords
  BY DEF TypeOK, Login
<1>2. \A to \in {"failed", "succeeded", "session"} :
        [login[l] EXCEPT !.pc = to] \in Login
  BY <1>1 DEF Login
<1>3. ASSUME NEW to \in {"failed", "succeeded", "session"}, GoTo(l, to)
      PROVE  LoginsTyped
  BY <1>2, <1>3 DEF TypeOK, GoTo, LoginsTyped
<1>4. NoLogin \in Login
  BY AccountsAssumption DEF NoLogin, Login, Passwords
<1>5. ASSUME login' = [login EXCEPT ![l] = NoLogin] PROVE LoginsTyped
  BY <1>4, <1>5 DEF TypeOK, LoginsTyped
<1>6. ASSUME NEW p \in Passwords, verify_credentials(l, p) PROVE LoginsTyped
  <2>1. \E to \in {"clear", "failed", "upgrade", "succeeded"} :
          login' = [login EXCEPT ![l] = [password |-> p, pc |-> to]]
    <3>1. user.outdated \in BOOLEAN /\ user.lock \in {"none", "expired"}
      BY <1>6, UserFields DEF TypeOK, UserRecord, verify_credentials
    <3> QED BY <1>6, <3>1 DEF verify_credentials
  <2>2. \A to \in {"clear", "failed", "upgrade", "succeeded"} :
          [password |-> p, pc |-> to] \in Login
    BY DEF Login
  <2> QED BY <2>1, <2>2 DEF TypeOK, LoginsTyped
<1> QED BY <1>3, <1>5, <1>6 DEF SignIn, ClearExpired, RecordFailure,
           upgrade_password_hash, RecordSuccess, start_session

WritersTyped == writer' \in [Writers -> Writer]
SessionsTyped == session' \in [Sessions -> Session]

(* What a writer does to the table of writers.                             *)
LEMMA Starts ==
    ASSUME TypeOK, NEW w \in Writers, NEW op \in {"reset", "change", "disable"},
           NEW keep \in Sessions \cup {NoSession}, Start(w, op, keep)
    PROVE  /\ WritersTyped /\ writer[w].pc = "free"
           /\ writer'[w].pc = "set" /\ writer'[w].op = op
           /\ writer'[w].keep = keep
           /\ \A x \in Writers \ {w} : writer'[x] = writer[x]
<1>1. [pc |-> "set", op |-> op, keep |-> keep] \in Writer
  BY DEF Writer
<1> QED BY <1>1 DEF Start, TypeOK, WritersTyped

LEMMA Advances ==
    ASSUME TypeOK, NEW w \in Writers, writer' = [writer EXCEPT ![w].pc = "revoke"]
    PROVE  /\ WritersTyped
           /\ writer'[w].pc = "revoke" /\ writer'[w].op = writer[w].op
           /\ writer'[w].keep = writer[w].keep
           /\ \A x \in Writers \ {w} : writer'[x] = writer[x]
<1>1. writer[w] \in Writer
  BY DEF TypeOK
<1>2. LET x == [writer[w] EXCEPT !.pc = "revoke"] IN
        /\ x \in Writer /\ x.pc = "revoke" /\ x.op = writer[w].op
        /\ x.keep = writer[w].keep
  BY <1>1 DEF Writer
<1> QED BY <1>2 DEF TypeOK, WritersTyped

LEMMA Finishes ==
    ASSUME TypeOK, NEW w \in Writers, writer' = [writer EXCEPT ![w] = NoWriter]
    PROVE  /\ WritersTyped
           /\ writer'[w].pc = "free" /\ writer'[w].op = "reset"
           /\ \A x \in Writers \ {w} : writer'[x] = writer[x]
<1>1. NoWriter \in Writer /\ NoWriter.pc = "free" /\ NoWriter.op = "reset"
  BY DEF NoWriter, Writer
<1> QED BY <1>1 DEF TypeOK, WritersTyped

(* What each step does to a session.                                       *)
LEMMA SessionFields ==
    ASSUME TypeOK, NEW s \in Sessions
    PROVE  /\ session[s] \in Session /\ session[s].proof \in Passwords
           /\ session[s].spared \in {"no", "overtaken", "left"}
BY DEF TypeOK, Session

LEMMA Opens ==
    ASSUME TypeOK, NEW l \in Logins, NEW s \in Sessions, start_session(l, s)
    PROVE  /\ SessionsTyped
           /\ Fresh(s)' => session'[s].proof = newest /\ user.status # "disabled"
           /\ \A x \in Sessions \ {s} : session'[x] = session[x]
<1> DEFINE sp == IF login[l].password # newest \/ user.status = "disabled"
                 THEN "overtaken" ELSE "no"
           x == [state |-> "live", proof |-> login[l].password, spared |-> sp]
<1>1. login[l].password \in Passwords /\ sp \in {"overtaken", "no"}
  BY DEF TypeOK, Login
<1>2. /\ session' = [session EXCEPT ![s] = x]
  BY DEF start_session
<1>3. /\ x \in Session /\ x.proof = login[l].password /\ x.spared = sp
  <2> HIDE DEF sp
  <2> QED BY <1>1, Zenon DEF Session
<1>4. session'[s] = x /\ \A y \in Sessions \ {s} : session'[y] = session[y]
  BY <1>2, Zenon DEF TypeOK
<1>5. SessionsTyped
  BY <1>2, <1>3, Zenon DEF TypeOK, SessionsTyped
<1>6. Fresh(s)' => sp = "no"
  BY <1>3, <1>4, Zenon DEF Fresh
<1> QED BY <1>3, <1>4, <1>5, <1>6

LEMMA Proves ==
    ASSUME TypeOK, NEW w \in Writers, SetPassword(w), NEW s \in Sessions
    PROVE  /\ session'[s] \in Session /\ (Fresh(s)' <=> Fresh(s))
           /\ s = writer[w].keep => session'[s].proof = newest + 1
<1>1. session[s] \in Session /\ newest + 1 \in Passwords
  BY AccountsAssumption DEF TypeOK, SetPassword, Passwords
<1>2. session'[s] = IF s = writer[w].keep
                    THEN [session[s] EXCEPT !.proof = newest + 1] ELSE session[s]
  BY DEF SetPassword
<1>3. CASE s = writer[w].keep
  <2>1. session'[s] = [session[s] EXCEPT !.proof = newest + 1]
    BY <1>2, <1>3
  <2>2. /\ session'[s] \in Session /\ session'[s].proof = newest + 1
        /\ session'[s].state = session[s].state
        /\ session'[s].spared = session[s].spared
    BY <1>1, <2>1, Zenon DEF Session
  <2>3. Fresh(s)' <=> Fresh(s)
    BY <2>2, Zenon DEF Fresh
  <2> QED BY <2>2, <2>3
<1>4. CASE s # writer[w].keep
  <2>1. session'[s] = session[s]
    BY <1>2, <1>4
  <2>2. Fresh(s)' <=> Fresh(s)
    BY <2>1, Zenon DEF Fresh
  <2> QED BY <1>1, <1>4, <2>1, <2>2
<1> QED BY <1>3, <1>4

LEMMA Ends ==
    ASSUME TypeOK, NEW w \in Writers, RevokeSessions(w) \/ BreakOff(w),
           NEW s \in Sessions
    PROVE  /\ session'[s] \in Session
           /\ Fresh(s)' => /\ Fresh(s) /\ session'[s] = session[s]
                           /\ writer[w].pc = "revoke" => s = writer[w].keep
<1>1. session[s] \in Session
  BY DEF TypeOK
<1>2. CASE session'[s] = session[s]
           /\ ~(writer[w].pc = "revoke" /\ session[s].state = "live"
                /\ s # writer[w].keep)
  <2>1. Fresh(s)' => Fresh(s) /\ session[s].state = "live"
    BY <1>2, Zenon DEF Fresh
  <2> QED BY <1>1, <1>2, <2>1
<1>3. CASE session'[s] = [state |-> "revoked", proof |-> 0, spared |-> "no"]
  <2>1. session'[s] \in Session /\ session'[s].state = "revoked"
    BY <1>3, AccountsAssumption DEF Session, Passwords
  <2> QED BY <2>1 DEF Fresh
<1>4. CASE session'[s] = [session[s] EXCEPT !.spared = "left"]
  <2>1. session'[s] \in Session /\ session'[s].spared = "left"
    BY <1>1, <1>4, Zenon DEF Session
  <2>2. ~Fresh(s)'
    BY <2>1, Zenon DEF Fresh
  <2> QED BY <2>1, <2>2
<1> QED BY <1>2, <1>3, <1>4 DEF RevokeSessions, BreakOff, WriterAt

-----------------------------------------------------------------------------
(* Every step keeps the types and the window                               *)

(* What every step makes of the account and of its window.                 *)
Kept == /\ user'.failed = user.failed /\ user'.lock = user.lock
        /\ UNCHANGED <<guesses, stale>>
Cleared == /\ user'.failed = 0 /\ user'.lock = "none"
           /\ stale' = stale
           /\ guesses' = 0 \/ (guesses' = guesses /\ user.lock = "expired")
Mistaken == /\ user'.failed = 0 /\ user'.lock = "none" /\ stale' = TRUE
            /\ UNCHANGED guesses
Counted == /\ user'.failed = user.failed + 1
           /\ user'.lock = IF user.failed + 1 >= MAX_ATTEMPTS THEN "locked"
                           ELSE user.lock
           /\ guesses' = guesses + 1 /\ UNCHANGED stale
Expired == /\ user.lock = "locked" /\ user'.failed = user.failed
           /\ user'.lock = "expired" /\ guesses' = 0 /\ UNCHANGED stale

LEMMA AccountStep ==
    ASSUME TypeOK, [Next]_vars
    PROVE  /\ user' \in UserRecord
           /\ Kept \/ Cleared \/ Mistaken \/ Counted \/ Expired
<1> DEFINE Goal == /\ user' \in UserRecord
                   /\ Kept \/ Cleared \/ Mistaken \/ Counted \/ Expired
<1>0. ASSUME UNCHANGED <<user, guesses, stale>> PROVE Goal
  BY <1>0 DEF TypeOK, Kept
<1>1. ASSUME NEW l \in Logins, ClearExpired(l) PROVE Goal
  <2>1. /\ user' \in UserRecord /\ user'.failed = 0 /\ user'.lock = "none"
    BY <1>1, Clears DEF ClearExpired, reset_login_failures
  <2>2. CASE user.lock = "expired"
    <3>1. stale' = stale
      BY <1>1, <2>2, Zenon DEF ClearExpired, TypeOK
    <3> QED BY <1>1, <2>1, <2>2, <3>1 DEF ClearExpired, Cleared
  <2>3. CASE user.lock # "expired"
    <3>1. stale' = TRUE
      BY <1>1, <2>3, Zenon DEF ClearExpired, TypeOK
    <3> QED BY <1>1, <2>1, <3>1 DEF ClearExpired, Mistaken
  <2> QED BY <2>2, <2>3
<1>2. ASSUME NEW l \in Logins, RecordFailure(l) PROVE Goal
  BY <1>2, Counts DEF RecordFailure, Counted
<1>3. ASSUME NEW l \in Logins, upgrade_password_hash(l) PROVE Goal
  <2>1. login[l].password \in Passwords
    BY DEF TypeOK, Login
  <2>2. CASE replace_password_hash(login[l].password)
    BY <1>3, <2>1, <2>2, Rehashes DEF upgrade_password_hash, Kept
  <2> QED BY <1>0, <1>3, <2>2 DEF upgrade_password_hash
<1>4. ASSUME NEW l \in Logins, RecordSuccess(l) PROVE Goal
  BY <1>4, Clears DEF RecordSuccess, record_login_success, Cleared
<1>5. ASSUME NEW w \in Writers, SetPassword(w) PROVE Goal
  <2>1. newest + 1 \in Passwords
    BY <1>5, AccountsAssumption DEF SetPassword, TypeOK, Passwords
  <2> QED BY <1>5, <2>1, Renews DEF SetPassword, Cleared
<1>6. ASSUME (\E w \in Writers : Disable(w)) \/ Enable PROVE Goal
  BY <1>6, Switches DEF Disable, Enable, Kept
<1>7. ASSUME unlock_account PROVE Goal
  BY <1>7, Clears DEF unlock_account, reset_login_failures, Cleared
<1>8. ASSUME LockExpires PROVE Goal
  BY <1>8, RunsOut DEF LockExpires, Expired
<1>9. ASSUME NEW l \in Logins,
             (\E p \in Passwords : verify_credentials(l, p))
             \/ (\E s \in Sessions : start_session(l, s))
      PROVE  Goal
  BY <1>0, <1>9 DEF verify_credentials, start_session
<1>10. ASSUME NEW w \in Writers,
              \/ reset_password(w) \/ BeginDisable(w)
              \/ \E s \in Sessions : change_password(w, s)
              \/ RevokeSessions(w) \/ BreakOff(w)
       PROVE  Goal
  BY <1>0, <1>10 DEF reset_password, change_password, BeginDisable, Start,
     RevokeSessions, BreakOff
<1> QED BY <1>0, <1>1, <1>2, <1>3, <1>4, <1>5, <1>6, <1>7, <1>8, <1>9, <1>10
        DEF Next, SignIn, Write, vars

LEMMA WindowStep == ASSUME TypeOK, WindowInv, [Next]_vars PROVE WindowInv'
<1>1. guesses \in Nat /\ stale \in BOOLEAN
  BY DEF TypeOK
<1>2. /\ user.failed >= MAX_ATTEMPTS <=> user.lock # "none"
      /\ user.lock = "expired" => guesses = 0
      /\ ~stale => guesses <= user.failed
  BY DEF WindowInv
<1>3. CASE Kept
  BY <1>2, <1>3 DEF Kept, WindowInv
<1>4. CASE Cleared
  BY <1>1, <1>2, <1>4, UserFields DEF Cleared, WindowInv
<1>5. CASE Mistaken
  BY <1>1, <1>5, UserFields DEF Mistaken, WindowInv
<1>6. CASE Counted
  <2>1. user'.failed = user.failed + 1 /\ guesses' = guesses + 1
        /\ user'.lock = IF user.failed + 1 >= MAX_ATTEMPTS THEN "locked"
                        ELSE user.lock
    BY <1>6 DEF Counted
  <2>2. user'.failed >= MAX_ATTEMPTS <=> user'.lock # "none"
    BY <1>2, <2>1, UserFields
  <2>3. user'.lock # "expired"
    BY <1>2, <2>1, UserFields
  <2>4. ~stale' => guesses' <= user'.failed
    BY <1>1, <1>2, <1>6, <2>1, UserFields DEF Counted
  <2> QED BY <2>2, <2>3, <2>4 DEF WindowInv
<1>7. CASE Expired
  <2>1. user'.failed = user.failed /\ user'.lock = "expired" /\ guesses' = 0
        /\ user.lock = "locked"
    BY <1>7 DEF Expired
  <2> QED BY <1>2, <2>1, UserFields DEF WindowInv
<1> QED BY <1>3, <1>4, <1>5, <1>6, <1>7, AccountStep

(* The tables of sign-ins, writers and sessions.                           *)
LEMMA TablesStep ==
    ASSUME TypeOK, [Next]_vars
    PROVE  LoginsTyped /\ WritersTyped /\ SessionsTyped
<1>1. LoginsTyped
  <2>1. UNCHANGED login \/ \E l \in Logins : SignIn(l)
    BY DEF Next, vars, Write, reset_password, change_password, BeginDisable,
       Start, SetPassword, Disable, RevokeSessions, BreakOff, Enable,
       unlock_account, LockExpires
  <2> QED BY <2>1, LoginsStep DEF TypeOK, LoginsTyped
<1>2. WritersTyped
  <2>1. \/ UNCHANGED writer
        \/ \E w \in Writers :
             \/ Start(w, "reset", NoSession) \/ Start(w, "disable", NoSession)
             \/ \E s \in Sessions : Start(w, "change", s)
             \/ writer' = [writer EXCEPT ![w].pc = "revoke"]
             \/ writer' = [writer EXCEPT ![w] = NoWriter]
    BY DEF Next, vars, SignIn, verify_credentials, ClearExpired,
       RecordFailure, upgrade_password_hash, RecordSuccess, start_session,
       Write, reset_password, change_password, BeginDisable, SetPassword,
       Disable, RevokeSessions, BreakOff, Enable, unlock_account, LockExpires
  <2> QED BY <2>1, Starts, Advances, Finishes DEF TypeOK, WritersTyped
<1>3. SessionsTyped
  <2>1. \/ UNCHANGED session
        \/ \E l \in Logins, s \in Sessions : start_session(l, s)
        \/ \E w \in Writers : SetPassword(w) \/ RevokeSessions(w) \/ BreakOff(w)
    BY DEF Next, vars, SignIn, verify_credentials, ClearExpired,
       RecordFailure, upgrade_password_hash, RecordSuccess,
       Write, reset_password, change_password, BeginDisable, Start,
       Disable, Enable, unlock_account, LockExpires
  <2>2. ASSUME NEW w \in Writers, SetPassword(w) PROVE SessionsTyped
    BY <2>2, Proves DEF SetPassword, SessionsTyped
  <2>3. ASSUME NEW w \in Writers, RevokeSessions(w) \/ BreakOff(w)
        PROVE  SessionsTyped
    BY <2>3, Ends DEF RevokeSessions, BreakOff, SessionsTyped
  <2> QED BY <2>1, <2>2, <2>3, Opens DEF TypeOK, SessionsTyped
<1> QED BY <1>1, <1>2, <1>3

LEMMA TypeStep == ASSUME TypeOK, [Next]_vars PROVE TypeOK'
<1>1. LoginsTyped /\ WritersTyped /\ SessionsTyped /\ user' \in UserRecord
  BY TablesStep, AccountStep
<1>2. newest' \in Passwords
  <2>1. UNCHANGED newest \/ (newest < MaxPasswords /\ newest' = newest + 1)
    BY DEF Next, vars, SignIn, verify_credentials, ClearExpired,
       RecordFailure, upgrade_password_hash, RecordSuccess, start_session,
       Write, reset_password, change_password, BeginDisable, Start,
       SetPassword, Disable, RevokeSessions, BreakOff, Enable,
       unlock_account, LockExpires
  <2> QED BY <2>1, AccountsAssumption DEF TypeOK, Passwords
<1>3. expiries' \in 0..MaxExpiries
  <2>1. UNCHANGED expiries
        \/ (expiries < MaxExpiries /\ expiries' = expiries + 1)
    BY DEF Next, vars, SignIn, verify_credentials, ClearExpired,
       RecordFailure, upgrade_password_hash, RecordSuccess, start_session,
       Write, reset_password, change_password, BeginDisable, Start,
       SetPassword, Disable, RevokeSessions, BreakOff, Enable,
       unlock_account, LockExpires
  <2> QED BY <2>1, AccountsAssumption DEF TypeOK
<1>4. guesses' \in Nat
  <2>1. \/ guesses' = guesses \/ guesses' = 0 \/ guesses' = guesses + 1
    BY AccountStep DEF Kept, Cleared, Mistaken, Counted, Expired
  <2> QED BY <2>1 DEF TypeOK
<1>5. stale' \in BOOLEAN
  <2>1. CASE stale' = stale
    BY <2>1, Zenon DEF TypeOK
  <2>2. CASE Mistaken
    BY <2>2, Zenon DEF Mistaken
  <2>3. stale' = stale \/ Mistaken
    BY AccountStep, Zenon DEF Kept, Cleared, Counted, Expired
  <2> QED BY <2>1, <2>2, <2>3, Zenon
<1> QED BY <1>1, <1>2, <1>3, <1>4, <1>5, Zenon
        DEF TypeOK, LoginsTyped, WritersTyped, SessionsTyped

-----------------------------------------------------------------------------
(* Every step keeps the promise about old sessions                         *)

(* The steps that touch neither writers nor sessions leave the status      *)
(* alone, unless they enable the account.                                  *)
LEMMA StatusStep ==
    ASSUME TypeOK, [Next]_vars
    PROVE  \/ user'.status = user.status
           \/ \E w \in Writers : Disable(w)
           \/ Enable
<1> DEFINE Goal == user'.status = user.status
<1>1. ASSUME NEW l \in Logins, ClearExpired(l) PROVE Goal
  BY <1>1, Clears DEF ClearExpired, reset_login_failures
<1>2. ASSUME NEW l \in Logins, RecordFailure(l) PROVE Goal
  BY <1>2, Counts DEF RecordFailure
<1>3. ASSUME NEW l \in Logins, upgrade_password_hash(l) PROVE Goal
  <2>1. login[l].password \in Passwords
    BY DEF TypeOK, Login
  <2> QED BY <1>3, <2>1, Rehashes DEF upgrade_password_hash
<1>4. ASSUME NEW l \in Logins, RecordSuccess(l) PROVE Goal
  BY <1>4, Clears DEF RecordSuccess, record_login_success
<1>5. ASSUME NEW w \in Writers, SetPassword(w) PROVE Goal
  <2>1. newest + 1 \in Passwords
    BY <1>5, AccountsAssumption DEF SetPassword, TypeOK, Passwords
  <2> QED BY <1>5, <2>1, Renews DEF SetPassword
<1>6. ASSUME unlock_account PROVE Goal
  BY <1>6, Clears DEF unlock_account, reset_login_failures
<1>7. ASSUME LockExpires PROVE Goal
  BY <1>7, RunsOut DEF LockExpires
<1>8. \/ UNCHANGED user
      \/ \E l \in Logins : \/ ClearExpired(l) \/ RecordFailure(l)
                            \/ upgrade_password_hash(l) \/ RecordSuccess(l)
      \/ \E w \in Writers : SetPassword(w) \/ Disable(w)
      \/ Enable \/ unlock_account \/ LockExpires
  BY DEF Next, vars, SignIn, Write, verify_credentials, start_session,
     reset_password, change_password, BeginDisable, Start, RevokeSessions,
     BreakOff
<1> QED BY <1>1, <1>2, <1>3, <1>4, <1>5, <1>6, <1>7, <1>8

(* A request that waits to revoke goes on waiting, unless it is the one    *)
(* that takes the step.                                                    *)
LEMMA StaysDoomed ==
    ASSUME NEW s \in Sessions, NEW w \in Writers, Doomed(s), ~Revokes(w, s),
           \A x \in Writers \ {w} : writer'[x] = writer[x]
    PROVE  Doomed(s)'
<1>1. PICK x \in Writers : Revokes(x, s)
  BY DEF Doomed
<1>2. x # w /\ writer'[x] = writer[x]
  BY <1>1
<1> QED BY <1>1, <1>2 DEF Doomed, Revokes

(* Session s keeps the promise.                                            *)
Promise(s) == Fresh(s) => Current(s) \/ Doomed(s)

LEMMA PromiseKept ==
    ASSUME NEW s \in Sessions, Promise(s), session'[s] = session[s],
           newest' = newest, user'.status = user.status \/ user'.status = "active",
           Doomed(s) => Doomed(s)'
    PROVE  Promise(s)'
<1>1. Fresh(s)' <=> Fresh(s)
  BY Zenon DEF Fresh
<1>2. Current(s) => Current(s)'
  BY DEF Current
<1> QED BY <1>1, <1>2, Zenon DEF Promise

LEMMA PromiseStep ==
    ASSUME TypeOK, SessionInv, [Next]_vars, NEW s \in Sessions
    PROVE  Promise(s)'
<1>0. Promise(s)
  BY DEF SessionInv, Promise, Current
<1>1. ASSUME UNCHANGED <<writer, session, newest>>,
             user'.status = user.status \/ user'.status = "active"
      PROVE  Promise(s)'
  <2>1. Doomed(s) => Doomed(s)'
    BY <1>1 DEF Doomed, Revokes
  <2> QED BY <1>0, <1>1, <2>1, PromiseKept
<1>2. ASSUME NEW l \in Logins, NEW t \in Sessions, start_session(l, t)
      PROVE  Promise(s)'
  <2>1. UNCHANGED <<writer, newest, user>> /\ (Doomed(s) => Doomed(s)')
    BY <1>2 DEF start_session, Doomed, Revokes
  <2>2. CASE s = t
    <3>1. Fresh(s)' => Current(s)'
      BY <1>2, <2>1, <2>2, Opens DEF Current
    <3> QED BY <3>1, Zenon DEF Promise
  <2>3. CASE s # t
    <3>1. session'[s] = session[s]
      BY <1>2, <2>3, Opens
    <3> QED BY <1>0, <2>1, <3>1, PromiseKept
  <2> QED BY <2>2, <2>3
<1>3. ASSUME NEW w \in Writers, NEW op \in {"reset", "change", "disable"},
             NEW keep \in Sessions \cup {NoSession}, Start(w, op, keep)
      PROVE  Promise(s)'
  <2>1. UNCHANGED <<user, session, newest>> /\ ~Revokes(w, s)
    BY <1>3 DEF Start, Revokes
  <2>2. Doomed(s) => Doomed(s)'
    BY <1>3, <2>1, Starts, StaysDoomed
  <2> QED BY <1>0, <2>1, <2>2, PromiseKept
<1>4. ASSUME NEW w \in Writers, SetPassword(w) PROVE Promise(s)'
  <2>1. /\ writer'[w].pc = "revoke" /\ writer'[w].keep = writer[w].keep
        /\ \A x \in Writers \ {w} : writer'[x] = writer[x]
        /\ ~Revokes(w, s) /\ newest' = newest + 1
    BY <1>4, Advances DEF SetPassword, WriterAt, Revokes
  <2>2. CASE s # writer[w].keep
    <3>1. Doomed(s)'
      BY <2>1, <2>2 DEF Doomed, Revokes
    <3> QED BY <3>1, Zenon DEF Promise
  <2>3. CASE s = writer[w].keep
    <3>1. session'[s].proof = newest' /\ (Fresh(s)' <=> Fresh(s))
      BY <1>4, <2>1, <2>3, Proves
    <3>2. Doomed(s) => Doomed(s)'
      BY <2>1, StaysDoomed
    <3>3. user'.status = user.status
      <4>1. newest + 1 \in Passwords
        BY <1>4, AccountsAssumption DEF SetPassword, TypeOK, Passwords
      <4> QED BY <1>4, <4>1, Renews DEF SetPassword
    <3>4. Current(s) => Current(s)'
      BY <3>1, <3>3 DEF Current
    <3> QED BY <1>0, <3>1, <3>2, <3>4, Zenon DEF Promise
  <2> QED BY <2>2, <2>3
<1>5. ASSUME NEW w \in Writers, Disable(w) PROVE Promise(s)'
  <2>1. writer'[w].pc = "revoke" /\ writer'[w].keep = writer[w].keep
    BY <1>5, Advances DEF Disable
  <2>2. writer[w].keep = NoSession
    BY <1>5 DEF Disable, WriterAt, SessionInv
  <2>3. Doomed(s)'
    BY <2>1, <2>2, AccountsAssumption DEF Doomed, Revokes
  <2> QED BY <2>3, Zenon DEF Promise
<1>6. ASSUME NEW w \in Writers, RevokeSessions(w) \/ BreakOff(w)
      PROVE  Promise(s)'
  <2>1. /\ UNCHANGED <<user, newest>>
        /\ \A x \in Writers \ {w} : writer'[x] = writer[x]
    BY <1>6, Finishes DEF RevokeSessions, BreakOff
  <2>2. SUFFICES ASSUME Fresh(s)' PROVE Promise(s)'
    BY Zenon DEF Promise
  <2>3. Fresh(s) /\ session'[s] = session[s] /\ ~Revokes(w, s)
    BY <1>6, <2>2, Ends DEF Revokes
  <2>4. Doomed(s) => Doomed(s)'
    BY <2>1, <2>3, StaysDoomed
  <2> QED BY <1>0, <2>1, <2>3, <2>4, PromiseKept
<1>7. ASSUME Enable PROVE Promise(s)'
  BY <1>1, <1>7, Switches DEF Enable
<1>8. \/ UNCHANGED <<writer, session, newest>>
      \/ \E l \in Logins, t \in Sessions : start_session(l, t)
      \/ \E w \in Writers :
           \/ Start(w, "reset", NoSession) \/ Start(w, "disable", NoSession)
           \/ \E t \in Sessions : Start(w, "change", t)
           \/ SetPassword(w) \/ Disable(w) \/ RevokeSessions(w) \/ BreakOff(w)
  BY DEF Next, vars, SignIn, verify_credentials, ClearExpired, RecordFailure,
     upgrade_password_hash, RecordSuccess, Write, reset_password,
     change_password, BeginDisable, Enable, unlock_account, LockExpires
<1> QED BY <1>1, <1>2, <1>3, <1>4, <1>5, <1>6, <1>7, <1>8, StatusStep

LEMMA SessionStep == ASSUME TypeOK, SessionInv, [Next]_vars PROVE SessionInv'
<1>1. ASSUME NEW w \in Writers, writer'[w].op = "disable"
      PROVE  writer'[w].keep = NoSession
  <2>1. CASE writer'[w] = writer[w]
    BY <1>1, <2>1 DEF SessionInv
  <2>2. ASSUME NEW x \in Writers, NEW op \in {"reset", "change", "disable"},
               NEW keep \in Sessions \cup {NoSession}, Start(x, op, keep),
               op = "disable" => keep = NoSession
        PROVE  writer'[w].keep = NoSession
    BY <1>1, <2>1, <2>2, Starts
  <2>3. ASSUME NEW x \in Writers,
               writer' = [writer EXCEPT ![x].pc = "revoke"]
        PROVE  writer'[w].keep = NoSession
    BY <1>1, <2>1, <2>3, Advances DEF SessionInv
  <2>4. ASSUME NEW x \in Writers, writer' = [writer EXCEPT ![x] = NoWriter]
        PROVE  writer'[w].keep = NoSession
    BY <1>1, <2>1, <2>4, Finishes
  <2>5. \/ UNCHANGED writer
        \/ \E x \in Writers :
             \/ Start(x, "reset", NoSession) \/ Start(x, "disable", NoSession)
             \/ \E s \in Sessions : Start(x, "change", s)
             \/ writer' = [writer EXCEPT ![x].pc = "revoke"]
             \/ writer' = [writer EXCEPT ![x] = NoWriter]
    BY DEF Next, vars, SignIn, verify_credentials, ClearExpired,
       RecordFailure, upgrade_password_hash, RecordSuccess, start_session,
       Write, reset_password, change_password, BeginDisable, SetPassword,
       Disable, RevokeSessions, BreakOff, Enable, unlock_account, LockExpires
  <2> QED BY <2>1, <2>2, <2>3, <2>4, <2>5
<1> QED BY <1>1, PromiseStep DEF SessionInv, Promise, Current

-----------------------------------------------------------------------------
(* The theorems                                                            *)

LEMMA InitInv == Init => IInv
<1> SUFFICES ASSUME Init PROVE IInv
  OBVIOUS
<1>1. 0 \in Passwords
  BY AccountsAssumption DEF Passwords
<1>2. user \in UserRecord /\ user.failed = 0 /\ user.lock = "none"
  <2>1. user \in [password : {0}, outdated : BOOLEAN, failed : {0},
                  lock : {"none"}, status : {"active"}]
    BY DEF Init
  <2>2. PICK o \in BOOLEAN :
          user = [password |-> 0, outdated |-> o, failed |-> 0,
                  lock |-> "none", status |-> "active"]
    BY <2>1, Zenon
  <2> QED BY <1>1, <2>2, Zenon DEF UserRecord
<1>3. NoLogin \in Login /\ NoWriter \in Writer
      /\ [state |-> "none", proof |-> 0, spared |-> "no"] \in Session
  BY <1>1 DEF NoLogin, Login, NoWriter, Writer, Session
<1>4. TypeOK
  <2>1. /\ login \in [Logins -> Login] /\ writer \in [Writers -> Writer]
        /\ session \in [Sessions -> Session]
    BY <1>3 DEF Init
  <2>2. newest \in Passwords /\ guesses \in Nat /\ expiries \in 0..MaxExpiries
    BY <1>1, AccountsAssumption DEF Init
  <2>3. stale \in BOOLEAN
    BY Zenon DEF Init
  <2> QED BY <1>2, <2>1, <2>2, <2>3, Zenon DEF TypeOK
<1>5. WindowInv
  BY <1>2, AccountsAssumption DEF WindowInv, Init
<1>6. SessionInv
  BY DEF SessionInv, Init, NoWriter, Fresh
<1> QED BY <1>4, <1>5, <1>6 DEF IInv

LEMMA InductiveStep == IInv /\ [Next]_vars => IInv'
BY TypeStep, WindowStep, SessionStep DEF IInv

LEMMA Invariance == Spec => []IInv
BY InitInv, InductiveStep, PTL DEF Spec

(* The account, its sign-ins, writers and sessions keep their types, for   *)
(* any number of sign-ins and of sessions.                                 *)
THEOREM TypeCorrect == Spec => []TypeOK
<1>1. IInv => TypeOK
  BY DEF IInv
<1> QED BY <1>1, Invariance, PTL

(* update_password and set_status are followed by the revocation in a      *)
(* statement of its own: however resets, changes, disables and sign-ins    *)
(* interleave, every session opened before has one at its heels until it   *)
(* is ended.                                                               *)
THEOREM OldSessionsAreEnded == Spec => []OldSessionsEnd
<1>1. IInv => OldSessionsEnd
  <2> SUFFICES ASSUME IInv, Settled, NEW s \in Live, session[s].spared = "no"
               PROVE  Current(s)
    BY DEF OldSessionsEnd
  <2>1. s \in Sessions /\ Fresh(s)
    BY DEF Live, Fresh
  <2>2. ~Doomed(s)
    BY DEF Settled, Doomed, Revokes
  <2> QED BY <2>1, <2>2 DEF IInv, SessionInv, Current
<1> QED BY <1>1, Invariance, PTL

(* record_login_failure counts in the row and decides on the row: no       *)
(* overlap of sign-ins loses a failure, so MAX_ATTEMPTS wrong passwords    *)
(* lock the account for every threshold and any number of sign-ins.        *)
THEOREM LockedOnceSpent == Spec => []LockedAtThreshold
<1>1. IInv => LockedAtThreshold
  <2> SUFFICES ASSUME IInv, guesses >= MAX_ATTEMPTS, ~stale
               PROVE  user.lock = "locked"
    BY DEF LockedAtThreshold
  <2>1. TypeOK /\ guesses \in Nat /\ guesses <= user.failed
    BY DEF IInv, TypeOK, WindowInv
  <2>2. user.failed >= MAX_ATTEMPTS /\ guesses # 0
    BY <2>1, UserFields
  <2> QED BY <2>1, <2>2, UserFields DEF IInv, WindowInv
<1> QED BY <1>1, Invariance, PTL

-----------------------------------------------------------------------------
(* Administration: the inductive invariant                                 *)

(* Whoever has proved the address, has a session, or had one when its      *)
(* request came in, has an account that is no longer pending: a deletion   *)
(* takes address and sessions away with the row.                           *)
StandingInv ==
    /\ \A u \in verified \cup signed_in : status[u] \in {"active", "disabled"}
    /\ \A r \in Requests : request[r].pc = "session" =>
         status[request[r].actor] \in {"active", "disabled", "deleted"}

(* An active account was verified where that is required, or vouched for;  *)
(* where it is not required no account is ever pending.                    *)
VerifiedInv ==
    /\ RequireVerification /\ ~vouched =>
         \A u \in Users : status[u] = "active" => u \in verified
    /\ ~RequireVerification => \A u \in Users : status[u] # "pending"

(* A request that will write a removal without another check.              *)
Removes(r) ==
    \/ At(r, "authorized", {"disable", "delete"})
    \/ At(r, "checked", {"revoke_role"})

(* Such a request leaves an active administrator besides its target: the   *)
(* caller, or the one that ensure_an_admin_remains found.  The write of    *)
(* another request can undo this only by overlapping it.                   *)
RemovalInv ==
    \A r \in Requests : Removes(r) =>
        \E u \in active_admin_ids : u # request[r].target

(* The caller of a disable or a deletion is still as active as it was      *)
(* read.                                                                   *)
CallerInv ==
    \A r \in Requests : At(r, "user", {"disable", "delete"}) =>
        status[request[r].actor] = "active"

AdminIInv ==
    /\ AdminTypeOK
    /\ StandingInv
    /\ VerifiedInv
    /\ ~overlapped => RemovalInv /\ CallerInv /\ active_admin_ids # {}

LEMMA RequestFields ==
    ASSUME AdminTypeOK, NEW r \in Requests
    PROVE  /\ request[r] \in Request
           /\ request[r].target \in Users /\ request[r].actor \in Users
           /\ request[r].op \in Ops
           /\ request[r].pc \in {"free", "session", "user", "authorized", "read",
                                 "checked", "written"}
<1>1. request[r] \in Request
  BY DEF AdminTypeOK
<1> QED BY <1>1 DEF Request

LEMMA IdleIsRequest == Idle \in Request
BY AdministrationAssumption DEF Idle, Request, Ops

(* What the end of a request and a step of it do to the others.            *)
LEMMA EndFrame ==
    ASSUME AdminTypeOK, NEW r \in Requests, End(r)
    PROVE  /\ request' \in [Requests -> Request]
           /\ request'[r] = Idle
           /\ \A o \in Requests \ {r} : request'[o] = request[o]
BY IdleIsRequest DEF AdminTypeOK, End

LEMMA StepFrame ==
    ASSUME AdminTypeOK, NEW r \in Requests,
           NEW l \in {"user", "authorized", "read", "checked", "written"},
           Step(r, l)
    PROVE  /\ request' \in [Requests -> Request]
           /\ request'[r].pc = l /\ request'[r].op = request[r].op
           /\ request'[r].actor = request[r].actor
           /\ request'[r].target = request[r].target
           /\ \A o \in Requests \ {r} : request'[o] = request[o]
<1>1. request[r] \in Request
  BY RequestFields
<1> DEFINE q == [request[r] EXCEPT !.pc = l]
<1>2. /\ q \in Request /\ q.pc = l /\ q.op = request[r].op
      /\ q.actor = request[r].actor /\ q.target = request[r].target
  BY <1>1 DEF Request
<1>3. /\ request' = [request EXCEPT ![r] = q]
      /\ request \in [Requests -> Request]
  BY DEF AdminTypeOK, Step
<1> HIDE DEF q
<1> QED BY <1>2, <1>3

LEMMA AdminInitInv == AdminInit => AdminIInv
<1> SUFFICES ASSUME AdminInit PROVE AdminIInv
  OBVIOUS
<1>1. AdminTypeOK
  BY AdministrationAssumption, IdleIsRequest DEF AdminInit, AdminTypeOK, UserStatus
<1>2. StandingInv /\ VerifiedInv
  BY AdministrationAssumption DEF AdminInit, StandingInv, VerifiedInv, Idle
<1>3. RemovalInv /\ CallerInv
  BY DEF AdminInit, RemovalInv, CallerInv, Removes, At, Idle
<1>4. Founder \in active_admin_ids
  BY AdministrationAssumption DEF AdminInit, active_admin_ids
<1> QED BY <1>1, <1>2, <1>3, <1>4 DEF AdminIInv

(* A step after which every active account and every active administrator  *)
(* is one still, and which takes no request past its checks.               *)
LEMMA AdminsAreKept ==
    ASSUME AdminIInv, active_admin_ids \subseteq active_admin_ids',
           \A u \in Users : status[u] = "active" => status'[u] = "active",
           overlapped' = overlapped,
           \A o \in Requests : \/ request'[o] = request[o]
                               \/ ~PastCheck(o)'
    PROVE  (~overlapped => RemovalInv /\ CallerInv /\ active_admin_ids # {})'
<1> SUFFICES ASSUME ~overlapped
             PROVE  RemovalInv' /\ CallerInv' /\ active_admin_ids' # {}
  OBVIOUS
<1>1. RemovalInv'
  BY DEF AdminIInv, RemovalInv, Removes, PastCheck, At
<1>2. CallerInv'
  BY RequestFields DEF AdminIInv, CallerInv, PastCheck, At
<1> QED BY <1>1, <1>2 DEF AdminIInv

(* A removal: alone, it leaves the administrator that was promised.        *)
LEMMA RemovalLeavesOne ==
    ASSUME AdminIInv, NEW r \in Requests, NEW t \in Users,
           Removes(r), t = request[r].target, Overlaps(r),
           \A u \in active_admin_ids : u # t => u \in active_admin_ids',
           \A o \in Requests \ {r} : request'[o] = request[o],
           request'[r].pc \in {"free", "written"}
    PROVE  (~overlapped => RemovalInv /\ CallerInv /\ active_admin_ids # {})'
<1> SUFFICES ASSUME ~overlapped'
             PROVE  RemovalInv' /\ CallerInv' /\ active_admin_ids' # {}
  OBVIOUS
<1>1. ~overlapped /\ \A o \in Requests \ {r} : ~PastCheck(o)
  BY Zenon DEF Overlaps
<1>2. \A o \in Requests : ~PastCheck(o)'
  BY <1>1 DEF PastCheck, At
<1>3. RemovalInv' /\ CallerInv'
  BY <1>2 DEF RemovalInv, CallerInv, Removes, PastCheck
<1>4. PICK u \in active_admin_ids : u # t
  BY <1>1 DEF AdminIInv, RemovalInv
<1> QED BY <1>3, <1>4

-----------------------------------------------------------------------------
(* One lemma per action                                                    *)

(* register, verify_email, login and the grant_admin command: an active    *)
(* administrator stays one.                                                *)
LEMMA AccountSteps ==
    ASSUME AdminIInv, NEW u \in Users,
           Register(u) \/ VerifyEmail(u) \/ OpenSession(u) \/ grant_role_by_email(u)
    PROVE  AdminIInv'
<1> USE DEF AdminIInv, observed
<1>1. AdminTypeOK'
  BY DEF AdminTypeOK, UserStatus, Register, VerifyEmail, OpenSession,
         grant_role_by_email
<1>2. overlapped' = overlapped /\ vouched' = vouched /\ request' = request
  BY DEF Register, VerifyEmail, OpenSession, grant_role_by_email
<1>3. CASE Register(u)
  <2>1. /\ status[u] = "absent" /\ UNCHANGED <<verified, admins, signed_in>>
        /\ status'[u] = IF RequireVerification THEN "pending" ELSE "active"
        /\ \A x \in Users \ {u} : status'[x] = status[x]
    BY <1>3 DEF Register, AdminTypeOK
  <2>2. StandingInv'
    BY <1>2, <2>1, RequestFields DEF StandingInv, AdminTypeOK
  <2>3. VerifiedInv'
    BY <1>2, <2>1 DEF VerifiedInv
  <2>4. /\ active_admin_ids \subseteq active_admin_ids'
        /\ \A x \in Users : status[x] = "active" => status'[x] = "active"
    BY <2>1 DEF active_admin_ids, AdminTypeOK
  <2> QED BY <1>1, <1>2, <2>2, <2>3, <2>4, AdminsAreKept
<1>4. CASE VerifyEmail(u)
  <2>1. /\ Exists(u) /\ verified' = verified \cup {u} /\ UNCHANGED <<admins, signed_in>>
        /\ status'[u] = IF status[u] = "pending" THEN "active" ELSE status[u]
        /\ \A x \in Users \ {u} : status'[x] = status[x]
    BY <1>4 DEF VerifyEmail, AdminTypeOK
  <2>2. StandingInv'
    BY <1>2, <2>1, RequestFields DEF StandingInv, AdminTypeOK, Exists, UserStatus
  <2>3. VerifiedInv'
    BY <1>2, <2>1 DEF VerifiedInv
  <2>4. /\ active_admin_ids \subseteq active_admin_ids'
        /\ \A x \in Users : status[x] = "active" => status'[x] = "active"
    BY <2>1 DEF active_admin_ids, AdminTypeOK
  <2> QED BY <1>1, <1>2, <2>2, <2>3, <2>4, AdminsAreKept
<1>5. CASE OpenSession(u) \/ grant_role_by_email(u)
  <2>1. /\ UNCHANGED <<status, verified>> /\ admins \subseteq admins'
        /\ \/ signed_in' = signed_in
           \/ signed_in' = signed_in \cup {u} /\ MaySignIn(u)
    BY <1>5 DEF OpenSession, grant_role_by_email
  <2>2. CASE signed_in' = signed_in
    BY <1>1, <1>2, <2>1, <2>2, AdminsAreKept
    DEF StandingInv, VerifiedInv, active_admin_ids, AdminTypeOK
  <2>3. CASE signed_in' = signed_in \cup {u} /\ MaySignIn(u)
    <3>1. RequireVerification => status[u] \in {"active", "disabled"}
      BY <2>3 DEF StandingInv, MaySignIn
    <3>2. status[u] \in {"active", "disabled"}
      BY <2>3, <3>1 DEF MaySignIn, Exists, UserStatus, VerifiedInv
    <3>3. StandingInv' /\ VerifiedInv'
      BY <1>2, <2>1, <2>3, <3>2 DEF StandingInv, VerifiedInv
    <3> QED BY <1>1, <1>2, <2>1, <3>3, AdminsAreKept
            DEF active_admin_ids, AdminTypeOK
  <2> QED BY <2>1, <2>2, <2>3
<1> QED BY <1>3, <1>4, <1>5

(* The three reads of a request.  A caller that is not disabled, not gone  *)
(* and had a session is active; one that holds the role besides is the     *)
(* administrator who remains.                                              *)
LEMMA AuthenticateStep ==
    ASSUME AdminIInv, NEW r \in Requests, NEW op \in Ops,
           NEW a \in Users, NEW t \in Users, Authenticate(r, op, a, t)
    PROVE  AdminIInv'
<1> USE DEF observed
<1> DEFINE q == [pc |-> "session", op |-> op, actor |-> a, target |-> t]
<1>1. q \in Request
  BY DEF Request
<1>2. /\ request' \in [Requests -> Request] /\ request'[r] = q
      /\ \A o \in Requests \ {r} : request'[o] = request[o]
  BY <1>1 DEF Authenticate, AdminIInv, AdminTypeOK
<1>3. UNCHANGED <<status, verified, admins, signed_in, overlapped, vouched>>
  BY DEF Authenticate
<1>4. AdminTypeOK' /\ VerifiedInv' /\ active_admin_ids' = active_admin_ids
  BY <1>2, <1>3 DEF AdminIInv, AdminTypeOK, VerifiedInv, active_admin_ids
<1>5. StandingInv'
  BY <1>2, <1>3 DEF Authenticate, AdminIInv, StandingInv
<1>6. \A o \in Requests : request'[o] = request[o] \/ ~PastCheck(o)'
  BY <1>2 DEF PastCheck, At
<1> QED BY <1>3, <1>4, <1>5, <1>6, AdminsAreKept DEF AdminIInv

LEMMA SessionUserStep ==
    ASSUME AdminIInv, NEW r \in Requests, session_user(r)
    PROVE  AdminIInv'
<1> USE DEF AdminIInv, observed
<1>0. PICK a \in Users : a = request[r].actor
  BY RequestFields
<1>1. UNCHANGED <<status, verified, admins, signed_in, overlapped, vouched>>
  BY DEF session_user
<1>2. /\ request' \in [Requests -> Request]
      /\ \A o \in Requests \ {r} : request'[o] = request[o]
      /\ \/ /\ request'[r].pc = "user" /\ request'[r].actor = a
            /\ Exists(a) /\ status[a] # "disabled"
         \/ request'[r].pc = "free"
  <2>1. CASE Step(r, "user") /\ Exists(a) /\ status[a] # "disabled"
    BY <1>0, <2>1, StepFrame
  <2>2. CASE End(r)
    BY <2>2, EndFrame DEF Idle
  <2> QED BY <1>0, <2>1, <2>2 DEF session_user
<1>3. AdminTypeOK' /\ VerifiedInv' /\ active_admin_ids' = active_admin_ids
  BY <1>1, <1>2 DEF AdminTypeOK, VerifiedInv, active_admin_ids
<1>4. StandingInv'
  BY <1>1, <1>2 DEF StandingInv
<1>5. request'[r].pc = "user" => status[a] = "active"
  BY <1>0, <1>2 DEF session_user, StandingInv, Exists, UserStatus
<1>6. CallerInv => CallerInv'
  BY <1>1, <1>2, <1>5 DEF CallerInv, At
<1>7. RemovalInv => RemovalInv'
  BY <1>1, <1>2, <1>3 DEF RemovalInv, Removes, At
<1> QED BY <1>1, <1>3, <1>4, <1>6, <1>7

LEMMA RequireRoleStep ==
    ASSUME AdminIInv, NEW r \in Requests, require_role(r)
    PROVE  AdminIInv'
<1> USE DEF AdminIInv, observed
<1>0. PICK a \in Users, t \in Users : a = request[r].actor /\ t = request[r].target
  BY RequestFields
<1>1. UNCHANGED <<status, verified, admins, signed_in, overlapped, vouched>>
  BY DEF require_role
<1>2. /\ request' \in [Requests -> Request]
      /\ \A o \in Requests \ {r} : request'[o] = request[o]
      /\ \/ /\ request'[r].pc = "authorized" /\ request'[r].op = request[r].op
            /\ request'[r].target = t /\ a \in admins
            /\ request[r].op \in {"disable", "delete"} => t # a
         \/ request'[r].pc = "free"
  <2>1. CASE /\ Step(r, "authorized") /\ a \in admins
             /\ request[r].op \in {"disable", "delete"} => t # a
    BY <1>0, <2>1, StepFrame
  <2>2. CASE End(r)
    BY <2>2, EndFrame DEF Idle
  <2> QED BY <1>0, <2>1, <2>2 DEF require_role
<1>3. AdminTypeOK' /\ VerifiedInv' /\ active_admin_ids' = active_admin_ids
  BY <1>1, <1>2 DEF AdminTypeOK, VerifiedInv, active_admin_ids
<1>4. StandingInv'
  BY <1>1, <1>2 DEF StandingInv
<1>5. CallerInv => CallerInv'
  BY <1>1, <1>2 DEF CallerInv, At
<1>6. ASSUME RemovalInv, CallerInv PROVE RemovalInv'
  <2> SUFFICES ASSUME NEW o \in Requests, Removes(o)'
               PROVE  \E u \in active_admin_ids : u # request'[o].target
    BY <1>3 DEF RemovalInv
  <2>1. CASE o = r
    <3>1. At(r, "user", {"disable", "delete"}) /\ a \in admins /\ t # a
      BY <1>2, <2>1 DEF require_role, Removes, At
    <3>2. a \in active_admin_ids
      BY <1>0, <1>6, <3>1 DEF CallerInv, active_admin_ids
    <3>3. request'[r].target = t
      BY <1>2, <2>1 DEF Removes, At
    <3> QED BY <2>1, <3>1, <3>2, <3>3
  <2>2. CASE o # r
    BY <1>2, <1>6, <2>2 DEF RemovalInv, Removes, At
  <2> QED BY <2>1, <2>2
<1> QED BY <1>1, <1>3, <1>4, <1>5, <1>6

LEMMA SetStatusStep ==
    ASSUME AdminIInv, NEW r \in Requests, SetStatus(r)
    PROVE  AdminIInv'
<1> USE DEF AdminIInv, observed
<1>0. PICK t \in Users : t = request[r].target
  BY RequestFields
<1>1. UNCHANGED <<verified, admins, signed_in>>
  BY DEF SetStatus
<1>2. CASE /\ Exists(t) /\ request[r].op = "disable"
           /\ status' = [status EXCEPT ![t] = "disabled"]
           /\ Step(r, "written") /\ Overlaps(r)
  <2>1. /\ request' \in [Requests -> Request] /\ request'[r].pc = "written"
        /\ \A o \in Requests \ {r} : request'[o] = request[o]
    BY <1>2, StepFrame
  <2>2. /\ status'[t] = "disabled" /\ vouched' = vouched
        /\ \A u \in Users \ {t} : status'[u] = status[u]
    BY <1>2 DEF AdminTypeOK, Overlaps
  <2>3. AdminTypeOK'
    BY <1>1, <1>2, <2>1 DEF AdminTypeOK, UserStatus, Overlaps
  <2>4. StandingInv' /\ VerifiedInv'
    BY <1>1, <2>1, <2>2, RequestFields DEF AdminTypeOK, StandingInv, VerifiedInv
  <2>5. Removes(r)
    BY <1>2 DEF SetStatus, Removes, At
  <2>6. \A u \in active_admin_ids : u # t => u \in active_admin_ids'
    BY <1>1, <2>2 DEF active_admin_ids, AdminTypeOK
  <2> QED BY <1>0, <1>2, <2>1, <2>3, <2>4, <2>5, <2>6, RemovalLeavesOne
<1>3. CASE /\ \/ /\ Exists(t) /\ status' = [status EXCEPT ![t] = "active"]
                 /\ vouched' = (vouched \/ (RequireVerification /\ t \notin verified))
              \/ status' = status /\ vouched' = vouched
           /\ End(r) /\ UNCHANGED overlapped
  <2>1. /\ request' \in [Requests -> Request] /\ request'[r].pc = "free"
        /\ \A o \in Requests \ {r} : request'[o] = request[o]
    BY <1>3, EndFrame DEF Idle
  <2>2. /\ \A u \in Users \ {t} : status'[u] = status[u]
        /\ status'[t] # status[t] => status'[t] = "active"
        /\ vouched => vouched'
        /\ status'[t] # status[t] /\ RequireVerification /\ t \notin verified => vouched'
    <3>1. CASE status' = status /\ vouched' = vouched
      BY <3>1
    <3>2. CASE /\ status' = [status EXCEPT ![t] = "active"]
               /\ vouched' = (vouched \/ (RequireVerification /\ t \notin verified))
      <4>1. /\ status'[t] = "active"
            /\ \A u \in Users \ {t} : status'[u] = status[u]
        BY <3>2 DEF AdminTypeOK
      <4>2. vouched' <=> (vouched \/ (RequireVerification /\ t \notin verified))
        BY <3>2, Zenon
      <4> QED BY <4>1, <4>2
    <3> QED BY <1>3, <3>1, <3>2
  <2>3. AdminTypeOK'
    BY <1>1, <1>3, <2>1 DEF AdminTypeOK, UserStatus
  <2>4. StandingInv'
    BY <1>1, <2>1, <2>2, RequestFields DEF AdminTypeOK, StandingInv
  <2>5. VerifiedInv'
    BY <1>1, <2>2 DEF VerifiedInv
  <2>6. /\ active_admin_ids \subseteq active_admin_ids'
        /\ \A u \in Users : status[u] = "active" => status'[u] = "active"
    BY <1>1, <2>2 DEF active_admin_ids, AdminTypeOK
  <2>7. \A o \in Requests : request'[o] = request[o] \/ ~PastCheck(o)'
    BY <2>1 DEF PastCheck, At
  <2> QED BY <1>3, <2>3, <2>4, <2>5, <2>6, <2>7, AdminsAreKept
<1> QED BY <1>0, <1>2, <1>3 DEF SetStatus, At

LEMMA RevokeAccountSessionsStep ==
    ASSUME AdminIInv, NEW r \in Requests, revoke_account_sessions(r)
    PROVE  AdminIInv'
<1> USE DEF AdminIInv, observed
<1>1. /\ End(r) /\ UNCHANGED <<status, verified, admins, overlapped, vouched>>
      /\ signed_in' \subseteq signed_in
  BY DEF revoke_account_sessions
<1>2. /\ request' \in [Requests -> Request] /\ request'[r].pc = "free"
      /\ \A o \in Requests \ {r} : request'[o] = request[o]
  BY <1>1, EndFrame DEF Idle
<1>3. /\ AdminTypeOK' /\ StandingInv' /\ VerifiedInv'
      /\ active_admin_ids' = active_admin_ids
  BY <1>1, <1>2 DEF AdminTypeOK, StandingInv, VerifiedInv, active_admin_ids
<1>4. \A o \in Requests : request'[o] = request[o] \/ ~PastCheck(o)'
  BY <1>2 DEF PastCheck, At
<1> QED BY <1>1, <1>3, <1>4, AdminsAreKept

LEMMA DeleteAccountStep ==
    ASSUME AdminIInv, NEW r \in Requests, DeleteAccount(r)
    PROVE  AdminIInv'
<1> USE DEF AdminIInv, observed
<1>0. PICK t \in Users : t = request[r].target
  BY RequestFields
<1>1. /\ request' \in [Requests -> Request] /\ request'[r].pc = "free"
      /\ \A o \in Requests \ {r} : request'[o] = request[o]
  BY EndFrame DEF DeleteAccount, Idle
<1>2. CASE /\ status' = [status EXCEPT ![t] = "deleted"]
           /\ verified' = verified \ {t} /\ admins' = admins \ {t}
           /\ signed_in' = signed_in \ {t} /\ Overlaps(r)
  <2>1. AdminTypeOK'
    BY <1>1, <1>2 DEF AdminTypeOK, UserStatus, Overlaps
  <2>2. /\ status'[t] = "deleted" /\ vouched' = vouched
        /\ \A u \in Users \ {t} : status'[u] = status[u]
    BY <1>2 DEF AdminTypeOK, Overlaps
  <2>3. StandingInv' /\ VerifiedInv'
    BY <1>1, <1>2, <2>2, RequestFields DEF AdminTypeOK, StandingInv, VerifiedInv
  <2>4. Removes(r)
    BY DEF DeleteAccount, Removes, At
  <2>5. \A u \in active_admin_ids : u # t => u \in active_admin_ids'
    BY <1>2, <2>2 DEF active_admin_ids, AdminTypeOK
  <2> QED BY <1>0, <1>1, <1>2, <2>1, <2>3, <2>4, <2>5, RemovalLeavesOne
<1>3. CASE UNCHANGED <<status, verified, admins, signed_in, overlapped, vouched>>
  <2>1. /\ AdminTypeOK' /\ StandingInv' /\ VerifiedInv'
        /\ active_admin_ids' = active_admin_ids
    BY <1>1, <1>3 DEF AdminTypeOK, StandingInv, VerifiedInv, active_admin_ids
  <2>2. \A o \in Requests : request'[o] = request[o] \/ ~PastCheck(o)'
    BY <1>1 DEF PastCheck, At
  <2> QED BY <1>3, <2>1, <2>2, AdminsAreKept
<1> QED BY <1>0, <1>2, <1>3 DEF DeleteAccount

(* An account read not to hold the role is not the last administrator, and *)
(* for one that does ensure_an_admin_remains finds another.                *)
LEMMA RolesCheckedStep ==
    ASSUME AdminIInv, NEW r \in Requests, roles_for(r) \/ ensure_an_admin_remains(r)
    PROVE  AdminIInv'
<1> USE DEF AdminIInv, observed
<1>0. PICK t \in Users : t = request[r].target
  BY RequestFields
<1>1. UNCHANGED <<status, verified, admins, signed_in, overlapped, vouched>>
  BY DEF roles_for, ensure_an_admin_remains
<1>2. /\ request' \in [Requests -> Request]
      /\ \A o \in Requests \ {r} : request'[o] = request[o]
      /\ \/ request'[r].pc \in {"read", "free"}
         \/ /\ request'[r].pc = "checked" /\ request'[r].op = request[r].op
            /\ request'[r].target = t
            /\ request[r].op = "revoke_role" /\ t \in admins
                 => active_admin_ids # {t}
  <2>1. CASE roles_for(r)
    BY <1>0, <2>1, StepFrame DEF roles_for
  <2>2. CASE Step(r, "checked") /\ active_admin_ids # {t}
    BY <1>0, <2>2, StepFrame
  <2>3. CASE End(r)
    BY <2>3, EndFrame DEF Idle
  <2> QED BY <1>0, <2>1, <2>2, <2>3 DEF ensure_an_admin_remains, AnAdminRemains
<1>3. /\ AdminTypeOK' /\ StandingInv' /\ VerifiedInv'
      /\ active_admin_ids' = active_admin_ids
  BY <1>1, <1>2 DEF AdminTypeOK, StandingInv, VerifiedInv, active_admin_ids
<1>4. CallerInv => CallerInv'
  BY <1>1, <1>2 DEF CallerInv, At
<1>5. ASSUME RemovalInv, active_admin_ids # {} PROVE RemovalInv'
  <2> SUFFICES ASSUME NEW o \in Requests, Removes(o)'
               PROVE  \E u \in active_admin_ids : u # request'[o].target
    BY <1>3 DEF RemovalInv
  <2>1. CASE o # r
    BY <2>1, <1>2, <1>5 DEF RemovalInv, Removes, At
  <2>2. CASE o = r
    <3>1. request'[r].target = t /\ (t \in admins => active_admin_ids # {t})
      BY <2>2, <1>2 DEF Removes, At
    <3>2. \E u \in active_admin_ids : u # t
      BY <3>1, <1>5 DEF active_admin_ids
    <3> QED BY <2>2, <3>1, <3>2
  <2> QED BY <2>1, <2>2
<1> QED BY <1>1, <1>3, <1>4, <1>5

LEMMA WriteRolesStep ==
    ASSUME AdminIInv, NEW r \in Requests, WriteRoles(r)
    PROVE  AdminIInv'
<1> USE DEF AdminIInv, observed
<1>0. PICK t \in Users : t = request[r].target
  BY RequestFields
<1>1. /\ request' \in [Requests -> Request] /\ request'[r].pc = "free"
      /\ \A o \in Requests \ {r} : request'[o] = request[o]
  BY EndFrame DEF WriteRoles, Idle
<1>2. UNCHANGED <<status, verified, signed_in>>
  BY DEF WriteRoles
<1>3. CASE request[r].op = "revoke_role"
  <2>1. admins' = admins \ {t} /\ Overlaps(r) /\ Removes(r)
    BY <1>0, <1>3 DEF WriteRoles, Removes, At
  <2>2. AdminTypeOK' /\ StandingInv' /\ VerifiedInv'
    BY <1>1, <1>2, <2>1 DEF AdminTypeOK, StandingInv, VerifiedInv, Overlaps
  <2>3. \A u \in active_admin_ids : u # t => u \in active_admin_ids'
    BY <1>2, <2>1 DEF active_admin_ids
  <2> QED BY <1>0, <1>1, <2>1, <2>2, <2>3, RemovalLeavesOne
<1>4. CASE request[r].op = "grant"
  <2>1. /\ UNCHANGED <<overlapped, vouched>>
        /\ admins' = IF Exists(t) THEN admins \cup {t} ELSE admins
    BY <1>0, <1>4 DEF WriteRoles, At
  <2>2. AdminTypeOK' /\ StandingInv' /\ VerifiedInv'
    BY <1>1, <1>2, <2>1 DEF AdminTypeOK, StandingInv, VerifiedInv
  <2>3. active_admin_ids \subseteq active_admin_ids'
    BY <1>2, <2>1 DEF active_admin_ids
  <2>4. \A o \in Requests : request'[o] = request[o] \/ ~PastCheck(o)'
    BY <1>1 DEF PastCheck, At
  <2> QED BY <1>2, <2>1, <2>2, <2>3, <2>4, AdminsAreKept
<1> QED BY <1>3, <1>4 DEF WriteRoles, At

LEMMA AdminInductiveStep == AdminIInv /\ [AdminNext]_adminVars => AdminIInv'
<1> SUFFICES ASSUME AdminIInv, [AdminNext]_adminVars PROVE AdminIInv'
  OBVIOUS
<1>1. CASE \E u \in Users : \/ Register(u) \/ VerifyEmail(u)
                            \/ OpenSession(u) \/ grant_role_by_email(u)
  BY <1>1, AccountSteps
<1>2. CASE \E r \in Requests : Administer(r)
  <2> PICK r \in Requests : Administer(r)
    BY <1>2
  <2> QED BY AuthenticateStep, SessionUserStep, RequireRoleStep, SetStatusStep,
             RevokeAccountSessionsStep, DeleteAccountStep, RolesCheckedStep,
             WriteRolesStep DEF Administer
<1>3. CASE UNCHANGED adminVars
  BY <1>3 DEF adminVars, observed, AdminIInv, AdminTypeOK, StandingInv,
              VerifiedInv, RemovalInv, CallerInv, active_admin_ids, Removes, At
<1> QED BY <1>1, <1>2, <1>3 DEF AdminNext

(* The two rules of administration.rs, no request against oneself and no   *)
(* role taken from the last active administrator, keep one who can sign in *)
(* for any number of accounts and concurrent requests, whether or not      *)
(* addresses must be verified: the caller's own standing is the witness of *)
(* a disable and of a deletion.  Only a removal written while another is   *)
(* past its checks, and an account activated without a verified address    *)
(* where one is required, escape.                                          *)
THEOREM AnAdministratorRemains == AdminSpec => []AdministratorRemains
<1>1. AdminIInv => AdministratorRemains
  <2> SUFFICES ASSUME AdminIInv, ~overlapped, ~vouched
               PROVE  \E u \in admins : MaySignIn(u)
    BY DEF AdministratorRemains
  <2>1. PICK u \in active_admin_ids : TRUE
    BY DEF AdminIInv
  <2>2. u \in admins /\ u \in Users /\ status[u] = "active"
    BY <2>1 DEF AdminIInv, AdminTypeOK, active_admin_ids
  <2>3. RequireVerification => u \in verified
    BY <2>2 DEF AdminIInv, VerifiedInv
  <2> QED BY <2>2, <2>3 DEF MaySignIn, Exists, UserStatus
<1> QED BY <1>1, AdminInitInv, AdminInductiveStep, PTL DEF AdminSpec
=============================================================================
