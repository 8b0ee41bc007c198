------------------------ MODULE OneTimeTokensProofs -------------------------
(***************************************************************************)
(* Safety of the one-time links of an account, for any number of links and *)
(* of concurrent requests for a link.  In the second part, the queue that  *)
(* mails the links: EmailQueue loses and doubles a message only for a      *)
(* cause, for any number of messages, worker loops and faults.             *)
(***************************************************************************)
EXTENDS OneTimeTokens, EmailQueue, FiniteSetTheorems, TLAPS

(* A link that was not used up was never accepted; one that was, was       *)
(* accepted once at most, as what it was issued for.                       *)
UseInv ==
    \A t \in Tokens : \A p \in Purposes :
        /\ redeemed[t][p] <= IF p = token[t].purpose THEN 1 ELSE 0
        /\ token[t].state # "consumed" => redeemed[t][p] = 0

(* A link nobody's request has used up was accepted for nothing.           *)
RequestInv ==
    \A t \in Tokens : request[t] = "none" =>
        \A p \in Purposes : redeemed[t][p] = 0

(* A request for a link has seen rows that exist, and once its UPDATE is   *)
(* done it holds those among them that nobody has used up.                 *)
HeldInv ==
    \A i \in Issuers : \A t \in issuer[i].seen :
        /\ issuer[i].pc \in {"snapshot", "invalidated"} => token[t].state # "none"
        /\ issuer[i].pc = "invalidated" /\ Unconsumed(t) => holder[t] = i

(* A superseded link was used up by its replacement, not by its owner.     *)
SupersededInv ==
    \A t \in superseded : token[t].state = "consumed" /\ request[t] = "none"

(* While no two requests for a link were interleaved, a request for one    *)
(* sees, and then holds, every outstanding link of its purpose.            *)
SnapshotInv ==
    \A i \in Issuers : \A t \in Tokens :
        (/\ Unconsumed(t)
         /\ token[t].purpose = issuer[i].purpose
         /\ token[t].purpose \notin overlapped)
            => /\ issuer[i].pc = "snapshot" => t \in issuer[i].seen
               /\ issuer[i].pc = "invalidated" => holder[t] = i

LiveInv ==
    \A t, u \in Tokens :
        /\ token[t].state = "live" /\ token[u].state = "live"
        /\ token[t].purpose = token[u].purpose
        /\ token[t].purpose \notin overlapped
        => t = u

IInv ==
    /\ TypeOK /\ UseInv /\ RequestInv
    /\ HeldInv /\ SupersededInv
    /\ SnapshotInv /\ LiveInv

-----------------------------------------------------------------------------
(* What the statements do to the rows                                      *)

(* The step of a request leaves issuer i in a state of its own and every   *)
(* other request alone.                                                    *)
LEMMA IssuerRows ==
    ASSUME TypeOK, NEW i \in Issuers, Request(i)
    PROVE  /\ issuer' \in [Issuers -> Issuer]
           /\ \A o \in Issuers \ {i} : issuer'[o] = issuer[o]
           /\ UNCHANGED <<accountVars, redeemed>>
<1> USE DEF Purposes
<1>1. issuer[i] \in Issuer /\ Idle \in Issuer
    BY DEF TypeOK, Issuer, Idle
<1>2. ASSUME NEW p \in Purposes, Begin(i, p)
      PROVE  /\ issuer' \in [Issuers -> Issuer]
             /\ \A o \in Issuers \ {i} : issuer'[o] = issuer[o]
    <2>1. [pc |-> "begun", purpose |-> p, seen |-> {}] \in Issuer
        BY DEF Issuer
    <2> QED
        BY <1>2, <2>1 DEF Begin, TypeOK
<1>3. ASSUME Outstanding(i)
      PROVE  /\ issuer' \in [Issuers -> Issuer]
             /\ \A o \in Issuers \ {i} : issuer'[o] = issuer[o]
    <2> DEFINE S == {t \in Tokens :
                       Unconsumed(t) /\ token[t].purpose = issuer[i].purpose}
    <2>1. [issuer[i] EXCEPT !.pc = "snapshot", !.seen = S] \in Issuer
        BY <1>1 DEF Issuer
    <2>2. issuer' = [issuer EXCEPT ![i] = [issuer[i] EXCEPT !.pc = "snapshot", !.seen = S]]
        BY <1>3 DEF Outstanding, TypeOK
    <2> HIDE DEF S
    <2> QED
        BY <2>1, <2>2 DEF TypeOK
<1>4. ASSUME invalidate_outstanding(i)
      PROVE  /\ issuer' \in [Issuers -> Issuer]
             /\ \A o \in Issuers \ {i} : issuer'[o] = issuer[o]
    <2>1. [issuer[i] EXCEPT !.pc = "invalidated"] \in Issuer
        BY <1>1 DEF Issuer
    <2> QED
        BY <1>4, <2>1 DEF invalidate_outstanding, TypeOK
<1>5. ASSUME issuer' = [issuer EXCEPT ![i] = Idle]
      PROVE  /\ issuer' \in [Issuers -> Issuer]
             /\ \A o \in Issuers \ {i} : issuer'[o] = issuer[o]
    BY <1>1, <1>5 DEF TypeOK
<1>6. UNCHANGED <<accountVars, redeemed>>
    BY DEF observers, Request, request_password_reset, resend_verification, Begin,
           Outstanding, invalidate_outstanding, issue, Rollback
<1> QED
    BY <1>2, <1>3, <1>4, <1>5, <1>6
    DEF Request, request_password_reset, resend_verification, issue, Rollback

(* The commit of a request: one link is born, the held ones are used up.   *)
LEMMA IssueRows ==
    ASSUME TypeOK, NEW i \in Issuers, NEW new \in Tokens, issue(i, new)
    PROVE  /\ token' \in [Tokens -> TokenRow]
           /\ token[new].state = "none" /\ token'[new].state = "live"
           /\ token'[new].purpose = issuer[i].purpose
           /\ \A t \in Tokens \ {new} :
                /\ token'[t].purpose = token[t].purpose
                /\ holder[t] = i => token'[t].state = "consumed"
                /\ holder[t] # i => token'[t] = token[t]
<1>1. [state |-> "live", purpose |-> issuer[i].purpose] \in TokenRow
    BY DEF TypeOK, TokenRow, Issuer
<1>2. ASSUME NEW t \in Tokens
      PROVE  /\ token[t] \in TokenRow
             /\ [token[t] EXCEPT !.state = "consumed"] \in TokenRow
             /\ [token[t] EXCEPT !.state = "consumed"].state = "consumed"
             /\ [token[t] EXCEPT !.state = "consumed"].purpose = token[t].purpose
    BY DEF TypeOK, TokenRow
<1>3. /\ token'[new] = [state |-> "live", purpose |-> issuer[i].purpose]
      /\ \A t \in Tokens \ {new} :
           /\ holder[t] = i => token'[t] = [token[t] EXCEPT !.state = "consumed"]
           /\ holder[t] # i => token'[t] = token[t]
    BY DEF issue
<1>4. ASSUME NEW t \in Tokens PROVE token'[t] \in TokenRow
    BY <1>1, <1>2, <1>3
<1>5. token' \in [Tokens -> TokenRow]
    BY <1>4 DEF issue
<1> QED
    BY <1>2, <1>3, <1>5 DEF issue

(* One link used up or expired: its purpose stays, and so do the others.   *)
LEMMA StateRows ==
    ASSUME TypeOK, NEW t \in Tokens, NEW x \in {"consumed", "expired"},
           token' = [token EXCEPT ![t].state = x]
    PROVE  /\ token' \in [Tokens -> TokenRow]
           /\ token'[t].state = x /\ token'[t].purpose = token[t].purpose
           /\ \A u \in Tokens \ {t} : token'[u] = token[u]
<1>1. /\ [token[t] EXCEPT !.state = x] \in TokenRow
      /\ [token[t] EXCEPT !.state = x].purpose = token[t].purpose
      /\ [token[t] EXCEPT !.state = x].state = x
    BY DEF TypeOK, TokenRow
<1>2. token' = [token EXCEPT ![t] = [token[t] EXCEPT !.state = x]]
    BY DEF TypeOK
<1> QED
    BY <1>1, <1>2 DEF TypeOK

(* An accepted link: it was never accepted before.                         *)
LEMMA ConsumeRows ==
    ASSUME TypeOK, UseInv, NEW t \in Tokens, NEW p \in Purposes, consume(t, p)
    PROVE  /\ redeemed' \in [Tokens -> [Purposes -> Nat]]
           /\ token[t].state = "live" /\ token[t].purpose = p
           /\ redeemed'[t][p] = 1
           /\ \A q \in Purposes \ {p} : redeemed'[t][q] = redeemed[t][q]
           /\ \A u \in Tokens \ {t} : redeemed'[u] = redeemed[u]
<1>1. redeemed[t] \in [Purposes -> Nat] /\ redeemed[t][p] = 0
    BY DEF TypeOK, UseInv, consume
<1>2. redeemed[t][p] + 1 = 1 /\ 1 \in Nat
    BY <1>1
<1>3. [redeemed[t] EXCEPT ![p] = 1] \in [Purposes -> Nat]
    BY <1>1, <1>2
<1>4. redeemed' = [redeemed EXCEPT ![t] = [redeemed[t] EXCEPT ![p] = 1]]
    BY <1>2 DEF consume, TypeOK
<1> QED
    BY <1>1, <1>3, <1>4 DEF consume, TypeOK

-----------------------------------------------------------------------------
(* Type correctness                                                        *)

(* Every statement keeps the rows and the requests well formed.            *)
LEMMA TypeStep ==
    ASSUME TypeOK, UseInv, [Next]_vars
    PROVE  TypeOK'
<1> USE DEF accountVars, observers
<1>1. ASSUME NEW i \in Issuers, Request(i)
      PROVE  TypeOK'
    <2>1. token' \in [Tokens -> TokenRow]
        BY <1>1, IssueRows
        DEF Request, request_password_reset, resend_verification, Begin,
            Outstanding, invalidate_outstanding, Rollback, TypeOK
    <2>2. holder' \in [Tokens -> Issuers \cup {Nobody}]
        BY <1>1
        DEF Request, request_password_reset, resend_verification, Begin,
            Outstanding, invalidate_outstanding, issue, Rollback, Released,
            TypeOK
    <2>3. overlapped' \in SUBSET Purposes
        <3>1. issuer[i].purpose \in Purposes
            BY DEF TypeOK, Issuer
        <3> QED
            BY <1>1, <3>1
            DEF Request, request_password_reset, resend_verification, Begin,
                Outstanding, invalidate_outstanding, issue, Rollback, TypeOK
    <2>4. superseded' \in SUBSET Tokens
        <3>1. issuer[i].seen \subseteq Tokens
            BY DEF TypeOK, Issuer
        <3> QED
            BY <1>1, <3>1
            DEF Request, request_password_reset, resend_verification, Begin,
                Outstanding, invalidate_outstanding, issue, Rollback, TypeOK
    <2> QED
        BY <1>1, <2>1, <2>2, <2>3, <2>4, IssuerRows DEF TypeOK
<1>2. ASSUME NEW t \in Tokens, NEW p \in Purposes, Redeem(t, p)
      PROVE  TypeOK'
    <2>1. token' \in [Tokens -> TokenRow]
        BY <1>2, StateRows DEF Redeem, consume
    <2>2. redeemed' \in [Tokens -> [Purposes -> Nat]]
        BY <1>2, ConsumeRows DEF Redeem
    <2> QED
        BY <1>2, <2>1, <2>2 DEF Redeem, TypeOK
<1>3. ASSUME NEW t \in Tokens, NEW p \in Purposes, NEW x \in {"done", "broken"},
             Goes(t, p, x)
      PROVE  /\ request' \in [Tokens -> {"none", "change", "done", "broken"}]
             /\ UNCHANGED <<token, holder, issuer, observers>>
    BY <1>3 DEF Goes, TypeOK
<1>4. ASSUME NEW t \in Tokens, update_password(t)
      PROVE  TypeOK'
    BY <1>3, <1>4 DEF update_password, TypeOK, Purposes
<1>5. ASSUME NEW t \in Tokens, mark_email_verified(t)
      PROVE  TypeOK'
    <2>1. status' \in {"pending", "active", "disabled"} /\ verified' \in BOOLEAN
        BY <1>5 DEF mark_email_verified, Activated, TypeOK
    <2> QED
        BY <1>3, <1>5, <2>1 DEF mark_email_verified, TypeOK, Purposes
<1>6. ASSUME NEW t \in Tokens, BreakOff(t)
      PROVE  TypeOK'
    BY <1>3, <1>6 DEF BreakOff, TypeOK
<1>7. ASSUME NEW t \in Tokens, Expire(t)
      PROVE  TypeOK'
    <2>1. token' \in [Tokens -> TokenRow]
        BY <1>7, StateRows DEF Expire
    <2> QED
        BY <1>7, <2>1 DEF Expire, TypeOK
<1>8. ASSUME NEW x \in {"active", "disabled"}, SetStatus(x)
      PROVE  TypeOK'
    BY <1>8 DEF SetStatus, TypeOK
<1>9. CASE UNCHANGED vars
    BY <1>9 DEF vars, TypeOK
<1> QED
    BY <1>1, <1>2, <1>4, <1>5, <1>6, <1>7, <1>8, <1>9
    DEF Next, reset_password, verify_email, Purposes

-----------------------------------------------------------------------------
(* Uses and effects                                                        *)

(* Nothing but an acceptance of the live link counts one, and nothing but  *)
(* the birth of a link gives it its purpose.                               *)
LEMMA UseStep ==
    ASSUME TypeOK, UseInv, [Next]_vars
    PROVE  /\ UseInv'
           /\ \A t \in Tokens : token[t].state = "consumed" =>
                /\ token'[t].state = "consumed"
                /\ token'[t].purpose = token[t].purpose
                /\ redeemed'[t] = redeemed[t]
<1> USE DEF accountVars, observers
<1> DEFINE Final == \A t \in Tokens : token[t].state = "consumed" =>
                      /\ token'[t].state = "consumed"
                      /\ token'[t].purpose = token[t].purpose
                      /\ redeemed'[t] = redeemed[t]
<1>1. ASSUME UNCHANGED <<token, redeemed>> PROVE UseInv' /\ Final
    BY <1>1 DEF UseInv
<1>2. ASSUME NEW i \in Issuers, NEW new \in Tokens, issue(i, new)
      PROVE  UseInv' /\ Final
    <2>1. UNCHANGED redeemed
        BY <1>2 DEF issue
    <2>2. Final
        BY <1>2, <2>1, IssueRows DEF TypeOK, TokenRow
    <2>3. ASSUME NEW t \in Tokens, NEW p \in Purposes
          PROVE  /\ redeemed[t][p] <= IF p = token'[t].purpose THEN 1 ELSE 0
                 /\ token'[t].state # "consumed" => redeemed[t][p] = 0
        <3>1. CASE t = new
            BY <1>2, <3>1, IssueRows DEF UseInv
        <3>2. CASE t # new
            BY <1>2, <3>2, IssueRows DEF UseInv
        <3> QED
            BY <3>1, <3>2
    <2> QED
        BY <2>1, <2>2, <2>3 DEF UseInv
<1>3. ASSUME NEW t \in Tokens, NEW p \in Purposes, Redeem(t, p)
      PROVE  UseInv' /\ Final
    <2>1. /\ token'[t].state = "consumed" /\ token'[t].purpose = token[t].purpose
          /\ \A u \in Tokens \ {t} : token'[u] = token[u]
        BY <1>3, StateRows DEF Redeem, consume
    <2>2. /\ token[t].state = "live" /\ token[t].purpose = p /\ redeemed'[t][p] = 1
          /\ \A q \in Purposes \ {p} : redeemed'[t][q] = redeemed[t][q]
          /\ \A u \in Tokens \ {t} : redeemed'[u] = redeemed[u]
        BY <1>3, ConsumeRows DEF Redeem
    <2>3. Final
        BY <2>1, <2>2
    <2>4. ASSUME NEW u \in Tokens, NEW q \in Purposes
          PROVE  /\ redeemed'[u][q] <= IF q = token'[u].purpose THEN 1 ELSE 0
                 /\ token'[u].state # "consumed" => redeemed'[u][q] = 0
        <3>1. CASE u = t /\ q = p
            BY <2>1, <2>2, <3>1
        <3>2. CASE u = t /\ q # p
            BY <2>1, <2>2, <3>2 DEF UseInv
        <3>3. CASE u # t
            BY <2>1, <2>2, <3>3 DEF UseInv
        <3> QED
            BY <3>1, <3>2, <3>3
    <2> QED
        BY <2>3, <2>4 DEF UseInv
<1>4. ASSUME NEW t \in Tokens, Expire(t)
      PROVE  UseInv' /\ Final
    <2>1. /\ token[t].state = "live" /\ UNCHANGED redeemed
          /\ token'[t].state = "expired" /\ token'[t].purpose = token[t].purpose
          /\ \A u \in Tokens \ {t} : token'[u] = token[u]
        BY <1>4, StateRows DEF Expire
    <2> QED
        BY <2>1 DEF UseInv
<1> QED
    BY <1>1, <1>2, <1>3, <1>4
    DEF Next, vars, Request, request_password_reset, resend_verification, Begin,
        Outstanding, invalidate_outstanding, Rollback, reset_password,
        verify_email, update_password, mark_email_verified, BreakOff, Goes,
        SetStatus, Purposes

(* Only the request that uses a link up has it accepted, and no request    *)
(* forgets that it did.                                                    *)
LEMMA RequestStep ==
    ASSUME TypeOK, UseInv, RequestInv, [Next]_vars
    PROVE  /\ RequestInv'
           /\ \A t \in Tokens : request[t] = "none" /\ token[t].state # "live"
                => request'[t] = "none"
<1> USE DEF accountVars, observers
<1> DEFINE Kept == \A t \in Tokens :
                     request[t] = "none" /\ token[t].state # "live"
                        => request'[t] = "none"
<1>1. ASSUME UNCHANGED <<request, redeemed>> PROVE RequestInv' /\ Kept
    BY <1>1 DEF RequestInv
<1>2. ASSUME NEW t \in Tokens, NEW p \in Purposes, Redeem(t, p)
      PROVE  RequestInv' /\ Kept
    <2>1. /\ request'[t] = "change" /\ token[t].state = "live"
          /\ \A u \in Tokens \ {t} : request'[u] = request[u]
        BY <1>2 DEF Redeem, consume, TypeOK
    <2>2. \A u \in Tokens \ {t} : redeemed'[u] = redeemed[u]
        BY <1>2, ConsumeRows DEF Redeem
    <2> QED
        BY <2>1, <2>2 DEF RequestInv
<1>3. ASSUME NEW t \in Tokens, NEW p \in Purposes, NEW x \in {"done", "broken"},
             Goes(t, p, x)
      PROVE  RequestInv' /\ Kept
    <2>1. /\ request[t] = "change" /\ request'[t] = x /\ UNCHANGED redeemed
          /\ \A u \in Tokens \ {t} : request'[u] = request[u]
        BY <1>3 DEF Goes, TypeOK
    <2> QED
        BY <2>1 DEF RequestInv
<1>4. ASSUME NEW i \in Issuers, Request(i) PROVE RequestInv' /\ Kept
    BY <1>1, <1>4, IssuerRows
<1> QED
    BY <1>1, <1>2, <1>3, <1>4
    DEF Next, vars, reset_password, verify_email, update_password,
        mark_email_verified, BreakOff, Expire, SetStatus, Purposes

-----------------------------------------------------------------------------
(* Outstanding links                                                       *)

(* A purpose once overlapped stays so; a link of a purpose that is not     *)
(* overlapped after a request's commit was not born behind the back of     *)
(* another request.                                                        *)
LEMMA SnapshotStep ==
    ASSUME TypeOK, SnapshotInv, [Next]_vars
    PROVE  SnapshotInv'
<1> USE DEF accountVars, observers
<1> DEFINE P(i, t) == (/\ Unconsumed(t)
                       /\ token[t].purpose = issuer[i].purpose
                       /\ token[t].purpose \notin overlapped)
            => /\ issuer[i].pc = "snapshot" => t \in issuer[i].seen
               /\ issuer[i].pc = "invalidated" => holder[t] = i
<1> SUFFICES ASSUME NEW i \in Issuers, NEW t \in Tokens PROVE P(i, t)'
    BY DEF SnapshotInv
<1>0. P(i, t)
    BY DEF SnapshotInv
<1>1. ASSUME UNCHANGED <<holder, issuer, overlapped>>,
             Unconsumed(t)' => Unconsumed(t),
             token'[t].purpose = token[t].purpose
      PROVE  P(i, t)'
    BY <1>0, <1>1
<1>2. ASSUME NEW o \in Issuers, NEW p \in Purposes, Begin(o, p)
      PROVE  P(i, t)'
    <2>1. CASE o = i
        BY <1>2, <2>1 DEF Begin, TypeOK
    <2>2. CASE o # i
        BY <1>0, <1>2, <2>2 DEF Begin, TypeOK, Unconsumed
    <2> QED
        BY <2>1, <2>2
<1>3. ASSUME NEW o \in Issuers, Outstanding(o)
      PROVE  P(i, t)'
    <2>1. CASE o = i
        <3>1. /\ issuer'[i].pc = "snapshot" /\ issuer'[i].purpose = issuer[i].purpose
              /\ issuer'[i].seen = {u \in Tokens :
                       Unconsumed(u) /\ token[u].purpose = issuer[i].purpose}
            BY <1>3, <2>1 DEF Outstanding, TypeOK, Issuer
        <3> QED
            BY <1>3, <3>1 DEF Outstanding, Unconsumed
    <2>2. CASE o # i
        BY <1>0, <1>3, <2>2 DEF Outstanding, TypeOK, Unconsumed
    <2> QED
        BY <2>1, <2>2
<1>4. ASSUME NEW o \in Issuers, invalidate_outstanding(o)
      PROVE  P(i, t)'
    <2>1. CASE o = i
        <3>1. /\ issuer'[i].pc = "invalidated"
              /\ issuer'[i].purpose = issuer[i].purpose
              /\ issuer[i].pc = "snapshot" /\ UNCHANGED <<token, overlapped>>
              /\ t \in issuer[i].seen /\ Unconsumed(t) => holder'[t] = i
            BY <1>4, <2>1 DEF invalidate_outstanding, TypeOK, Issuer
        <3> QED
            BY <1>0, <3>1 DEF Unconsumed
    <2>2. CASE o # i
        <3>1. /\ issuer'[i] = issuer[i] /\ UNCHANGED <<token, overlapped>>
              /\ holder[t] = i => holder'[t] = i
            BY <1>4, <2>2, TokensAssumption DEF invalidate_outstanding, TypeOK
        <3> QED
            BY <1>0, <3>1 DEF Unconsumed
    <2> QED
        BY <2>1, <2>2
<1>5. ASSUME NEW o \in Issuers, NEW new \in Tokens, issue(o, new)
      PROVE  P(i, t)'
    <2>1. CASE o = i
        <3>1. issuer'[i].pc = "free"
            BY <1>5, <2>1 DEF issue, Idle, TypeOK
        <3> QED
            BY <3>1
    <2>2. CASE o # i
        <3>1. issuer'[i] = issuer[i] /\ overlapped \subseteq overlapped'
            BY <1>5, <2>2 DEF issue, TypeOK
        <3>2. holder[t] = i => holder'[t] = i
            BY <1>5, <2>2 DEF issue, Released
        <3>3. CASE t # new
            <4>1. /\ token'[t].purpose = token[t].purpose
                  /\ Unconsumed(t)' => Unconsumed(t)
                BY <1>5, <3>3, IssueRows DEF Unconsumed
            <4> QED
                BY <1>0, <3>1, <3>2, <4>1
        <3>4. CASE t = new
            <4>1. token'[t].purpose = issuer[o].purpose
                BY <1>5, <3>4, IssueRows
            <4>2. (/\ issuer[i].pc \in {"snapshot", "invalidated"}
                   /\ issuer[i].purpose = issuer[o].purpose)
                    => issuer[o].purpose \in overlapped'
                BY <1>5, <2>2 DEF issue, Overlaps
            <4> QED
                BY <3>1, <4>1, <4>2
        <3> QED
            BY <3>3, <3>4
    <2> QED
        BY <2>1, <2>2
<1>6. ASSUME NEW o \in Issuers, Rollback(o)
      PROVE  P(i, t)'
    <2>1. CASE o = i
        <3>1. issuer'[i].pc = "free"
            BY <1>6, <2>1 DEF Rollback, Idle, TypeOK
        <3> QED
            BY <3>1
    <2>2. CASE o # i
        BY <1>0, <1>6, <2>2 DEF Rollback, Released, TypeOK, Unconsumed
    <2> QED
        BY <2>1, <2>2
<1>7. ASSUME NEW u \in Tokens, NEW p \in Purposes, Redeem(u, p)
      PROVE  P(i, t)'
    <2>1. token'[t].purpose = token[t].purpose /\ (Unconsumed(t)' => Unconsumed(t))
        BY <1>7, StateRows DEF Redeem, consume, Unconsumed
    <2> QED
        BY <1>1, <1>7, <2>1 DEF Redeem
<1>8. ASSUME NEW u \in Tokens, Expire(u)
      PROVE  P(i, t)'
    <2>1. token'[t].purpose = token[t].purpose /\ (Unconsumed(t)' => Unconsumed(t))
        BY <1>8, StateRows DEF Expire, Unconsumed
    <2> QED
        BY <1>1, <1>8, <2>1 DEF Expire
<1>9. ASSUME UNCHANGED <<token, holder, issuer, overlapped>>
      PROVE  P(i, t)'
    BY <1>1, <1>9 DEF Unconsumed
<1> HIDE DEF P
<1> QED
    BY <1>2, <1>3, <1>4, <1>5, <1>6, <1>7, <1>8, <1>9
    DEF Next, vars, Request, request_password_reset, resend_verification,
        reset_password, verify_email, update_password, mark_email_verified,
        BreakOff, Goes, SetStatus, Purposes

(* What a request holds nobody else takes, and what it has seen does not   *)
(* come to life again.                                                     *)
LEMMA HeldStep ==
    ASSUME TypeOK, HeldInv, [Next]_vars
    PROVE  HeldInv'
<1> USE DEF accountVars, observers
<1> DEFINE P(i, t) ==
      /\ issuer[i].pc \in {"snapshot", "invalidated"} => token[t].state # "none"
      /\ issuer[i].pc = "invalidated" /\ Unconsumed(t) => holder[t] = i
<1>0. ASSUME NEW i \in Issuers PROVE issuer[i].seen \subseteq Tokens
    BY DEF TypeOK, Issuer
<1>1. ASSUME UNCHANGED <<holder, issuer>>,
             \A t \in Tokens :
                /\ token[t].state # "none" => token'[t].state # "none"
                /\ Unconsumed(t)' => Unconsumed(t)
      PROVE  HeldInv'
    BY <1>0, <1>1 DEF HeldInv
<1>2. ASSUME NEW o \in Issuers,
             issuer' \in [Issuers -> Issuer],
             \A i \in Issuers \ {o} : issuer'[i] = issuer[i],
             \A i \in Issuers \ {o} : \A t \in Tokens :
                holder[t] = i => holder'[t] = i,
             \A i \in Issuers \ {o} : \A t \in issuer[i].seen :
                /\ token[t].state # "none" => token'[t].state # "none"
                /\ token[t].state # "none" /\ Unconsumed(t)' => Unconsumed(t),
             \A t \in issuer'[o].seen : P(o, t)'
      PROVE  HeldInv'
    <2> SUFFICES ASSUME NEW i \in Issuers, NEW t \in issuer'[i].seen
                 PROVE  P(i, t)'
        BY DEF HeldInv
    <2>1. CASE i = o
        BY <1>2, <2>1
    <2>2. CASE i # o
        <3>1. issuer'[i] = issuer[i] /\ t \in issuer[i].seen /\ t \in Tokens
            BY <1>0, <1>2, <2>2
        <3>2. P(i, t)
            BY <3>1 DEF HeldInv
        <3> QED
            BY <1>2, <2>2, <3>1, <3>2
    <2> QED
        BY <2>1, <2>2
<1>3. ASSUME NEW o \in Issuers, NEW p \in Purposes, Begin(o, p), Request(o)
      PROVE  HeldInv'
    <2>1. issuer'[o].seen = {} /\ UNCHANGED <<token, holder>>
        BY <1>3 DEF Begin, TypeOK
    <2> QED
        BY <1>2, <1>3, <2>1, IssuerRows DEF Unconsumed
<1>4. ASSUME NEW o \in Issuers, Outstanding(o) PROVE HeldInv'
    <2>1. /\ issuer'[o].pc = "snapshot" /\ UNCHANGED <<token, holder>>
          /\ issuer'[o].seen = {t \in Tokens :
               Unconsumed(t) /\ token[t].purpose = issuer[o].purpose}
        BY <1>4 DEF Outstanding, TypeOK, Issuer
    <2>2. \A t \in issuer'[o].seen : P(o, t)'
        BY <2>1 DEF Unconsumed
    <2> QED
        BY <1>2, <1>4, <2>1, <2>2, IssuerRows DEF Request, Unconsumed
<1>5. ASSUME NEW o \in Issuers, invalidate_outstanding(o) PROVE HeldInv'
    <2>1. /\ issuer[o].pc = "snapshot" /\ issuer'[o].pc = "invalidated"
          /\ issuer'[o].seen = issuer[o].seen /\ UNCHANGED token
          /\ \A t \in issuer[o].seen : holder[t] = Nobody
          /\ \A t \in Tokens : holder'[t] =
               IF t \in issuer[o].seen /\ Unconsumed(t) THEN o ELSE holder[t]
        BY <1>5 DEF invalidate_outstanding, TypeOK, Issuer
    <2>2. \A t \in issuer'[o].seen : P(o, t)'
        BY <1>0, <2>1 DEF HeldInv, Unconsumed
    <2>3. \A i \in Issuers \ {o} : \A t \in Tokens :
             holder[t] = i => holder'[t] = i
        BY <2>1, TokensAssumption
    <2> QED
        BY <1>2, <1>5, <2>1, <2>2, <2>3, IssuerRows DEF Request, Unconsumed
<1>6. ASSUME NEW o \in Issuers, NEW new \in Tokens, issue(o, new)
      PROVE  HeldInv'
    <2>1. /\ issuer'[o].seen = {}
          /\ \A i \in Issuers \ {o} : \A t \in Tokens :
               holder[t] = i => holder'[t] = i
        BY <1>6 DEF issue, Released, Idle, TypeOK
    <2>2. \A t \in Tokens :
            /\ token[t].state # "none" => token'[t].state # "none"
            /\ token[t].state # "none" /\ Unconsumed(t)' => Unconsumed(t)
        BY <1>6, IssueRows DEF Unconsumed
    <2> QED
        BY <1>0, <1>2, <1>6, <2>1, <2>2, IssuerRows DEF Request
<1>7. ASSUME NEW o \in Issuers, Rollback(o) PROVE HeldInv'
    <2>1. /\ issuer'[o].seen = {} /\ UNCHANGED token
          /\ \A i \in Issuers \ {o} : \A t \in Tokens :
               holder[t] = i => holder'[t] = i
        BY <1>7 DEF Rollback, Released, Idle, TypeOK
    <2> QED
        BY <1>2, <1>7, <2>1, IssuerRows DEF Request, Unconsumed
<1>8. ASSUME NEW u \in Tokens, NEW p \in Purposes, Redeem(u, p) PROVE HeldInv'
    <2>1. \A t \in Tokens :
            /\ token[t].state # "none" => token'[t].state # "none"
            /\ Unconsumed(t)' => Unconsumed(t)
        BY <1>8, StateRows DEF Redeem, consume, Unconsumed
    <2> QED
        BY <1>1, <1>8, <2>1 DEF Redeem
<1>9. ASSUME NEW u \in Tokens, Expire(u) PROVE HeldInv'
    <2>1. \A t \in Tokens :
            /\ token[t].state # "none" => token'[t].state # "none"
            /\ Unconsumed(t)' => Unconsumed(t)
        BY <1>9, StateRows DEF Expire, Unconsumed
    <2> QED
        BY <1>1, <1>9, <2>1 DEF Expire
<1>10. ASSUME UNCHANGED <<token, holder, issuer>> PROVE HeldInv'
    BY <1>1, <1>10 DEF Unconsumed
<1> HIDE DEF P
<1>11. ASSUME NEW o \in Issuers, Request(o) PROVE HeldInv'
    BY <1>3, <1>4, <1>5, <1>6, <1>7, <1>11
    DEF Request, request_password_reset, resend_verification, Purposes
<1> QED
    BY <1>8, <1>9, <1>10, <1>11
    DEF Next, vars, reset_password, verify_email, update_password,
        mark_email_verified, BreakOff, Goes, SetStatus, Purposes

(* The commit of a request uses up every link it has seen and that nobody  *)
(* used up before, and a link once used up stays so.                       *)
LEMMA SupersededStep ==
    ASSUME TypeOK, UseInv, RequestInv, HeldInv, SupersededInv, [Next]_vars
    PROVE  SupersededInv'
<1> USE DEF accountVars, observers
<1>1. \A t \in Tokens : token[t].state = "consumed" => token'[t].state = "consumed"
    BY UseStep
<1>2. \A t \in Tokens : request[t] = "none" /\ token[t].state # "live"
        => request'[t] = "none"
    BY RequestStep
<1>3. CASE UNCHANGED superseded
    BY <1>1, <1>2, <1>3 DEF SupersededInv, TypeOK
<1>4. ASSUME NEW i \in Issuers, NEW new \in Tokens, issue(i, new)
      PROVE  SupersededInv'
    <2> SUFFICES ASSUME NEW t \in superseded'
                 PROVE  token'[t].state = "consumed" /\ request'[t] = "none"
        BY DEF SupersededInv
    <2>1. /\ UNCHANGED request /\ issuer[i].pc = "invalidated"
          /\ superseded' = superseded \cup {u \in issuer[i].seen : request[u] = "none"}
        BY <1>4 DEF issue
    <2>2. CASE t \in superseded
        BY <1>1, <2>1, <2>2 DEF SupersededInv, TypeOK
    <2>3. CASE t \in issuer[i].seen /\ request[t] = "none"
        <3>1. t \in Tokens
            BY <2>3 DEF TypeOK, Issuer
        <3>2. /\ token[t].state # "none"
              /\ Unconsumed(t) => holder[t] = i
            BY <2>1, <2>3 DEF HeldInv
        <3>3. t # new
            BY <1>4, <3>2, IssueRows
        <3>4. token[t].state \in {"none", "live", "expired", "consumed"}
            BY <3>1 DEF TypeOK, TokenRow
        <3> QED
            BY <1>1, <1>4, <2>1, <2>3, <3>1, <3>2, <3>3, <3>4, IssueRows
            DEF Unconsumed
    <2> QED
        BY <2>1, <2>2, <2>3
<1> QED
    BY <1>3, <1>4
    DEF Next, vars, Request, request_password_reset, resend_verification, Begin,
        Outstanding, invalidate_outstanding, Rollback, reset_password,
        verify_email, Redeem, update_password, mark_email_verified, BreakOff,
        Goes, Expire, SetStatus

(* The new link is the only live one of its purpose: its request held all  *)
(* the others, and used them up.                                           *)
LEMMA LiveStep ==
    ASSUME TypeOK, SnapshotInv, LiveInv, [Next]_vars
    PROVE  LiveInv'
<1> USE DEF accountVars, observers
<1>1. ASSUME \A t \in Tokens : token'[t].state = "live" => token'[t] = token[t],
             UNCHANGED overlapped
      PROVE  LiveInv'
    BY <1>1 DEF LiveInv
<1>2. ASSUME NEW i \in Issuers, NEW new \in Tokens, issue(i, new)
      PROVE  LiveInv'
    <2> SUFFICES ASSUME NEW t \in Tokens, NEW u \in Tokens, t # u,
                        token'[t].state = "live", token'[u].state = "live",
                        token'[t].purpose = token'[u].purpose,
                        token'[t].purpose \notin overlapped'
                 PROVE  FALSE
        BY DEF LiveInv
    <2>1. overlapped \subseteq overlapped' /\ issuer[i].pc = "invalidated"
        BY <1>2 DEF issue
    <2>2. token'[new].purpose = issuer[i].purpose
        BY <1>2, IssueRows
    <2>3. ASSUME NEW x \in Tokens \ {new}, token'[x].state = "live"
          PROVE  token'[x] = token[x] /\ holder[x] # i
        BY <1>2, <2>3, IssueRows
    <2>4. ASSUME NEW x \in Tokens \ {new}, token'[x].state = "live",
                 token'[x].purpose = issuer[i].purpose,
                 token'[x].purpose \notin overlapped'
          PROVE  FALSE
        BY <2>1, <2>3, <2>4 DEF SnapshotInv, Unconsumed
    <2>5. CASE t # new /\ u # new
        BY <2>1, <2>3, <2>5 DEF LiveInv
    <2> QED
        BY <2>2, <2>4, <2>5
<1>3. ASSUME NEW t \in Tokens, NEW p \in Purposes, Redeem(t, p)
      PROVE  LiveInv'
    BY <1>1, <1>3, StateRows DEF Redeem, consume
<1>4. ASSUME NEW t \in Tokens, Expire(t)
      PROVE  LiveInv'
    BY <1>1, <1>4, StateRows DEF Expire
<1> QED
    BY <1>1, <1>2, <1>3, <1>4
    DEF Next, vars, Request, request_password_reset, resend_verification, Begin,
        Outstanding, invalidate_outstanding, Rollback, reset_password,
        verify_email, update_password, mark_email_verified, BreakOff, Goes,
        SetStatus, Purposes

-----------------------------------------------------------------------------
(* The inductive invariant holds throughout every behaviour.               *)
LEMMA Invariance == Spec => []IInv
<1>1. Init => IInv
    <2> SUFFICES ASSUME Init PROVE IInv
        OBVIOUS
    <2>1. TypeOK
        BY DEF Init, TypeOK, TokenRow, Issuer, Idle, Purposes
    <2> QED
        BY <2>1
        DEF Init, IInv, UseInv, RequestInv, HeldInv, SupersededInv, SnapshotInv,
            LiveInv, Idle, Unconsumed
<1>2. IInv /\ [Next]_vars => IInv'
    BY TypeStep, UseStep, RequestStep, HeldStep, SupersededStep, SnapshotStep,
       LiveStep DEF IInv
<1> QED
    BY <1>1, <1>2, PTL DEF Spec

(* RedeemedOnce, for every instance: however a redemption races requests   *)
(* for another link and their roll-backs, a link is accepted once at most. *)
THEOREM LinksAreRedeemedOnce == Spec => []RedeemedOnce
<1>1. IInv => RedeemedOnce
    BY DEF IInv, UseInv, RedeemedOnce
<1> QED
    BY <1>1, Invariance, PTL

(* OneLiveLink, for every instance: only two interleaved requests can      *)
(* leave two links of a purpose live.                                      *)
THEOREM OneLinkIsLive == Spec => []OneLiveLink
<1>1. IInv => OneLiveLink
    <2> SUFFICES ASSUME IInv, NEW p \in Purposes \ overlapped
                 PROVE  Cardinality({t \in Tokens : token[t].state = "live"
                                        /\ token[t].purpose = p}) <= 1
        BY DEF OneLiveLink
    <2> DEFINE L == {t \in Tokens : token[t].state = "live"
                                        /\ token[t].purpose = p}
    <2>1. \A t, u \in L : t = u
        BY DEF IInv, LiveInv
    <2>2. L = {} => Cardinality(L) = 0
        BY FS_EmptySet
    <2>3. ASSUME NEW t \in L PROVE Cardinality(L) = 1
        <3>1. L = {t}
            BY <2>1, <2>3
        <3> HIDE DEF L
        <3>2. Cardinality({t}) = 1
            BY FS_Singleton, Zenon
        <3> QED
            BY <3>1, <3>2, Zenon
    <2>4. Cardinality(L) <= 1
        <3> HIDE DEF L
        <3> QED
            BY <2>2, <2>3
    <2> QED
        BY <2>4
<1> QED
    BY <1>1, Invariance, PTL

(* SupersededStaysDead, for every instance: however many requests for a    *)
(* link overlap, wait for each other's rows and are rolled back, a link    *)
(* that the committed one had seen is never accepted again.                *)
THEOREM SupersededLinksStayDead == Spec => []SupersededStaysDead
<1>1. IInv => SupersededStaysDead
    BY DEF IInv, TypeOK, RequestInv, SupersededInv, SupersededStaysDead
<1> QED
    BY <1>1, Invariance, PTL

(* DisabledStaysDisabled, for every instance: no link, whenever it was     *)
(* issued or used up, opens a disabled account.                            *)
THEOREM LinksNeverEnable == Spec => DisabledStaysDisabled
<1>1. ASSUME [Next]_vars, status = "disabled"
      PROVE  status' = "disabled" \/ SetStatus("active")
    BY <1>1, IssuerRows
    DEF Next, vars, accountVars, observers, Request, request_password_reset,
        resend_verification, Begin, Outstanding, invalidate_outstanding, issue,
        Rollback, reset_password, verify_email, Redeem, update_password,
        mark_email_verified, BreakOff, Goes, Expire, Activated, SetStatus
<1>2. [Next]_vars =>
        [status = "disabled" => status' = "disabled" \/ SetStatus("active")]_vars
    BY <1>1
<1> QED
    BY <1>2, PTL DEF Spec, DisabledStaysDisabled

-----------------------------------------------------------------------------
(* EmailQueue: counting                                                    *)

One(a, b) == IF a = b THEN 1 ELSE 0
Places(s, j) == {i \in DOMAIN s : s[i] = j}
Holders(h, W, j) == {w \in W : h[w] = j}

LEMMA PlacesFinite ==
    ASSUME NEW S, NEW s \in Seq(S), NEW j
    PROVE  IsFiniteSet(Places(s, j)) /\ Cardinality(Places(s, j)) \in Nat
<1>1. Len(s) \in Nat /\ DOMAIN s = 1..Len(s)
  OBVIOUS
<1>2. IsFiniteSet(1..Len(s))
  BY <1>1, FS_Interval
<1>3. Places(s, j) \in SUBSET (1..Len(s))
  BY <1>1 DEF Places
<1>4. IsFiniteSet(Places(s, j))
  BY <1>2, <1>3, FS_Subset
<1> QED BY <1>4, FS_CardinalityType

(* RPUSH adds one place.                                                   *)
LEMMA AppendCount ==
    ASSUME NEW S, NEW s \in Seq(S), NEW k \in S, NEW j
    PROVE  Cardinality(Places(Append(s, k), j)) = Cardinality(Places(s, j)) + One(k, j)
<1>1. Len(s) + 1 \notin Places(s, j)
  BY DEF Places
<1>2. CASE k = j
  <2>1. Places(Append(s, k), j) = Places(s, j) \cup {Len(s) + 1}
    BY <1>2 DEF Places
  <2>2. Cardinality(Places(s, j) \cup {Len(s) + 1}) = Cardinality(Places(s, j)) + 1
    BY <1>1, PlacesFinite, FS_AddElement, Zenon
  <2> QED BY <1>2, <2>1, <2>2 DEF One
<1>3. CASE k # j
  <2>1. Places(Append(s, k), j) = Places(s, j)
    BY <1>3 DEF Places
  <2> QED BY <1>3, <2>1, PlacesFinite DEF One
<1> QED BY <1>2, <1>3

(* LPOP takes the first place, and moves the others up by one.             *)
LEMMA TailCount ==
    ASSUME NEW S, NEW s \in Seq(S), s # <<>>, NEW j
    PROVE  Cardinality(Places(Tail(s), j)) + One(Head(s), j) = Cardinality(Places(s, j))
<1>0. Tail(s) \in Seq(S) /\ Len(s) \in Nat \ {0} /\ Len(Tail(s)) = Len(s) - 1
  OBVIOUS
<1> DEFINE A == Places(Tail(s), j)
           B == Places(s, j) \ {1}
           f == [i \in A |-> i + 1]
<1>1. f \in [A -> B]
  BY <1>0 DEF Places
<1>2. \A a, b \in A : f[a] = f[b] => a = b
  BY <1>0 DEF Places
<1>3. \A b \in B : \E a \in A : f[a] = b
  <2> SUFFICES ASSUME NEW b \in B PROVE b - 1 \in A /\ f[b - 1] = b
    OBVIOUS
  <2> QED BY <1>0 DEF Places
<1> HIDE DEF f
<1>4. f \in Bijection(A, B)
  BY <1>1, <1>2, <1>3 DEF Bijection, Injection, Surjection, IsInjective
<1>5. IsFiniteSet(A) /\ Cardinality(A) \in Nat
  BY <1>0, PlacesFinite
<1>6. Cardinality(B) = Cardinality(A)
  BY <1>4, <1>5, FS_Bijection DEF ExistsBijection
<1>7. IsFiniteSet(Places(s, j)) /\ Cardinality(Places(s, j)) \in Nat
  BY PlacesFinite
<1>8. 1 \in Places(s, j) <=> Head(s) = j
  BY <1>0 DEF Places
<1>9. Cardinality(B) = IF 1 \in Places(s, j) THEN Cardinality(Places(s, j)) - 1
                                             ELSE Cardinality(Places(s, j))
  BY <1>7, FS_RemoveElement
<1> QED BY <1>5, <1>6, <1>7, <1>8, <1>9 DEF One

LEMMA HoldersFinite ==
    ASSUME NEW h, NEW W \in SUBSET Workers, NEW j
    PROVE  IsFiniteSet(Holders(h, W, j)) /\ Cardinality(Holders(h, W, j)) \in Nat
<1>1. Holders(h, W, j) \in SUBSET Workers
  BY DEF Holders
<1>2. IsFiniteSet(Workers)
  BY EmailQueueAssumption
<1>3. IsFiniteSet(Holders(h, W, j))
  BY <1>1, <1>2, FS_Subset, Zenon
<1> QED BY <1>3, FS_CardinalityType

(* A worker with empty hands takes job k.                                  *)
LEMMA TakeCount ==
    ASSUME NEW h, NEW W \in SUBSET Workers, NEW w \in W, NEW k, NEW j \in Jobs,
           W \subseteq DOMAIN h, h[w] = NoJob
    PROVE  Cardinality(Holders([h EXCEPT ![w] = k], W, j)) =
             Cardinality(Holders(h, W, j)) + One(k, j)
<1>1. w \notin Holders(h, W, j)
  BY EmailQueueAssumption DEF Holders
<1>2. CASE k = j
  <2>1. Holders([h EXCEPT ![w] = k], W, j) = Holders(h, W, j) \cup {w}
    BY <1>2 DEF Holders
  <2>2. Cardinality(Holders(h, W, j) \cup {w}) = Cardinality(Holders(h, W, j)) + 1
    BY <1>1, HoldersFinite, FS_AddElement, Zenon
  <2> QED BY <1>2, <2>1, <2>2 DEF One
<1>3. CASE k # j
  <2>1. Holders([h EXCEPT ![w] = k], W, j) = Holders(h, W, j)
    BY <1>3, <1>1 DEF Holders
  <2> QED BY <1>3, <2>1, HoldersFinite DEF One
<1> QED BY <1>2, <1>3

(* A worker is no longer counted: its hands are empty or it has left W.    *)
LEMMA DropCount ==
    ASSUME NEW h, NEW g, NEW W \in SUBSET Workers, NEW V \in SUBSET Workers,
           NEW w \in Workers, NEW j \in Jobs,
           Holders(g, V, j) = Holders(h, W, j) \ {w}
    PROVE  Cardinality(Holders(g, V, j)) +
             (IF w \in W THEN One(h[w], j) ELSE 0) = Cardinality(Holders(h, W, j))
<1>1. IsFiniteSet(Holders(h, W, j)) /\ Cardinality(Holders(h, W, j)) \in Nat
  BY HoldersFinite
<1>2. Cardinality(Holders(h, W, j) \ {w}) =
        IF w \in Holders(h, W, j) THEN Cardinality(Holders(h, W, j)) - 1
        ELSE Cardinality(Holders(h, W, j))
  BY <1>1, FS_RemoveElement, Zenon
<1>3. w \in Holders(h, W, j) <=> w \in W /\ h[w] = j
  BY DEF Holders
<1> QED BY <1>1, <1>2, <1>3 DEF One

-----------------------------------------------------------------------------
(* EmailQueue: the inductive invariant                                     *)

(* Copies in hands that have not tried to send them.                       *)
Untried(j) == Cardinality(Holders(held, Workers \ failed, j))

(* The first copy, as long as enqueue_email has not ended without pushing. *)
Due(j) == IF attempt[j] < ATTEMPTS THEN 1 ELSE 0

(* A send fails for the job at hand, which is then still there.            *)
FailedInv == \A w \in failed : held[w] # NoJob

(* Every copy that may still be received stands for the first, or for a    *)
(* push that took effect and was reported as failed.                       *)
CopiesInv ==
    \A j \in Jobs :
        received[j] + Untried(j) + Waiting(j) + Due(j) <= 1 + unclear[j]

QueueIInv == QueueTypeOK /\ FailedInv /\ LossHasACause /\ CopiesInv

LEMMA Counts ==
    ASSUME QueueTypeOK, NEW j \in Jobs
    PROVE  /\ Waiting(j) = Cardinality(Places(jobs, j)) /\ Waiting(j) \in Nat
           /\ InHand(j) = Cardinality(Holders(held, Workers, j)) /\ InHand(j) \in Nat
           /\ Untried(j) \in Nat /\ Due(j) \in {0, 1}
           /\ pushed[j] \in Nat /\ sent[j] \in Nat /\ dead[j] \in Nat
           /\ received[j] \in Nat /\ unclear[j] \in Nat
           /\ faults \in Nat /\ attempt[j] \in 0..ATTEMPTS + 1
           /\ ATTEMPTS \in Nat \ {0} /\ MaxFaults \in Nat
<1>1. Waiting(j) = Cardinality(Places(jobs, j)) /\ Waiting(j) \in Nat
  <2>1. Waiting(j) = Cardinality(Places(jobs, j))
    BY DEF Waiting, Places
  <2> QED BY <2>1, PlacesFinite DEF QueueTypeOK
<1>2. InHand(j) = Cardinality(Holders(held, Workers, j)) /\ InHand(j) \in Nat
  <2>1. InHand(j) = Cardinality(Holders(held, Workers, j))
    BY DEF InHand, Holders
  <2> QED BY <2>1, HoldersFinite
<1>3. Untried(j) \in Nat
  BY HoldersFinite DEF Untried
<1>4. Due(j) \in {0, 1}
  BY DEF Due
<1> QED BY <1>1, <1>2, <1>3, <1>4, EmailQueueAssumption DEF QueueTypeOK

LEMMA QueueInitInv == QueueInit => QueueIInv
<1> SUFFICES ASSUME QueueInit PROVE QueueIInv
  OBVIOUS
<1>1. QueueTypeOK
  BY EmailQueueAssumption DEF QueueInit, QueueTypeOK
<1>2. FailedInv
  BY DEF QueueInit, FailedInv
<1>3. LossHasACause
  <2> SUFFICES ASSUME NEW j \in Jobs
               PROVE  pushed[j] <= Waiting(j) + InHand(j) + sent[j] + dead[j] + faults
    BY DEF LossHasACause
  <2>1. pushed[j] = 0 /\ sent[j] = 0 /\ dead[j] = 0 /\ faults = 0
    BY DEF QueueInit
  <2> QED BY <1>1, <2>1, Counts
<1>4. CopiesInv
  <2> SUFFICES ASSUME NEW j \in Jobs
               PROVE  received[j] + Untried(j) + Waiting(j) + Due(j) <= 1 + unclear[j]
    BY DEF CopiesInv
  <2>1. received[j] = 0 /\ unclear[j] = 0
    BY DEF QueueInit
  <2>2. Places(jobs, j) = {}
    BY DEF QueueInit, Places
  <2>3. Holders(held, Workers \ failed, j) = {}
    BY EmailQueueAssumption DEF QueueInit, Holders
  <2>4. Waiting(j) = 0 /\ Untried(j) = 0
    BY <1>1, <2>2, <2>3, Counts, FS_EmptySet DEF Untried
  <2> QED BY <1>1, <2>1, <2>4, Counts
<1> QED BY <1>1, <1>2, <1>3, <1>4 DEF QueueIInv

(* What enqueue, dequeue and LetGo do to the counts.                       *)
LEMMA Pushed ==
    ASSUME QueueTypeOK, NEW k \in Jobs, enqueue(k), NEW j \in Jobs
    PROVE  /\ jobs' \in Seq(Jobs) /\ pushed' \in [Jobs -> Nat]
           /\ pushed'[j] = pushed[j] + One(k, j)
           /\ Waiting(j)' = Waiting(j) + One(k, j)
<1>1. jobs \in Seq(Jobs) /\ jobs' = Append(jobs, k) /\ jobs' \in Seq(Jobs)
  BY DEF QueueTypeOK, enqueue
<1>2. pushed' \in [Jobs -> Nat] /\ pushed'[j] = pushed[j] + One(k, j)
  <2>1. pushed \in [Jobs -> Nat] /\ pushed' = [pushed EXCEPT ![k] = @ + 1]
    BY DEF QueueTypeOK, enqueue
  <2> QED BY <2>1 DEF One
<1>3. Waiting(j)' = Cardinality(Places(jobs', j))
  BY DEF Waiting, Places
<1> QED BY <1>1, <1>2, <1>3, AppendCount, Counts

LEMMA Popped ==
    ASSUME QueueTypeOK, jobs # <<>>, jobs' = Tail(jobs), NEW j \in Jobs
    PROVE  /\ jobs' \in Seq(Jobs) /\ Head(jobs) \in Jobs
           /\ Waiting(j)' + One(Head(jobs), j) = Waiting(j)
           /\ Waiting(j)' \in Nat
<1>1. jobs \in Seq(Jobs) /\ jobs' \in Seq(Jobs) /\ Head(jobs) \in Jobs
  BY DEF QueueTypeOK
<1>2. Waiting(j)' = Cardinality(Places(jobs', j))
  BY DEF Waiting, Places
<1>3. Waiting(j)' \in Nat
  BY <1>1, <1>2, PlacesFinite
<1> QED BY <1>1, <1>2, <1>3, TailCount, Counts

LEMMA HandsEmptied ==
    ASSUME QueueTypeOK, NEW w \in Workers, LetGo(w), NEW j \in Jobs
    PROVE  /\ held' \in [Workers -> Jobs \cup {NoJob}] /\ failed' \in SUBSET Workers
           /\ InHand(j)' + One(held[w], j) = InHand(j)
           /\ Untried(j)' + (IF w \in failed THEN 0 ELSE One(held[w], j)) = Untried(j)
           /\ InHand(j)' \in Nat /\ Untried(j)' \in Nat
<1>1. /\ held' \in [Workers -> Jobs \cup {NoJob}] /\ failed' \in SUBSET Workers
      /\ held'[w] = NoJob /\ failed' = failed \ {w} /\ NoJob # j
      /\ \A v \in Workers \ {w} : held'[v] = held[v]
  BY EmailQueueAssumption DEF QueueTypeOK, LetGo
<1>2. Holders(held', Workers, j) = Holders(held, Workers, j) \ {w}
  BY <1>1 DEF Holders
<1>3. Holders(held', Workers \ failed', j) = Holders(held, Workers \ failed, j) \ {w}
  BY <1>1 DEF Holders
<1>4. /\ InHand(j)' = Cardinality(Holders(held', Workers, j))
      /\ Untried(j)' = Cardinality(Holders(held', Workers \ failed', j))
  BY DEF InHand, Untried, Holders
<1>5. InHand(j)' \in Nat /\ Untried(j)' \in Nat
  BY <1>4, HoldersFinite
<1>6. InHand(j)' + One(held[w], j) = InHand(j)
  <2> DEFINE h == held  g == held'  W == Workers
  <2>1. Holders(g, W, j) = Holders(h, W, j) \ {w} /\ W \in SUBSET Workers
    BY <1>2
  <2> HIDE DEF h, g, W
  <2>2. Cardinality(Holders(g, W, j)) + (IF w \in W THEN One(h[w], j) ELSE 0)
          = Cardinality(Holders(h, W, j))
    BY <2>1, DropCount
  <2> QED BY <2>2, <1>4, Counts DEF h, g, W
<1>7. Untried(j)' + (IF w \in Workers \ failed THEN One(held[w], j) ELSE 0) = Untried(j)
  <2> DEFINE h == held  g == held'  W == Workers \ failed  V == Workers \ failed'
  <2>1. /\ Holders(g, V, j) = Holders(h, W, j) \ {w}
        /\ W \in SUBSET Workers /\ V \in SUBSET Workers
    BY <1>3
  <2> HIDE DEF h, g, W, V
  <2>2. Cardinality(Holders(g, V, j)) + (IF w \in W THEN One(h[w], j) ELSE 0)
          = Cardinality(Holders(h, W, j))
    BY <2>1, DropCount
  <2> QED BY <2>2, <1>4 DEF h, g, W, V, Untried
<1> QED BY <1>1, <1>5, <1>6, <1>7

(* A step that leaves the hands, or the list, alone.                       *)
LEMMA SameHands ==
    ASSUME UNCHANGED <<held, failed>>, NEW j
    PROVE  InHand(j)' = InHand(j) /\ Untried(j)' = Untried(j)
BY DEF InHand, Untried, Holders

LEMMA SameList ==
    ASSUME UNCHANGED jobs, NEW j
    PROVE  Waiting(j)' = Waiting(j)
BY DEF Waiting

-----------------------------------------------------------------------------
(* EmailQueue: one lemma per action                                        *)

(* The two inequalities, for one message.                                  *)
Accounted(j) == pushed[j] <= Waiting(j) + InHand(j) + sent[j] + dead[j] + faults
Covered(j) == received[j] + Untried(j) + Waiting(j) + Due(j) <= 1 + unclear[j]

LEMMA BothPerMessage ==
    ASSUME QueueIInv
    PROVE  QueueTypeOK /\ FailedInv /\ \A j \in Jobs : Accounted(j) /\ Covered(j)
BY DEF QueueIInv, LossHasACause, CopiesInv, Accounted, Covered

LEMMA PerMessage ==
    ASSUME QueueTypeOK', FailedInv', \A j \in Jobs : Accounted(j)' /\ Covered(j)'
    PROVE  QueueIInv'
BY DEF QueueIInv, LossHasACause, CopiesInv, Accounted, Covered

(* The counters of a message.                                              *)
LEMMA Bump ==
    ASSUME NEW f \in [Jobs -> Nat], NEW k \in Jobs
    PROVE  /\ [f EXCEPT ![k] = @ + 1] \in [Jobs -> Nat]
           /\ \A j \in Jobs : [f EXCEPT ![k] = @ + 1][j] = f[j] + One(k, j)
BY DEF One

LEMMA CountersType ==
    ASSUME QueueTypeOK
    PROVE  /\ pushed \in [Jobs -> Nat] /\ sent \in [Jobs -> Nat]
           /\ dead \in [Jobs -> Nat] /\ received \in [Jobs -> Nat]
           /\ unclear \in [Jobs -> Nat] /\ attempt \in [Jobs -> 0..ATTEMPTS + 1]
           /\ held \in [Workers -> Jobs \cup {NoJob}] /\ failed \in SUBSET Workers
           /\ faults \in Nat /\ faults <= MaxFaults /\ MaxFaults \in Nat
           /\ ATTEMPTS \in Nat \ {0}
BY EmailQueueAssumption DEF QueueTypeOK

(* enqueue_email: the push that ends it, and one that fails.               *)
LEMMA EnqueueStep ==
    ASSUME QueueIInv, NEW k \in Jobs, Enqueue(k) \/ EnqueueFails(k)
    PROVE  QueueIInv'
<1>0. QueueTypeOK /\ FailedInv /\ \A j \in Jobs : Accounted(j) /\ Covered(j)
  BY BothPerMessage
<1>1. UNCHANGED <<dead, held, failed, sent, received, faults>>
  BY DEF Enqueue, EnqueueFails
<1>2. attempt[k] < ATTEMPTS /\ attempt' \in [Jobs -> 0..ATTEMPTS + 1]
      /\ \A j \in Jobs \ {k} : attempt'[j] = attempt[j]
  <2>1. /\ attempt[k] < ATTEMPTS
        /\ \/ attempt' = [attempt EXCEPT ![k] = Ended]
           \/ attempt' = [attempt EXCEPT ![k] =
                            IF @ + 1 = ATTEMPTS THEN Ended ELSE @ + 1]
    BY DEF Enqueue, EnqueueFails
  <2>2. Ended \in 0..ATTEMPTS + 1 /\ attempt[k] + 1 \in 0..ATTEMPTS + 1
    BY <1>0, <2>1, CountersType DEF Ended
  <2> QED BY <1>0, <2>1, <2>2, CountersType
<1>3. FailedInv'
  BY <1>0, <1>1 DEF FailedInv
<1>4. CASE UNCHANGED <<jobs, pushed, unclear>>
  <2>1. QueueTypeOK'
    BY <1>0, <1>1, <1>2, <1>4 DEF QueueTypeOK
  <2>2. ASSUME NEW j \in Jobs PROVE Accounted(j)' /\ Covered(j)'
    <3>1. Waiting(j)' = Waiting(j) /\ InHand(j)' = InHand(j) /\ Untried(j)' = Untried(j)
      BY <1>1, <1>4, SameHands, SameList
    <3>2. Due(j)' \in {0, 1} /\ Due(j)' <= Due(j)
      BY <1>0, <1>2, Counts DEF Due
    <3>3. Accounted(j) /\ Covered(j)
      BY <1>0
    <3> QED BY <1>0, <1>1, <1>4, <3>1, <3>2, <3>3, Counts DEF Accounted, Covered
  <2> QED BY <1>3, <2>1, <2>2, PerMessage
<1>5. CASE /\ enqueue(k)
           /\ \/ attempt'[k] = Ended /\ unclear' = unclear
              \/ unclear' = [unclear EXCEPT ![k] = @ + 1]
  <2>1. QueueTypeOK'
    <3>1. jobs' \in Seq(Jobs) /\ pushed' \in [Jobs -> Nat]
      BY <1>0, <1>5, Pushed
    <3>2. unclear' \in [Jobs -> Nat]
      BY <1>0, <1>5, CountersType, Bump
    <3> QED BY <1>0, <1>1, <1>2, <3>1, <3>2 DEF QueueTypeOK
  <2>2. ASSUME NEW j \in Jobs PROVE Accounted(j)' /\ Covered(j)'
    <3>1. InHand(j)' = InHand(j) /\ Untried(j)' = Untried(j)
      BY <1>1, SameHands
    <3>2. /\ pushed'[j] = pushed[j] + One(k, j)
          /\ Waiting(j)' = Waiting(j) + One(k, j)
      BY <1>0, <1>5, Pushed
    <3>3. One(k, j) \in {0, 1}
      BY DEF One
    <3>4. Due(j)' \in {0, 1} /\ unclear'[j] \in Nat
          /\ Due(j)' - unclear'[j] + One(k, j) <= Due(j) - unclear[j]
      <4>1. CASE j = k
        <5>1. Due(k) = 1 /\ Due(k)' \in {0, 1} /\ One(k, j) = 1
          BY <1>2, <4>1 DEF Due, One
        <5>2. attempt'[k] = Ended => Due(k)' = 0
          BY <1>0, Counts DEF Due, Ended
        <5>3. \/ Due(k)' = 0 /\ unclear'[k] = unclear[k]
              \/ unclear'[k] = unclear[k] + 1
          BY <1>0, <1>5, <5>2 DEF QueueTypeOK
        <5> QED BY <1>0, <4>1, <5>1, <5>3, Counts
      <4>2. CASE j # k
        <5>1. Due(j)' = Due(j) /\ One(k, j) = 0
          BY <1>2, <4>2 DEF Due, One
        <5>2. unclear'[j] = unclear[j]
          BY <1>0, <1>5, <4>2 DEF QueueTypeOK
        <5> QED BY <1>0, <5>1, <5>2, Counts
      <4> QED BY <4>1, <4>2
    <3>5. Accounted(j) /\ Covered(j)
      BY <1>0
    <3>6. sent'[j] = sent[j] /\ dead'[j] = dead[j] /\ faults' = faults
          /\ received'[j] = received[j]
      BY <1>1
    <3>7. Accounted(j)'
      BY <1>0, <3>1, <3>2, <3>3, <3>5, <3>6, Counts DEF Accounted
    <3>8. Covered(j)'
      BY <1>0, <3>1, <3>2, <3>3, <3>4, <3>5, <3>6, Counts DEF Covered
    <3> QED BY <3>7, <3>8
  <2> QED BY <1>3, <2>1, <2>2, PerMessage
<1>6. Enqueue(k) => attempt'[k] = Ended
  BY <1>0 DEF Enqueue, QueueTypeOK
<1> QED BY <1>4, <1>5, <1>6 DEF Enqueue, EnqueueFails

(* LPOP: the copy at the head is in a worker's hands, or lost.             *)
LEMMA DequeueStep ==
    ASSUME QueueIInv, NEW w \in Workers, dequeue(w) \/ DequeueFails(w)
    PROVE  QueueIInv'
<1>0. QueueTypeOK /\ FailedInv /\ \A j \in Jobs : Accounted(j) /\ Covered(j)
  BY BothPerMessage
<1>1. /\ UNCHANGED <<dead, attempt, failed, pushed, sent, received, unclear>>
      /\ held[w] = NoJob /\ jobs # <<>> /\ jobs' = Tail(jobs)
  BY DEF dequeue, DequeueFails
<1>2. jobs' \in Seq(Jobs) /\ Head(jobs) \in Jobs
  BY <1>0, <1>1 DEF QueueTypeOK
<1>3. w \notin failed
  BY <1>0, <1>1 DEF FailedInv
<1> DEFINE k == Head(jobs)
<1>4. ASSUME NEW j \in Jobs
      PROVE  /\ Waiting(j)' \in Nat /\ Waiting(j)' + One(k, j) = Waiting(j)
             /\ Due(j)' = Due(j) /\ One(k, j) \in {0, 1}
             /\ dead'[j] = dead[j] /\ pushed'[j] = pushed[j] /\ sent'[j] = sent[j]
             /\ received'[j] = received[j] /\ unclear'[j] = unclear[j]
  BY <1>0, <1>1, Popped DEF Due, One
<1> HIDE DEF k
<1>5. CASE dequeue(w)
  <2>1. held' = [held EXCEPT ![w] = k] /\ faults' = faults
    BY <1>5 DEF dequeue, k
  <2>2. QueueTypeOK' /\ FailedInv'
    BY <1>0, <1>1, <1>2, <1>3, <2>1 DEF QueueTypeOK, FailedInv, k
  <2>3. ASSUME NEW j \in Jobs
        PROVE  InHand(j)' = InHand(j) + One(k, j) /\ Untried(j)' = Untried(j) + One(k, j)
    <3> DEFINE h == held  W == Workers \ failed
    <3>1. /\ W \in SUBSET Workers /\ w \in W /\ h[w] = NoJob
          /\ W \subseteq DOMAIN h /\ Workers \subseteq DOMAIN h
      BY <1>0, <1>1, <1>3 DEF QueueTypeOK
    <3>2. /\ InHand(j)' = Cardinality(Holders([h EXCEPT ![w] = k], Workers, j))
          /\ Untried(j)' = Cardinality(Holders([h EXCEPT ![w] = k], W, j))
          /\ Untried(j) = Cardinality(Holders(h, W, j))
      BY <1>1, <2>1 DEF InHand, Untried, Holders
    <3>3. InHand(j) = Cardinality(Holders(h, Workers, j))
      BY DEF InHand, Holders
    <3> HIDE DEF h, W
    <3>4. Cardinality(Holders([h EXCEPT ![w] = k], Workers, j))
            = Cardinality(Holders(h, Workers, j)) + One(k, j)
      BY <3>1, TakeCount
    <3>5. Cardinality(Holders([h EXCEPT ![w] = k], W, j))
            = Cardinality(Holders(h, W, j)) + One(k, j)
      BY <3>1, TakeCount
    <3> QED BY <3>2, <3>3, <3>4, <3>5
  <2>4. ASSUME NEW j \in Jobs PROVE Accounted(j)' /\ Covered(j)'
    <3>1. Accounted(j) /\ Covered(j)
      BY <1>0
    <3> QED BY <1>0, <1>4, <2>1, <2>3, <3>1, Counts DEF Accounted, Covered
  <2> QED BY <2>2, <2>4, PerMessage
<1>6. CASE DequeueFails(w)
  <2>1. held' = held /\ faults' = faults + 1 /\ faults < MaxFaults
    BY <1>6 DEF DequeueFails, Fault
  <2>2. QueueTypeOK' /\ FailedInv'
    <3>1. faults' \in 0..MaxFaults
      BY <1>0, <2>1, CountersType
    <3> QED BY <1>0, <1>1, <1>2, <2>1, <3>1 DEF QueueTypeOK, FailedInv
  <2>3. ASSUME NEW j \in Jobs PROVE Accounted(j)' /\ Covered(j)'
    <3>1. Accounted(j) /\ Covered(j)
      BY <1>0
    <3>2. InHand(j)' = InHand(j) /\ Untried(j)' = Untried(j)
      BY <1>1, <2>1, SameHands
    <3> QED BY <1>0, <1>4, <2>1, <3>1, <3>2, Counts DEF Accounted, Covered
  <2> QED BY <2>2, <2>3, PerMessage
<1> QED BY <1>5, <1>6

(* The relay takes the mail, or it fails, perhaps after it took it.        *)
LEMMA SendFailsStep ==
    ASSUME QueueIInv, NEW w \in Workers, SendFails(w)
    PROVE  QueueIInv'
<1>0. QueueTypeOK /\ FailedInv /\ \A j \in Jobs : Accounted(j) /\ Covered(j)
  BY BothPerMessage
<1>1. /\ UNCHANGED <<jobs, dead, attempt, held, pushed, sent, unclear, faults>>
      /\ held[w] # NoJob /\ w \notin failed /\ failed' = failed \cup {w}
  BY DEF SendFails
<1>2. PICK k \in Jobs : k = held[w]
  BY <1>0, <1>1 DEF QueueTypeOK
<1>3. received' = [received EXCEPT ![k] = @ + 1] \/ received' = received
  BY <1>2 DEF SendFails
<1>4. QueueTypeOK' /\ FailedInv'
  <2>1. received' \in [Jobs -> Nat]
    BY <1>0, <1>3, CountersType, Bump
  <2> QED BY <1>0, <1>1, <2>1 DEF QueueTypeOK, FailedInv
<1>5. ASSUME NEW j \in Jobs PROVE Accounted(j)' /\ Covered(j)'
  <2>1. /\ InHand(j)' = InHand(j) /\ Waiting(j)' = Waiting(j) /\ Due(j)' = Due(j)
        /\ One(k, j) \in {0, 1}
    BY <1>1 DEF InHand, Waiting, Due, One
  <2>2. received'[j] \in Nat /\ received'[j] <= received[j] + One(k, j)
    <3>1. received'[j] = received[j] + One(k, j) \/ received'[j] = received[j]
      BY <1>0, <1>3, CountersType, Bump
    <3> QED BY <1>0, <2>1, <3>1, Counts
  <2>3. Untried(j)' \in Nat /\ Untried(j)' + One(k, j) = Untried(j)
    <3> DEFINE h == held  W == Workers \ failed  V == Workers \ failed'
    <3>1. /\ Holders(h, V, j) = Holders(h, W, j) \ {w}
          /\ W \in SUBSET Workers /\ V \in SUBSET Workers /\ w \in W /\ k = h[w]
      BY <1>1, <1>2 DEF Holders
    <3>2. Untried(j)' = Cardinality(Holders(h, V, j))
          /\ Untried(j) = Cardinality(Holders(h, W, j))
      BY <1>1 DEF Untried, Holders
    <3> HIDE DEF h, W, V
    <3>3. Cardinality(Holders(h, V, j)) + (IF w \in W THEN One(h[w], j) ELSE 0)
            = Cardinality(Holders(h, W, j))
      BY <3>1, DropCount
    <3>4. Cardinality(Holders(h, V, j)) \in Nat
      BY <3>1, HoldersFinite
    <3> QED BY <3>1, <3>2, <3>3, <3>4
  <2>4. Accounted(j) /\ Covered(j)
    BY <1>0
  <2> QED BY <1>0, <1>1, <2>1, <2>2, <2>3, <2>4, Counts DEF Accounted, Covered
<1> QED BY <1>4, <1>5, PerMessage

(* The hands are emptied: the copy was sent, dead-lettered or lost.        *)
LEMMA LetGoStep ==
    ASSUME QueueIInv, NEW w \in Workers,
           send(w) \/ dead_letter(w) \/ DeadLetterFails(w) \/ Crash(w)
    PROVE  QueueIInv'
<1>0. QueueTypeOK /\ FailedInv /\ \A j \in Jobs : Accounted(j) /\ Covered(j)
  BY BothPerMessage
<1>1. /\ UNCHANGED <<jobs, attempt, pushed, unclear>>
      /\ LetGo(w) /\ held[w] # NoJob
  BY <1>0 DEF send, dead_letter, DeadLetterFails, Crash, FailedInv
<1>2. PICK k \in Jobs : k = held[w]
  BY <1>0, <1>1 DEF QueueTypeOK
<1>3. \/ /\ sent' = [sent EXCEPT ![k] = @ + 1] /\ w \notin failed
         /\ received' = [received EXCEPT ![k] = @ + 1]
         /\ UNCHANGED <<dead, faults>>
      \/ /\ dead' = [dead EXCEPT ![k] = @ + 1]
         /\ UNCHANGED <<sent, received, faults>>
      \/ /\ faults < MaxFaults /\ faults' = faults + 1
         /\ UNCHANGED <<sent, received, dead>>
  BY <1>2 DEF send, dead_letter, DeadLetterFails, Crash, Fault
<1>4. QueueTypeOK'
  <2>1. held' \in [Workers -> Jobs \cup {NoJob}] /\ failed' \in SUBSET Workers
    BY <1>0, <1>1, <1>2, HandsEmptied
  <2>2. /\ sent' \in [Jobs -> Nat] /\ dead' \in [Jobs -> Nat]
        /\ received' \in [Jobs -> Nat] /\ faults' \in 0..MaxFaults
    BY <1>0, <1>3, CountersType, Bump
  <2> QED BY <1>0, <1>1, <2>1, <2>2 DEF QueueTypeOK
<1>5. FailedInv'
  BY <1>0, <1>1 DEF FailedInv, LetGo, QueueTypeOK
<1>6. ASSUME NEW j \in Jobs PROVE Accounted(j)' /\ Covered(j)'
  <2>1. /\ Waiting(j)' = Waiting(j) /\ Due(j)' = Due(j) /\ One(k, j) \in {0, 1}
        /\ pushed'[j] = pushed[j] /\ unclear'[j] = unclear[j]
    BY <1>1 DEF Waiting, Due, One
  <2>2. /\ InHand(j)' \in Nat /\ InHand(j)' + One(k, j) = InHand(j)
        /\ Untried(j)' \in Nat
        /\ Untried(j)' + (IF w \in failed THEN 0 ELSE One(k, j)) = Untried(j)
    BY <1>0, <1>1, <1>2, HandsEmptied
  <2>3. /\ sent'[j] \in Nat /\ dead'[j] \in Nat /\ faults' \in Nat
        /\ sent'[j] + dead'[j] + faults' >= sent[j] + dead[j] + faults + One(k, j)
    <3>1. \/ /\ sent'[j] = sent[j] + One(k, j)
             /\ dead'[j] = dead[j] /\ faults' = faults
          \/ /\ dead'[j] = dead[j] + One(k, j)
             /\ sent'[j] = sent[j] /\ faults' = faults
          \/ /\ faults' = faults + 1 /\ sent'[j] = sent[j] /\ dead'[j] = dead[j]
      BY <1>0, <1>3, CountersType, Bump
    <3> QED BY <1>0, <2>1, <3>1, Counts
  <2>4. received'[j] \in Nat
        /\ \/ w \notin failed /\ received'[j] = received[j] + One(k, j)
           \/ received'[j] = received[j]
    <3>1. \/ w \notin failed /\ received'[j] = received[j] + One(k, j)
          \/ received'[j] = received[j]
      BY <1>0, <1>3, CountersType, Bump
    <3> QED BY <1>0, <2>1, <3>1, Counts
  <2>5. Accounted(j) /\ Covered(j)
    BY <1>0
  <2>6. Accounted(j)'
    BY <1>0, <2>1, <2>2, <2>3, <2>5, Counts DEF Accounted
  <2>7. Covered(j)'
    BY <1>0, <2>1, <2>2, <2>4, <2>5, Counts DEF Covered
  <2> QED BY <2>6, <2>7
<1> QED BY <1>4, <1>5, <1>6, PerMessage

LEMMA QueueInductiveStep == QueueIInv /\ [QueueNext]_queueVars => QueueIInv'
<1> SUFFICES ASSUME QueueIInv, [QueueNext]_queueVars PROVE QueueIInv'
  OBVIOUS
<1>1. CASE \E k \in Jobs : Enqueue(k) \/ EnqueueFails(k)
  BY <1>1, EnqueueStep
<1>2. CASE \E w \in Workers : Work(w)
  BY <1>2, DequeueStep, SendFailsStep, LetGoStep DEF Work
<1>3. CASE UNCHANGED queueVars
  BY <1>3 DEF queueVars, QueueIInv, QueueTypeOK, FailedInv, LossHasACause,
              CopiesInv, Waiting, InHand, Untried, Due, Holders
<1> QED BY <1>1, <1>2, <1>3 DEF QueueNext

LEMMA QueueInvariance == QueueSpec => []QueueIInv
BY QueueInitInv, QueueInductiveStep, PTL DEF QueueSpec

(* The loop takes a job off the list before it sends it, and still loses   *)
(* none by working: for any number of messages, loops and attempts, each   *)
(* copy that is neither queued, held, sent nor dead-lettered is one fault. *)
THEOREM MailIsLostForACause == QueueSpec => []LossHasACause
<1>1. QueueIInv => LossHasACause
  BY DEF QueueIInv
<1> QED BY <1>1, QueueInvariance, PTL

(* Neither a failed send, which is never retried, nor a crash doubles a    *)
(* message: what a relay gets beyond the first copy was pushed by a        *)
(* command whose success enqueue_email was not told.                       *)
THEOREM MailIsDoubledForACause == QueueSpec => []DuplicatesHaveACause
<1>1. QueueIInv => DuplicatesHaveACause
  <2> SUFFICES ASSUME QueueIInv, NEW j \in Jobs PROVE received[j] <= 1 + unclear[j]
    BY DEF DuplicatesHaveACause
  <2>1. QueueTypeOK /\ received[j] + Untried(j) + Waiting(j) + Due(j) <= 1 + unclear[j]
    BY DEF QueueIInv, CopiesInv
  <2> QED BY <2>1, Counts
<1> QED BY <1>1, QueueInvariance, PTL
=============================================================================
