------------------------------ MODULE Sessions ------------------------------
(***************************************************************************)
(* Accounts, their refresh tokens, and the calls that exchange them.  An   *)
(* access token is checked against the account on each request, so only    *)
(* refresh tokens carry state.  A call reads first and writes later.       *)
(***************************************************************************)
EXTENDS Integers, FiniteSets

CONSTANTS
    Phones,      \* accounts, by phone
    Tokens,      \* refresh tokens there may be
    Clients,     \* calls under way
    NoToken

ASSUME SessionAssumption == NoToken \notin Tokens

VARIABLES
    account,     \* isActive of the User of each phone, if there is one
    hasPassword, \* accounts with a password
    token,       \* the RefreshToken rows
    login,       \* the token its session began with
    call,        \* what each call is at
    doubled,     \* sessions in which two exchanges of one token ran at once
    closed       \* sessions whose last token was revoked by a logout, with no
                 \* exchange of that session under way

sessionVars == <<account, hasPassword, token, login, call, doubled, closed>>

NoRow == [phone |-> "none", live |-> FALSE]
Rows == [phone : Phones, live : BOOLEAN] \cup {NoRow}
NoCall == [op |-> "none"]
SessionCalls ==
    [op : {"issue", "purge"}, phone : Phones, from : Tokens \cup {NoToken}]
    \cup [op : {"rotate"}, phone : Phones, from : Tokens]
    \cup [op : {"set"}, phone : Phones]

SessionTypeOK ==
    /\ account \in [Phones -> {"none", "active", "disabled"}]
    /\ hasPassword \subseteq Phones
    /\ token \in [Tokens -> Rows]
    /\ login \in [Tokens -> Tokens \cup {NoToken}]
    /\ call \in [Clients -> SessionCalls \cup {NoCall}]
    /\ doubled \subseteq Tokens /\ closed \subseteq Tokens

SessionInit ==
    /\ account = [u \in Phones |-> "none"]
    /\ hasPassword = {}
    /\ token = [t \in Tokens |-> NoRow]
    /\ login = [t \in Tokens |-> NoToken]
    /\ call = [c \in Clients |-> NoCall]
    /\ doubled = {} /\ closed = {}

Live(t) == token[t].live
Of(session) == {t \in Tokens : login[t] = session}
Exchanging(session) == {c \in Clients : call[c].op \in {"rotate", "issue"} /\ call[c].from \in Of(session)}
Free(c) == call[c] = NoCall
Done(c) == call' = [call EXCEPT ![c] = NoCall]
Issue(c, u, from) == call' = [call EXCEPT ![c] = [op |-> "issue", phone |-> u, from |-> from]]

-----------------------------------------------------------------------------
(* Logging in *)

\* the gateway owns the codes; a new account is made on the first one
VerifyOtp(c, u) ==
    /\ Free(c)
    /\ account' = [account EXCEPT ![u] = IF @ = "none" THEN "active" ELSE @]
    /\ Issue(c, u, NoToken)
    /\ UNCHANGED <<hasPassword, token, login, doubled, closed>>

\* a disabled account logs in too; it is stopped at its first request
LoginWithPassword(c, u) ==
    /\ Free(c) /\ account[u] # "none" /\ u \in hasPassword
    /\ Issue(c, u, NoToken)
    /\ UNCHANGED <<account, hasPassword, token, login, doubled, closed>>

ImpersonateUser(c, u) ==
    /\ Free(c) /\ account[u] # "none"
    /\ Issue(c, u, NoToken)
    /\ UNCHANGED <<account, hasPassword, token, login, doubled, closed>>

IssueTokens(c) ==
    /\ call[c].op = "issue"
    /\ \E t \in Tokens :
          /\ login[t] = NoToken
          /\ token' = [token EXCEPT ![t] = [phone |-> call[c].phone, live |-> TRUE]]
          /\ login' = [login EXCEPT ![t] = IF call[c].from = NoToken THEN t ELSE login[call[c].from]]
    /\ Done(c)
    /\ UNCHANGED <<account, hasPassword, doubled, closed>>

-----------------------------------------------------------------------------
(* A session goes on, and ends *)

Refresh(c, t) ==
    /\ Free(c) /\ Live(t)
    /\ account[token[t].phone] # "none"
    /\ call' = [call EXCEPT ![c] = [op |-> "rotate", phone |-> token[t].phone, from |-> t]]
    /\ doubled' = IF \E d \in Clients : call[d].op = "rotate" /\ call[d].from = t
                  THEN doubled \cup {login[t]} ELSE doubled
    /\ UNCHANGED <<account, hasPassword, token, login, closed>>

\* a rotation that issues the new pair and leaves the old row as it is
RotateKeepingOld(c) ==
    /\ call[c].op = "rotate"
    /\ Issue(c, call[c].phone, call[c].from)
    /\ UNCHANGED <<account, hasPassword, token, login, doubled, closed>>

\* the save fails on a row that was deleted
RevokeRotated(c) ==
    LET t == call[c].from IN
    /\ call[c].op = "rotate"
    /\ IF token[t] # NoRow
       THEN token' = [token EXCEPT ![t].live = FALSE] /\ Issue(c, call[c].phone, t)
       ELSE UNCHANGED token /\ Done(c)
    /\ UNCHANGED <<account, hasPassword, login, doubled, closed>>

Logout(t) ==
    /\ login[t] # NoToken
    /\ token' = [token EXCEPT ![t].live = FALSE]
    /\ closed' = IF Live(t) /\ Exchanging(login[t]) = {} THEN closed \cup {login[t]} ELSE closed
    /\ UNCHANGED <<account, hasPassword, login, call, doubled>>

\* the TTL index removes the row, and the signature is refused by then
ExpireToken(t) ==
    /\ token[t] # NoRow
    /\ token' = [token EXCEPT ![t] = NoRow]
    /\ UNCHANGED <<account, hasPassword, login, call, doubled, closed>>

-----------------------------------------------------------------------------
(* Passwords, and what an admin does *)

SetPassword(c, u) ==
    /\ Free(c) /\ account[u] = "active" /\ u \notin hasPassword
    /\ call' = [call EXCEPT ![c] = [op |-> "set", phone |-> u]]
    /\ UNCHANGED <<account, hasPassword, token, login, doubled, closed>>

\* after a code; sessions go on
ResetPassword(c, u) ==
    /\ Free(c) /\ account[u] # "none"
    /\ call' = [call EXCEPT ![c] = [op |-> "set", phone |-> u]]
    /\ UNCHANGED <<account, hasPassword, token, login, doubled, closed>>

SavePassword(c) ==
    LET u == call[c].phone IN
    /\ call[c].op = "set"
    /\ hasPassword' = IF account[u] # "none" THEN hasPassword \cup {u} ELSE hasPassword
    /\ Done(c)
    /\ UNCHANGED <<account, token, login, doubled, closed>>

SetUserStatus(u, status) ==
    /\ account[u] # "none"
    /\ account' = [account EXCEPT ![u] = status]
    /\ UNCHANGED <<hasPassword, token, login, call, doubled, closed>>

\* what belongs to the account goes, and then the account
DeleteUser(c, u) ==
    /\ Free(c) /\ account[u] # "none"
    /\ token' = [t \in Tokens |-> IF token[t].phone = u THEN NoRow ELSE token[t]]
    /\ call' = [call EXCEPT ![c] = [op |-> "purge", phone |-> u, from |-> NoToken]]
    /\ UNCHANGED <<account, hasPassword, login, doubled, closed>>

DeleteAccount(c) ==
    LET u == call[c].phone IN
    /\ call[c].op = "purge"
    /\ account' = [account EXCEPT ![u] = "none"]
    /\ hasPassword' = hasPassword \ {u}
    /\ Done(c)
    /\ UNCHANGED <<token, login, doubled, closed>>

CrashCall(c) ==
    /\ ~Free(c)
    /\ Done(c)
    /\ UNCHANGED <<account, hasPassword, token, login, doubled, closed>>

SessionNext ==
    \/ \E t \in Tokens : Logout(t) \/ ExpireToken(t)
    \/ \E u \in Phones, status \in {"active", "disabled"} : SetUserStatus(u, status)
    \/ \E c \in Clients :
          \/ \E u \in Phones :
                \/ VerifyOtp(c, u) \/ LoginWithPassword(c, u) \/ ImpersonateUser(c, u)
                \/ SetPassword(c, u) \/ ResetPassword(c, u) \/ DeleteUser(c, u)
          \/ \E t \in Tokens : Refresh(c, t)
          \/ IssueTokens(c) \/ RevokeRotated(c) \/ SavePassword(c) \/ DeleteAccount(c) \/ CrashCall(c)

SessionSpec == SessionInit /\ [][SessionNext]_sessionVars

-----------------------------------------------------------------------------
(* Properties *)

(* "Rotating the refresh token for safety": a session has one token that can *)
(* be used, or is about to get it, and none any more once its client logged   *)
(* out with no exchange under way.  Two exchanges of one token at the same    *)
(* time both find it unrevoked, and their session is left out.                *)
OneTokenPerSession ==
    \A s \in Tokens \ doubled : login[s] = s =>
        /\ Cardinality({t \in Of(s) : Live(t)}
                       \cup {call[c].from : c \in {d \in Clients : call[d].op = "issue" /\ call[d].from \in Of(s)}}) <= 1
        /\ s \in closed => \A t \in Of(s) : ~Live(t)
=============================================================================
