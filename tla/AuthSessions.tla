----------------------------- MODULE AuthSessions -----------------------------
(***************************************************************************)
(* How one person logs in and stays logged in: codes sent by mail, their   *)
(* verification, and the pairs of an access and a refresh token, with the  *)
(* blacklist in Redis.  A handler is interrupted at every call of the      *)
(* database or of Redis.                                                   *)
(*                                                                         *)
(* Time is counted in ticks, the lifetimes of tokens and of keys in Redis  *)
(* in whole seconds.                                                       *)
(***************************************************************************)
EXTENDS Integers, FiniteSets, Sequences

CONSTANTS
    Requests,           \* requests that may be in flight at once
    TicksPerSecond,
    OtpExpiry, OtpCooldown,         \* ticks
    OtpMaxAttempts,
    AccessExpiresIn, RefreshExpiresIn,  \* seconds
    MaxTime, MaxCodes, MaxPairs, MaxVerifications, MaxFailures

ASSUME AuthAssumptions ==
    /\ TicksPerSecond \in Nat \ {0} /\ OtpMaxAttempts \in Nat \ {0}
    /\ OtpExpiry \in Nat /\ OtpCooldown \in Nat
    /\ AccessExpiresIn \in Nat \ {0} /\ RefreshExpiresIn \in Nat \ {0}
    /\ {MaxTime, MaxCodes, MaxPairs, MaxVerifications, MaxFailures} \subseteq Nat
    /\ IsFiniteSet(Requests)

VARIABLES
    now,
    user,           \* users: no row, a row, a row with is_email_verified
    mails,          \* the codes mailed so far
    code,           \* otp_codes, in the order of created_at
    pair,           \* the pairs of tokens; the position of a pair is its jti
    blacklist,      \* when blacklist:jti:{jti} expires; 0 if it was never set
    req,            \* the requests in flight
    refreshed, loggedOut,   \* history: pairs whose refresh, whose logout set the key
    verifications, failures

vars == <<now, user, mails, code, pair, blacklist, req, refreshed, loggedOut, verifications, failures>>

Code == [mail : Nat,                        \* which of the codes mailed it is
         created : 0..MaxTime, expires : Nat, isUsed : BOOLEAN, attempts : Nat,
         compared : Nat, opened : Nat]      \* the last two are history

Pair == [iat : Nat, from : 0..MaxPairs]     \* 0: from a code

Request == [at : {"idle", "invalidating", "mailing", "storing", "counting", "using",
                  "retiring", "marking", "revoking", "opening"},
            mail : Nat, code : 0..MaxCodes, attempts : Nat, pair : 0..MaxPairs, out : BOOLEAN]

Idle == [at |-> "idle", mail |-> 0, code |-> 0, attempts |-> 0, pair |-> 0, out |-> FALSE]

Init ==
    /\ now = 0
    /\ user = "none"
    /\ mails = 0
    /\ code = <<>>
    /\ pair = <<>>
    /\ blacklist = [p \in 1..MaxPairs |-> 0]
    /\ req = [q \in Requests |-> Idle]
    /\ refreshed = {} /\ loggedOut = {}
    /\ verifications = 0
    /\ failures = 0

Goto(q, at) == req' = [req EXCEPT ![q].at = at]
Done(q) == req' = [req EXCEPT ![q] = Idle]
CanFail == failures < MaxFailures /\ failures' = failures + 1

------------------------------------------------------------------------------
(* register and sendOtp. *)

\* usersService.create; the unique index on email lets one of two at once pass
Register(q) ==
    /\ req[q].at = "idle" /\ user = "none"
    /\ user' = "registered"
    /\ Goto(q, "mailing")
    /\ UNCHANGED <<now, mails, code, pair, blacklist, refreshed, loggedOut, verifications, failures>>

\* findRecentByEmail
Recent == {i \in DOMAIN code : code[i].created > now - OtpCooldown}

SendOtp(q) ==
    /\ req[q].at = "idle" /\ user # "none" /\ Recent = {}
    /\ Goto(q, "invalidating")
    /\ UNCHANGED <<now, user, mails, code, pair, blacklist, refreshed, loggedOut, verifications, failures>>

\* The codes after invalidatePreviousCodes
Invalidated == [i \in DOMAIN code |-> [code[i] EXCEPT !.isUsed = TRUE]]

invalidateOldOtps(q) ==
    /\ req[q].at = "invalidating"
    /\ code' = Invalidated
    /\ Goto(q, "mailing")
    /\ UNCHANGED <<now, user, mails, pair, blacklist, refreshed, loggedOut, verifications, failures>>

\* generateAndStoreOtp mails the code before it stores it; sendOtpEmail never throws.
MailOtp(q) ==
    /\ req[q].at = "mailing" /\ mails < MaxCodes
    /\ mails' = mails + 1
    /\ req' = [req EXCEPT ![q].at = "storing", ![q].mail = mails + 1]
    /\ UNCHANGED <<now, user, code, pair, blacklist, refreshed, loggedOut, verifications, failures>>

\* Mutant: the lifetime is subtracted.
NewCode_Past(m) == [mail |-> m, created |-> now, expires |-> now - OtpExpiry, isUsed |-> FALSE,
                    attempts |-> 0, compared |-> 0, opened |-> 0]

NewCode(m) == [mail |-> m, created |-> now, expires |-> now + OtpExpiry, isUsed |-> FALSE,
               attempts |-> 0, compared |-> 0, opened |-> 0]

\* createEntity
StoreOtp(q) ==
    /\ req[q].at = "storing" /\ Len(code) < MaxCodes
    /\ code' = Append(code, NewCode(req[q].mail))
    /\ Done(q)
    /\ UNCHANGED <<now, user, mails, pair, blacklist, refreshed, loggedOut, verifications, failures>>

------------------------------------------------------------------------------
(* verifyOtp. *)

\* findValidByEmail: a newest of those that are neither used nor expired
Valid == {i \in DOMAIN code : ~code[i].isUsed /\ code[i].expires > now}

\* Mutant: the order is the other way round.
Found_Oldest == {i \in Valid : \A j \in Valid : code[j].created >= code[i].created}

Found == {i \in Valid : \A j \in Valid : code[j].created <= code[i].created}

VerifyOtp(q) ==
    /\ req[q].at = "idle" /\ verifications < MaxVerifications
    /\ verifications' = verifications + 1
    /\ \E i \in Found :
          req' = [req EXCEPT ![q] = [Idle EXCEPT !.at = "counting", !.code = i,
                                                !.attempts = code[i].attempts]]
    /\ UNCHANGED <<now, user, mails, code, pair, blacklist, refreshed, loggedOut, failures>>

\* Mutant: the copy is not incremented.
CountAttempt_OldCopy(q, right) ==
    LET tooMany == req[q].attempts > OtpMaxAttempts
    IN  /\ req[q].at = "counting"
        /\ code' = [code EXCEPT ![req[q].code].attempts = @ + 1,
                                ![req[q].code].compared = @ + IF tooMany THEN 0 ELSE 1]
        /\ IF tooMany THEN Goto(q, "retiring")
           ELSE IF right THEN Goto(q, "using") ELSE Done(q)
        /\ UNCHANGED <<now, user, mails, pair, blacklist, refreshed, loggedOut, verifications, failures>>

\* incrementAttempts; what follows is decided on the copy that was
\* read before, then on whether the entry is right.
CountAttempt(q, right) ==
    LET tooMany == req[q].attempts + 1 > OtpMaxAttempts
    IN  /\ req[q].at = "counting"
        /\ code' = [code EXCEPT ![req[q].code].attempts = @ + 1,
                                ![req[q].code].compared = @ + IF tooMany THEN 0 ELSE 1]
        /\ IF tooMany THEN Goto(q, "retiring")
           ELSE IF right THEN Goto(q, "using") ELSE Done(q)
        /\ UNCHANGED <<now, user, mails, pair, blacklist, refreshed, loggedOut, verifications, failures>>

\* Mutant: a code is used up only by too many attempts.
UseCode_Not(q) ==
    /\ req[q].at \in {"using", "retiring"}
    /\ IF req[q].at = "using" THEN Goto(q, "marking") /\ UNCHANGED code
       ELSE Done(q) /\ code' = [code EXCEPT ![req[q].code].isUsed = TRUE]
    /\ UNCHANGED <<now, user, mails, pair, blacklist, refreshed, loggedOut, verifications, failures>>

\* otpRepo.update(id, { isUsed: true }), after too many attempts or for the right code
UseCode(q) ==
    /\ req[q].at \in {"using", "retiring"}
    /\ code' = [code EXCEPT ![req[q].code].isUsed = TRUE]
    /\ IF req[q].at = "using" THEN Goto(q, "marking") ELSE Done(q)
    /\ UNCHANGED <<now, user, mails, pair, blacklist, refreshed, loggedOut, verifications, failures>>

\* markEmailVerified, updateLastLogin
MarkVerified(q) ==
    /\ req[q].at = "marking"
    /\ user' = "verified"
    /\ Goto(q, "opening")
    /\ UNCHANGED <<now, mails, code, pair, blacklist, refreshed, loggedOut, verifications, failures>>

------------------------------------------------------------------------------
(* The pairs of tokens.  exp is in whole seconds, rounded down. *)

Exp(p, seconds) == (pair[p].iat + seconds) * TicksPerSecond
AccessExp(p) == Exp(p, AccessExpiresIn)
RefreshExp(p) == Exp(p, RefreshExpiresIn)
Blacklisted(p) == blacklist[p] > now

\* Mutant: the blacklist is looked at again before the tokens are signed.
OpenSession_CheckedAgain(q) ==
    /\ req[q].at = "opening" /\ Len(pair) < MaxPairs
    /\ IF req[q].pair # 0 /\ Blacklisted(req[q].pair) THEN UNCHANGED <<pair, code>>
       ELSE /\ pair' = Append(pair, [iat |-> now \div TicksPerSecond, from |-> req[q].pair])
            /\ code' = IF req[q].code = 0 THEN code
                       ELSE [code EXCEPT ![req[q].code].opened = @ + 1]
    /\ Done(q)
    /\ UNCHANGED <<now, user, mails, blacklist, refreshed, loggedOut, verifications, failures>>

\* generateTokens
OpenSession(q) ==
    /\ req[q].at = "opening" /\ Len(pair) < MaxPairs
    /\ pair' = Append(pair, [iat |-> now \div TicksPerSecond, from |-> req[q].pair])
    /\ code' = IF req[q].code = 0 THEN code ELSE [code EXCEPT ![req[q].code].opened = @ + 1]
    /\ Done(q)
    /\ UNCHANGED <<now, user, mails, blacklist, refreshed, loggedOut, verifications, failures>>

\* JwtRefreshStrategy and JwtStrategy: an unreachable Redis is taken for no entry.
Admitted(p) ==
    \/ ~Blacklisted(p) /\ UNCHANGED failures
    \/ CanFail

Present(q, p, out) ==
    /\ req[q].at = "idle" /\ Admitted(p)
    /\ req' = [req EXCEPT ![q] = [Idle EXCEPT !.at = "revoking", !.pair = p, !.out = out]]
    /\ UNCHANGED <<now, user, mails, code, pair, blacklist, refreshed, loggedOut, verifications>>

RefreshToken(q, p) == now < RefreshExp(p) /\ Present(q, p, FALSE)

\* Guarded by the access token of the pair
Logout(q, p) == now < AccessExp(p) /\ Present(q, p, TRUE)

\* Math.max(1, Math.floor(exp - now)) seconds
Remaining(exp) ==
    LET left == (exp - now) \div TicksPerSecond IN IF left > 1 THEN left ELSE 1

\* Mutant: as in logout, the lifetime of the access token.
KeyExpires_AsLogout(p, out) == now + Remaining(AccessExp(p)) * TicksPerSecond

\* payload.exp is that of the token presented.
KeyExpires(p, out) ==
    now + Remaining(IF out THEN AccessExp(p) ELSE RefreshExp(p)) * TicksPerSecond

Revoke(q) ==
    LET p == req[q].pair  out == req[q].out
    IN  /\ req[q].at = "revoking"
        /\ blacklist' = [blacklist EXCEPT ![p] = KeyExpires(p, out)]
        /\ IF out THEN /\ loggedOut' = loggedOut \cup {p} /\ UNCHANGED refreshed
                       /\ Done(q)
                  ELSE /\ refreshed' = refreshed \cup {p} /\ UNCHANGED loggedOut
                       /\ Goto(q, "opening")
        /\ UNCHANGED <<now, user, mails, code, pair, verifications, failures>>

------------------------------------------------------------------------------
\* A call of the database or of Redis is rejected, or the process dies.
Fail(q) ==
    /\ req[q].at # "idle" /\ CanFail
    /\ Done(q)
    /\ UNCHANGED <<now, user, mails, code, pair, blacklist, refreshed, loggedOut, verifications>>

Tick ==
    /\ now < MaxTime
    /\ now' = now + 1
    /\ UNCHANGED <<user, mails, code, pair, blacklist, req, refreshed, loggedOut, verifications, failures>>

Next ==
    \/ \E q \in Requests :
          \/ Register(q) \/ SendOtp(q) \/ invalidateOldOtps(q)
          \/ MailOtp(q) \/ StoreOtp(q)
          \/ VerifyOtp(q) \/ \E right \in BOOLEAN : CountAttempt(q, right)
          \/ UseCode(q) \/ MarkVerified(q) \/ OpenSession(q)
          \/ \E p \in DOMAIN pair : RefreshToken(q, p) \/ Logout(q, p)
          \/ Revoke(q) \/ Fail(q)
    \/ Tick

Spec == Init /\ [][Next]_vars

------------------------------------------------------------------------------
TypeOK ==
    /\ now \in 0..MaxTime
    /\ user \in {"none", "registered", "verified"}
    /\ mails \in 0..MaxCodes
    /\ code \in Seq(Code) /\ Len(code) <= MaxCodes
    /\ pair \in Seq(Pair) /\ Len(pair) <= MaxPairs
    /\ blacklist \in [1..MaxPairs -> Nat]
    /\ req \in [Requests -> Request]
    /\ \A q \in Requests : req[q].code <= Len(code) /\ req[q].pair <= Len(pair)
    /\ refreshed \subseteq DOMAIN pair /\ loggedOut \subseteq DOMAIN pair
    /\ verifications \in 0..MaxVerifications /\ failures \in 0..MaxFailures

InFlight(at) == {q \in Requests : req[q].at \in at}

(***************************************************************************)
(* A code is compared with at most OTP_MAX_ATTEMPTS entries, and one more  *)
(* for every other verification that read the row at the same time: the    *)
(* increment is the database's, the decision the copy's (verifyOtp).       *)
(***************************************************************************)
ComparisonsAreLimited ==
    \A i \in DOMAIN code : code[i].compared <= OtpMaxAttempts + Cardinality(Requests) - 1

(***************************************************************************)
(* Verifications of a code that overlap may each log in; one that begins   *)
(* after a login does not find the code any more, because it is used up    *)
(* before the tokens are signed (verifyOtp).                               *)
(***************************************************************************)
NoSecondLogin == \A i \in Valid : code[i].opened = 0

(***************************************************************************)
(* The code mailed last is the one a verification looks for, once it is    *)
(* stored and until it expires.  Only its use, too many attempts, a        *)
(* failure, the next request for a code, or a request that overlapped      *)
(* this one take its place: a code is stored after it is mailed, so of two *)
(* such requests the code mailed first may be stored last, and then it is  *)
(* the only one that can be entered (sendOtp, register, verifyOtp).        *)
(***************************************************************************)
LastMailedCanBeEntered ==
    mails > 0 =>
        \/ \E i \in DOMAIN code :
              /\ code[i].mail = mails
              /\ \/ i \in Found \/ code[i].expires <= now
                 \/ code[i].opened > 0
                 \/ \E q \in InFlight({"marking", "opening"}) : req[q].code = i
                 \/ code[i].attempts > OtpMaxAttempts
                 \/ InFlight({"mailing"}) # {}
                 \/ \E j \in Valid : j > i
        \/ \E q \in InFlight({"storing"}) : req[q].mail = mails
        \/ failures > 0

(***************************************************************************)
(* A refresh token that has been exchanged stays refused until less than a *)
(* second before it expires, however the exchanges interleave.  A logout   *)
(* admitted before the exchange would shorten the entry: both tokens of a  *)
(* pair share one key (refreshToken, logout).                              *)
(***************************************************************************)
ExchangedStaysRefused ==
    \A p \in refreshed \ loggedOut : blacklist[p] > RefreshExp(p) - TicksPerSecond

(***************************************************************************)
(* Nobody is logged out by a refresh: a pair is revoked before the user is *)
(* looked up and the next one signed, so every failure in between may cost *)
(* one session, and nothing else does (refreshToken).                      *)
(***************************************************************************)
RefreshKeepsTheSession ==
    LET lost == {p \in refreshed : \A n \in DOMAIN pair : pair[n].from # p}
    IN  Cardinality(lost) <= failures + Cardinality(InFlight({"opening"}))
==============================================================================
