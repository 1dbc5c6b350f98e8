---------------------------- MODULE AuthSessionsProofs ----------------------------
(***************************************************************************)
(* Proofs that the safety properties of AuthSessions hold for any number   *)
(* of requests, lifetimes, limits of attempts and bounds.                  *)
(***************************************************************************)
EXTENDS AuthSessions, SequenceTheorems, FiniteSetTheorems, TLAPS

\* What a request in flight knows of the codes and the pairs.
Formed(r) ==
    /\ r.at \in {"counting", "using", "retiring", "marking"} => r.code \in DOMAIN code
    /\ r.at = "counting" => r.attempts <= code[r.code].attempts
    /\ r.at = "retiring" => code[r.code].attempts > OtpMaxAttempts
    /\ (r.at \in {"marking", "opening"} /\ r.code # 0) => code[r.code].isUsed
    /\ r.at = "revoking" => r.pair \in DOMAIN pair /\ r.code = 0

\* What is compared is counted, and what has logged in is used up.
Counted(c) == c.compared <= c.attempts /\ (c.opened > 0 => c.isUsed)

\* The verifications that will compare the code i with their entry.
Pending(i) == {q \in Requests : /\ req[q].at = "counting" /\ req[q].code = i
                                /\ req[q].attempts < OtpMaxAttempts}

Comparisons ==
    \A i \in DOMAIN code :
        code[i].compared + Cardinality(Pending(i)) <= OtpMaxAttempts + Cardinality(Requests) - 1

\* The pairs exchanged for nothing, with no request left that would sign the next.
Owed == {p \in refreshed : /\ \A n \in DOMAIN pair : pair[n].from # p
                           /\ \A q \in Requests : ~(req[q].at = "opening" /\ req[q].pair = p)}

\* The codes are in the order in which they were stored.
InOrder ==
    \A j \in DOMAIN code : /\ code[j].created <= now
                           /\ \A i \in DOMAIN code : i <= j => code[i].created <= code[j].created

\* A code that is not retired, unless there is a reason for it.
Standing(i) ==
    \/ ~code[i].isUsed
    \/ code[i].opened > 0
    \/ \E q \in InFlight({"marking", "opening"}) : req[q].code = i
    \/ code[i].attempts > OtpMaxAttempts
    \/ InFlight({"mailing"}) # {}

LastStands ==
    mails > 0 =>
        \/ \E i \in DOMAIN code : code[i].mail = mails /\ Standing(i)
        \/ \E q \in InFlight({"storing"}) : req[q].mail = mails
        \/ failures > 0

Inv ==
    /\ TypeOK
    /\ \A q \in Requests : Formed(req[q])
    /\ \A i \in DOMAIN code : Counted(code[i])
    /\ Comparisons
    /\ InOrder
    /\ LastStands
    /\ ExchangedStaysRefused
    /\ Cardinality(Owed) <= failures

------------------------------------------------------------------------------
(* Types, requests and what they know. *)

LEMMA Typed ==
    ASSUME Inv
    PROVE  /\ now \in 0..MaxTime /\ now \in Nat /\ failures \in 0..MaxFailures /\ failures \in Nat
           /\ mails \in 0..MaxCodes /\ mails \in Nat
           /\ code \in Seq(Code) /\ Len(code) \in Nat /\ DOMAIN code = 1..Len(code)
           /\ \A i \in DOMAIN code : code[i] \in Code /\ Counted(code[i])
           /\ pair \in Seq(Pair) /\ Len(pair) \in Nat /\ DOMAIN pair = 1..Len(pair)
           /\ \A p \in DOMAIN pair : pair[p] \in Pair
           /\ req \in [Requests -> Request]
           /\ \A q \in Requests : /\ req[q] \in Request /\ Formed(req[q])
                                  /\ req[q].code <= Len(code) /\ req[q].pair <= Len(pair)
           /\ refreshed \subseteq DOMAIN pair
  BY LenProperties, ElementOfSeq, AuthAssumptions DEF Inv, TypeOK

LEMMA BoundsTyped == /\ MaxTime \in Nat /\ MaxCodes \in Nat /\ MaxPairs \in Nat
                     /\ MaxVerifications \in Nat /\ MaxFailures \in Nat
  BY AuthAssumptions

LEMMA IdleTyped == /\ Idle \in Request /\ Idle.at = "idle" /\ Idle.code = 0 /\ Idle.pair = 0
                   /\ Idle.out = FALSE /\ Idle.attempts = 0
  BY BoundsTyped DEF Idle, Request

\* A whole number of seconds is rounded down by less than a second.
LEMMA Division ==
    ASSUME NEW x \in Int, NEW t \in Nat \ {0}
    PROVE  x \div t \in Int /\ x < t * (x \div t) + t /\ (x \in Nat => x \div t \in Nat)
  <1>1. x \div t \in Int
    OBVIOUS
  <1>2. x < t * (x \div t) + t
    OBVIOUS
  <1>3. x \in Nat => x \div t \in Nat
    OBVIOUS
  <1>. QED
    BY <1>1, <1>2, <1>3

\* The codes and the pairs only advance: what is counted stays counted, used stays used.
Advance ==
    /\ code' \in Seq(Code) /\ Len(code) <= Len(code') /\ Len(code') <= MaxCodes
    /\ \A i \in DOMAIN code : /\ code'[i].attempts >= code[i].attempts
                              /\ code[i].isUsed => code'[i].isUsed
    /\ pair' \in Seq(Pair) /\ Len(pair) <= Len(pair') /\ Len(pair') <= MaxPairs

LEMMA NoAdvance == ASSUME Inv, UNCHANGED <<code, pair>> PROVE Advance
  <1>1. \A i \in DOMAIN code : code[i].attempts \in Nat
    BY Typed DEF Code
  <1>2. \A i \in DOMAIN code : code'[i].attempts >= code[i].attempts
    BY <1>1
  <1>3. /\ code' \in Seq(Code) /\ Len(code) <= Len(code') /\ Len(code') <= MaxCodes
        /\ pair' \in Seq(Pair) /\ Len(pair) <= Len(pair') /\ Len(pair') <= MaxPairs
    BY Typed DEF Inv, TypeOK
  <1>. QED
    BY <1>2, <1>3 DEF Advance

LEMMA FormedStays ==
    ASSUME Inv, Advance, NEW r \in Request, Formed(r), r.code <= Len(code)
    PROVE  Formed(r)'
  <1>1. DOMAIN code = 1..Len(code) /\ DOMAIN code' = 1..Len(code')
        /\ DOMAIN pair = 1..Len(pair) /\ DOMAIN pair' = 1..Len(pair')
        /\ Len(code) \in Nat /\ Len(code') \in Nat /\ Len(pair) \in Nat /\ Len(pair') \in Nat
    BY Typed, LenProperties DEF Advance
  <1>2. \A i \in DOMAIN code : i \in DOMAIN code'
    BY <1>1 DEF Advance
  <1>3. \A i \in DOMAIN pair : i \in DOMAIN pair'
    BY <1>1 DEF Advance
  <1>4. r.code \in DOMAIN code =>
            /\ code'[r.code].attempts >= code[r.code].attempts
            /\ code[r.code].isUsed => code'[r.code].isUsed
            /\ code[r.code].attempts \in Nat /\ code'[r.code].attempts \in Nat
    <2>. SUFFICES ASSUME r.code \in DOMAIN code
                  PROVE  /\ code'[r.code].attempts >= code[r.code].attempts
                         /\ code[r.code].isUsed => code'[r.code].isUsed
                         /\ code[r.code].attempts \in Nat /\ code'[r.code].attempts \in Nat
      OBVIOUS
    <2>1. code[r.code] \in Code
      BY Typed
    <2>2. code'[r.code] \in Code
      BY <1>1, <1>2, ElementOfSeq DEF Advance
    <2>3. code[r.code].attempts \in Nat /\ code'[r.code].attempts \in Nat
      BY <2>1, <2>2 DEF Code
    <2>. QED
      BY <2>3 DEF Advance
  <1>5. r.code \in Nat /\ r.attempts \in Nat /\ (r.code # 0 => r.code \in DOMAIN code)
    BY <1>1, BoundsTyped DEF Request
  <1>6. OtpMaxAttempts \in Nat
    BY AuthAssumptions
  <1>7. r.at = "counting" => r.attempts <= code'[r.code].attempts
    BY <1>4, <1>5 DEF Formed
  <1>8. r.at = "retiring" => code'[r.code].attempts > OtpMaxAttempts
    BY <1>4, <1>5, <1>6 DEF Formed
  <1>. QED
    BY <1>2, <1>3, <1>4, <1>5, <1>7, <1>8 DEF Formed

\* The request q moves on as r.
LEMMA Moves ==
    ASSUME Inv, Advance, NEW q \in Requests, NEW r \in Request, req' = [req EXCEPT ![q] = r],
           Formed(r)', r.code <= Len(code'), r.pair <= Len(pair')
    PROVE  /\ req' \in [Requests -> Request]
           /\ \A s \in Requests : req'[s] = IF s = q THEN r ELSE req[s]
           /\ \A s \in Requests : req'[s].code <= Len(code') /\ req'[s].pair <= Len(pair')
           /\ (\A s \in Requests : Formed(req[s]))'
  <1>1. /\ req' \in [Requests -> Request]
        /\ \A s \in Requests : req'[s] = IF s = q THEN r ELSE req[s]
    BY Typed
  <1>2. ASSUME NEW s \in Requests
        PROVE  req'[s].code <= Len(code') /\ req'[s].pair <= Len(pair') /\ Formed(req[s])'
    <2>1. CASE s = q
      BY <1>1, <2>1
    <2>2. CASE s # q
      <3>1. PICK t \in Request : /\ t = req[s] /\ Formed(t)
                                 /\ t.code <= Len(code) /\ t.pair <= Len(pair)
        BY Typed
      <3>2. Formed(t)' /\ t = req'[s]
        BY <1>1, <2>2, <3>1, FormedStays
      <3>3. Len(code') \in Nat /\ Len(pair') \in Nat /\ t.code \in Nat /\ t.pair \in Nat
        BY LenProperties, BoundsTyped DEF Advance, Request
      <3>. QED
        BY <3>1, <3>2, <3>3, Typed DEF Advance
    <2>. QED
      BY <2>1, <2>2
  <1>. QED
    BY <1>1, <1>2

------------------------------------------------------------------------------
(* How the parts of the invariant follow a step of one request. *)

LEMMA PendingTyped ==
    ASSUME NEW S \in SUBSET Requests
    PROVE  /\ IsFiniteSet(S) /\ Cardinality(S) \in Nat
           /\ Cardinality(S) <= Cardinality(Requests) /\ Cardinality(Requests) \in Nat
           /\ \A T \in SUBSET S : Cardinality(T) <= Cardinality(S)
           /\ \A q \in Requests \ S : Cardinality(S \cup {q}) = Cardinality(S) + 1
           /\ \A q \in S : Cardinality(S \ {q}) = Cardinality(S) - 1
  <1>1. IsFiniteSet(Requests)
    BY AuthAssumptions
  <1>2. /\ IsFiniteSet(S) /\ Cardinality(S) <= Cardinality(Requests)
    BY <1>1, FS_Subset
  <1>3. Cardinality(S) \in Nat /\ Cardinality(Requests) \in Nat
    BY <1>1, <1>2, FS_CardinalityType
  <1>4. \A T \in SUBSET S : Cardinality(T) <= Cardinality(S)
    BY <1>2, FS_Subset
  <1>5. \A q \in Requests \ S : Cardinality(S \cup {q}) = Cardinality(S) + 1
    BY <1>2, FS_AddElement
  <1>6. \A q \in S : Cardinality(S \ {q}) = Cardinality(S) - 1
    BY <1>2, FS_RemoveElement
  <1>. QED
    BY <1>2, <1>3, <1>4, <1>5, <1>6

\* A code of which nobody else becomes a verification is compared no more often.
LEMMA ComparisonsStay ==
    ASSUME Inv, NEW i \in DOMAIN code, code'[i].compared = code[i].compared,
           \A s \in Requests :
              (req'[s].at = "counting" /\ req'[s].code = i /\ req'[s].attempts < OtpMaxAttempts)
                 => s \in Pending(i)
    PROVE  code'[i].compared + Cardinality(Pending(i)')
              <= OtpMaxAttempts + Cardinality(Requests) - 1
  <1>1. PICK S \in SUBSET Requests : S = Pending(i)
    BY DEF Pending
  <1>2. PICK T \in SUBSET Requests : T = Pending(i)'
    BY DEF Pending
  <1>3. T \in SUBSET S
    BY <1>1, <1>2 DEF Pending
  <1>4. /\ Cardinality(T) <= Cardinality(S) /\ Cardinality(T) \in Nat /\ Cardinality(S) \in Nat
        /\ Cardinality(Requests) \in Nat
    BY <1>3, PendingTyped
  <1>5. code[i].compared \in Nat /\ OtpMaxAttempts \in Nat
    BY Typed, AuthAssumptions DEF Code
  <1>6. code[i].compared + Cardinality(S) <= OtpMaxAttempts + Cardinality(Requests) - 1
    BY <1>1 DEF Inv, Comparisons
  <1>. QED
    BY <1>2, <1>4, <1>5, <1>6

LEMMA LastStays ==
    ASSUME Inv, NEW q \in Requests, NEW r \in Request,
           \A s \in Requests : req'[s] = IF s = q THEN r ELSE req[s],
           DOMAIN code' = DOMAIN code, mails' = mails,
           \A i \in DOMAIN code :
              /\ code'[i].mail = code[i].mail
              /\ code'[i].isUsed => code[i].isUsed \/ Standing(i)'
              /\ code[i].attempts > OtpMaxAttempts => code'[i].attempts > OtpMaxAttempts
              /\ code[i].opened > 0 => code'[i].opened > 0
              /\ (req[q].at \in {"marking", "opening"} /\ req[q].code = i) =>
                    \/ r.at \in {"marking", "opening"} /\ r.code = i
                    \/ code'[i].opened > 0,
           req[q].at \notin {"mailing", "storing"}, failures' >= failures, failures' \in Nat
    PROVE  LastStands'
  <1>1. ASSUME NEW i \in DOMAIN code, code[i].mail = mails, Standing(i)
        PROVE  i \in DOMAIN code' /\ code'[i].mail = mails' /\ Standing(i)'
    <2>0. /\ code'[i].isUsed => code[i].isUsed \/ Standing(i)'
          /\ code[i].attempts > OtpMaxAttempts => code'[i].attempts > OtpMaxAttempts
          /\ code[i].opened > 0 => code'[i].opened > 0
      OBVIOUS
    <2>1. ASSUME ~code[i].isUsed PROVE Standing(i)'
      <3>1. ~code'[i].isUsed => Standing(i)'
        BY ONLY DEF Standing
      <3>. QED
        BY <2>0, <2>1, <3>1
    <2>2. ASSUME code[i].opened > 0 \/ code[i].attempts > OtpMaxAttempts
          PROVE  Standing(i)'
      <3>1. (code'[i].opened > 0 \/ code'[i].attempts > OtpMaxAttempts) => Standing(i)'
        BY ONLY DEF Standing
      <3>. QED
        BY <2>0, <2>2, <3>1
    <2>3. ASSUME NEW s \in InFlight({"marking", "opening"}), req[s].code = i
          PROVE  Standing(i)'
      <3>1. CASE s = q
        BY <2>3, <3>1 DEF Standing, InFlight
      <3>2. CASE s # q
        <4>1. s \in InFlight({"marking", "opening"})' /\ req'[s].code = i
          BY <2>3, <3>2 DEF InFlight
        <4>. QED
          BY <4>1 DEF Standing
      <3>. QED
        BY <3>1, <3>2
    <2>4. ASSUME NEW s \in InFlight({"mailing"}) PROVE Standing(i)'
      <3>1. s \in InFlight({"mailing"})'
        BY <2>4 DEF InFlight
      <3>. QED
        BY <3>1 DEF Standing
    <2>5. Standing(i)'
      BY <1>1, <2>1, <2>2, <2>3, <2>4 DEF Standing
    <2>. QED
      BY <1>1, <2>5
  <1>2. ASSUME NEW s \in InFlight({"storing"}), req[s].mail = mails
        PROVE  s \in InFlight({"storing"})' /\ req'[s].mail = mails'
    BY <1>2 DEF InFlight
  <1>3. failures > 0 => failures' > 0
    BY Typed
  <1>4. \/ mails <= 0
        \/ \E i \in DOMAIN code : code[i].mail = mails /\ Standing(i)
        \/ \E s \in InFlight({"storing"}) : req[s].mail = mails
        \/ failures > 0
    BY Typed DEF Inv, LastStands
  <1>. QED
    BY <1>1, <1>2, <1>3, <1>4, Typed DEF LastStands

LEMMA OrderStays ==
    ASSUME Inv, DOMAIN code' = DOMAIN code, now' >= now, now' \in Nat,
           \A i \in DOMAIN code : code'[i].created = code[i].created
    PROVE  InOrder'
  <1>1. \A i \in DOMAIN code : code[i].created \in Nat /\ code[i].created <= now
    <2>1. MaxTime \in Nat
      BY BoundsTyped
    <2>2. \A i \in DOMAIN code : code[i].created \in 0..MaxTime
      BY Typed DEF Code
    <2>. QED
      BY <2>1, <2>2 DEF Inv, InOrder
  <1>2. \A i \in DOMAIN code : code[i].created <= now'
    BY <1>1, Typed
  <1>. QED
    BY <1>2 DEF Inv, InOrder

\* Nobody new is owed a pair.
LEMMA OwedTyped ==
    ASSUME Inv
    PROVE  /\ IsFiniteSet(Owed) /\ Cardinality(Owed) \in Nat
           /\ \A T \in SUBSET Owed : Cardinality(T) <= Cardinality(Owed)
           /\ \A p : Cardinality(Owed \cup {p}) <= Cardinality(Owed) + 1
                     /\ IsFiniteSet(Owed \cup {p})
  <1>1. Len(pair) \in Int /\ 1 \in Int
    BY Typed
  <1>2. IsFiniteSet(1..Len(pair))
    BY <1>1, FS_Interval
  <1>3. Owed \in SUBSET (1..Len(pair))
    BY Typed DEF Owed
  <1>4. IsFiniteSet(Owed)
    BY <1>2, <1>3, FS_Subset
  <1>5. Cardinality(Owed) \in Nat
    BY <1>4, FS_CardinalityType
  <1>6. \A T \in SUBSET Owed : Cardinality(T) <= Cardinality(Owed)
    BY <1>4, FS_Subset
  <1>7. \A p : Cardinality(Owed \cup {p}) <= Cardinality(Owed) + 1 /\ IsFiniteSet(Owed \cup {p})
    BY <1>4, <1>5, FS_AddElement
  <1>. QED
    BY <1>4, <1>5, <1>6, <1>7

LEMMA OwedStays ==
    ASSUME Inv, Owed' \subseteq Owed, failures' >= failures, failures' \in Nat
    PROVE  Cardinality(Owed') <= failures'
  <1>1. PICK S : S = Owed'
    OBVIOUS
  <1>2. IsFiniteSet(S) /\ Cardinality(S) <= Cardinality(Owed)
    BY <1>1, OwedTyped, FS_Subset
  <1>3. Cardinality(S) \in Nat /\ Cardinality(Owed) \in Nat
    BY <1>2, OwedTyped, FS_CardinalityType
  <1>4. Cardinality(Owed) <= failures
    BY DEF Inv
  <1>. QED
    BY <1>1, <1>2, <1>3, <1>4, Typed

LEMMA OwedGrows ==
    ASSUME Inv, NEW p, Owed' \subseteq Owed \cup {p}, failures' = failures + 1
    PROVE  Cardinality(Owed') <= failures'
  <1>1. PICK S : S = Owed'
    OBVIOUS
  <1>2. PICK T : T = Owed \cup {p}
    OBVIOUS
  <1>3. IsFiniteSet(T) /\ Cardinality(T) <= Cardinality(Owed) + 1
    BY <1>2, OwedTyped
  <1>4. S \in SUBSET T
    BY <1>1, <1>2
  <1>5. IsFiniteSet(S) /\ Cardinality(S) <= Cardinality(T)
    BY <1>3, <1>4, FS_Subset
  <1>6. Cardinality(S) \in Nat /\ Cardinality(T) \in Nat /\ Cardinality(Owed) \in Nat
    BY <1>3, <1>5, OwedTyped, FS_CardinalityType
  <1>7. Cardinality(Owed) <= failures
    BY DEF Inv
  <1>. QED
    BY <1>1, <1>3, <1>5, <1>6, <1>7, Typed

LEMMA ExchangedStays ==
    ASSUME Inv, UNCHANGED <<blacklist, refreshed, loggedOut>>,
           \A p \in DOMAIN pair : pair'[p].iat = pair[p].iat
    PROVE  ExchangedStaysRefused'
  BY Typed DEF Inv, ExchangedStaysRefused, RefreshExp, Exp

(***************************************************************************)
(* The request q moves on as r, and no code, pair or key changes.  A       *)
(* request that is given up costs a failure.                               *)
(***************************************************************************)
LEMMA QuietStep ==
    ASSUME Inv, NEW q \in Requests, NEW r \in Request, req' = [req EXCEPT ![q] = r],
           UNCHANGED <<now, code, pair, blacklist, refreshed, loggedOut>>,
           mails' \in 0..MaxCodes,
           Formed(r), r.code <= Len(code), r.pair <= Len(pair),
           user' \in {"none", "registered", "verified"},
           verifications' \in 0..MaxVerifications, failures' \in 0..MaxFailures,
           r.at = "counting" => r.attempts = code[r.code].attempts,
           \/ failures' = failures + 1
           \/ /\ failures' = failures
              /\ \/ mails' = mails /\ req[q].at \notin {"mailing", "storing"}
                 \/ r.at = "storing" /\ r.mail = mails'
              /\ req[q].at \in {"marking", "opening"} =>
                    r.at \in {"marking", "opening"} /\ r.code = req[q].code
              /\ req[q].at = "opening" => r.at = "opening" /\ r.pair = req[q].pair
    PROVE  Inv'
  <1>1. Advance
    BY NoAdvance
  <1>2. Formed(r)'
    BY <1>1, FormedStays
  <1>3. /\ req' \in [Requests -> Request]
        /\ \A s \in Requests : req'[s] = IF s = q THEN r ELSE req[s]
        /\ \A s \in Requests : req'[s].code <= Len(code') /\ req'[s].pair <= Len(pair')
        /\ (\A s \in Requests : Formed(req[s]))'
    BY <1>1, <1>2, Moves
  <1>4. TypeOK'
    BY <1>3 DEF Inv, TypeOK
  <1>5. (\A i \in DOMAIN code : Counted(code[i]))'
    BY DEF Inv, Counted
  <1>6. Comparisons'
    <2>1. ASSUME NEW i \in DOMAIN code
          PROVE  code'[i].compared + Cardinality(Pending(i)')
                    <= OtpMaxAttempts + Cardinality(Requests) - 1
      <3>1. CASE r.at = "counting" /\ r.code = i /\ r.attempts < OtpMaxAttempts
        <4>1. PICK T \in SUBSET Requests : T = Pending(i)'
          BY DEF Pending
        <4>2. /\ Cardinality(T) \in Nat /\ Cardinality(T) <= Cardinality(Requests)
              /\ Cardinality(Requests) \in Nat
          BY PendingTyped
        <4>3. /\ code[i].compared <= code[i].attempts /\ code[i].attempts < OtpMaxAttempts
              /\ code[i].compared \in Nat /\ code[i].attempts \in Nat /\ OtpMaxAttempts \in Nat
          BY <3>1, Typed, AuthAssumptions DEF Counted, Code
        <4>. QED
          BY <4>1, <4>2, <4>3
      <3>2. CASE ~(r.at = "counting" /\ r.code = i /\ r.attempts < OtpMaxAttempts)
        BY <1>3, <3>2, ComparisonsStay DEF Pending
      <3>. QED
        BY <3>1, <3>2
    <2>. QED
      BY <2>1 DEF Comparisons
  <1>7. LastStands'
    <2>1. CASE failures' = failures + 1
      BY <2>1, Typed DEF LastStands
    <2>2. CASE failures' = failures /\ mails' = mails /\ req[q].at \notin {"mailing", "storing"}
               /\ (req[q].at \in {"marking", "opening"} =>
                     r.at \in {"marking", "opening"} /\ r.code = req[q].code)
      <3>1. failures' >= failures /\ failures' \in Nat
        BY <2>2, Typed
      <3>. QED
        BY <1>3, <2>2, <3>1, LastStays
    <2>3. CASE r.at = "storing" /\ r.mail = mails'
      <3>1. q \in InFlight({"storing"})' /\ req'[q].mail = mails'
        BY <1>3, <2>3 DEF InFlight
      <3>. QED
        BY <3>1 DEF LastStands
    <2>. QED
      BY <2>1, <2>2, <2>3
  <1>order. InOrder'
    BY DEF Inv, InOrder
  <1>8. ExchangedStaysRefused'
    BY ExchangedStays
  <1>9. Cardinality(Owed') <= failures'
    <2>1. CASE failures' = failures + 1
      <3>1. Owed' \subseteq Owed \cup {req[q].pair}
        BY <1>3 DEF Owed
      <3>. QED
        BY <2>1, <3>1, OwedGrows
    <2>2. CASE failures' # failures + 1
      <3>1. Owed' \subseteq Owed
        BY <1>3, <2>2 DEF Owed
      <3>2. failures' >= failures /\ failures' \in Nat
        BY <2>2, Typed
      <3>. QED
        BY <3>1, <3>2, OwedStays
    <2>. QED
      BY <2>1, <2>2
  <1>. QED
    BY <1>3, <1>4, <1>5, <1>6, <1>7, <1>order, <1>8, <1>9 DEF Inv

------------------------------------------------------------------------------
(* The steps that change no code and no pair. *)

LEMMA GotoIs ==
    ASSUME Inv, NEW q \in Requests,
           NEW at \in {"idle", "invalidating", "mailing", "storing", "counting", "using",
                       "retiring", "marking", "revoking", "opening"}
    PROVE  \E r \in Request :
              /\ r.at = at /\ r.code = req[q].code /\ r.attempts = req[q].attempts
              /\ r.pair = req[q].pair
              /\ Goto(q, at) => req' = [req EXCEPT ![q] = r]
  <1>1. PICK old \in Request : old = req[q]
    BY Typed
  <1>. DEFINE r == [old EXCEPT !.at = at]
  <1>2. /\ r \in Request /\ r.at = at /\ r.code = old.code /\ r.attempts = old.attempts
        /\ r.pair = old.pair
    BY DEF Request
  <1>3. Goto(q, at) => req' = [req EXCEPT ![q] = r]
    BY <1>1, Typed DEF Goto
  <1>. HIDE DEF r
  <1>. QED
    BY <1>1, <1>2, <1>3

LEMMA QuietSteps ==
    ASSUME Inv, NEW q \in Requests, Register(q) \/ SendOtp(q) \/ MarkVerified(q)
    PROVE  Inv'
  <1>1. /\ UNCHANGED <<now, mails, code, pair, blacklist, refreshed, loggedOut>>
        /\ mails' \in 0..MaxCodes
    BY Typed DEF Register, SendOtp, MarkVerified
  <1>2. user' \in {"none", "registered", "verified"}
    BY DEF Register, SendOtp, MarkVerified, Inv, TypeOK
  <1>3. /\ verifications' \in 0..MaxVerifications /\ failures' = failures
        /\ failures' \in 0..MaxFailures
    BY DEF Register, SendOtp, MarkVerified, Inv, TypeOK
  <1>4. CASE Register(q) \/ SendOtp(q)
    <2>1. PICK at \in {"mailing", "invalidating"} : Goto(q, at) /\ req[q].at = "idle"
      BY <1>4 DEF Register, SendOtp
    <2>2. PICK r \in Request :
             /\ r.at = at /\ r.code = req[q].code /\ r.pair = req[q].pair
             /\ req' = [req EXCEPT ![q] = r]
      BY <2>1, GotoIs
    <2>3. Formed(r)
      BY <2>2 DEF Formed
    <2>4. r.code <= Len(code) /\ r.pair <= Len(pair)
      BY <2>2, Typed
    <2>. QED
      BY <1>1, <1>2, <1>3, <2>1, <2>2, <2>3, <2>4, QuietStep
  <1>5. CASE MarkVerified(q)
    <2>1. Goto(q, "opening") /\ req[q].at = "marking"
      BY <1>5 DEF MarkVerified
    <2>2. PICK r \in Request :
             /\ r.at = "opening" /\ r.code = req[q].code /\ r.pair = req[q].pair
             /\ req' = [req EXCEPT ![q] = r]
      BY <2>1, GotoIs
    <2>3. Formed(r)
      BY <2>1, <2>2, Typed DEF Formed
    <2>4. r.code <= Len(code) /\ r.pair <= Len(pair)
      BY <2>2, Typed
    <2>. QED
      BY <1>1, <1>2, <1>3, <2>1, <2>2, <2>3, <2>4, QuietStep
  <1>. QED
    BY <1>4, <1>5

LEMMA MailOtpStep ==
    ASSUME Inv, NEW q \in Requests, MailOtp(q)
    PROVE  Inv'
  <1>1. PICK m \in 0..MaxCodes : m = mails + 1 /\ m \in Nat
    BY Typed, BoundsTyped DEF MailOtp
  <1>2. PICK old \in Request : old = req[q]
    BY Typed
  <1>3. PICK r : r = [old EXCEPT !.at = "storing", !.mail = m]
    OBVIOUS
  <1>4. /\ r \in Request /\ r.at = "storing" /\ r.mail = m /\ r.code = old.code
        /\ r.pair = old.pair
    BY <1>1, <1>3 DEF Request
  <1>5. req' = [req EXCEPT ![q] = r]
    BY <1>1, <1>2, <1>3, Typed DEF MailOtp
  <1>6. Formed(r) /\ r.code <= Len(code) /\ r.pair <= Len(pair)
    BY <1>2, <1>4, Typed DEF Formed
  <1>7. /\ UNCHANGED <<now, user, code, pair, blacklist, refreshed, loggedOut, verifications>>
        /\ failures' = failures /\ mails' = m /\ req[q].at = "mailing"
    BY <1>1 DEF MailOtp
  <1>8. /\ user' \in {"none", "registered", "verified"} /\ verifications' \in 0..MaxVerifications
        /\ failures' \in 0..MaxFailures
    BY <1>7 DEF Inv, TypeOK
  <1>. QED
    BY <1>1, <1>4, <1>5, <1>6, <1>7, <1>8, QuietStep

LEMMA VerifyOtpStep ==
    ASSUME Inv, NEW q \in Requests, VerifyOtp(q)
    PROVE  Inv'
  <1>1. PICK i \in DOMAIN code :
           req' = [req EXCEPT ![q] = [Idle EXCEPT !.at = "counting", !.code = i,
                                                  !.attempts = code[i].attempts]]
    BY DEF VerifyOtp, Found, Valid
  <1>2. PICK n \in Nat : n = code[i].attempts
    BY Typed DEF Code
  <1>3. i \in 0..MaxCodes /\ i <= Len(code)
    <2>1. /\ DOMAIN code = 1..Len(code) /\ Len(code) \in Nat /\ Len(code) <= MaxCodes
          /\ MaxCodes \in Nat
      BY Typed, BoundsTyped DEF Inv, TypeOK
    <2>. QED
      BY <2>1
  <1>4. PICK r \in Request : /\ r = [Idle EXCEPT !.at = "counting", !.code = i, !.attempts = n]
                             /\ r.at = "counting" /\ r.code = i /\ r.attempts = n /\ r.pair = 0
    <2>1. PICK old \in Request : old = Idle /\ old.pair = 0
      BY IdleTyped
    <2>2. LET r == [old EXCEPT !.at = "counting", !.code = i, !.attempts = n]
          IN  /\ r \in Request /\ r.at = "counting" /\ r.code = i /\ r.attempts = n
              /\ r.pair = old.pair
      BY <1>3 DEF Request
    <2>. QED
      BY <2>1, <2>2
  <1>5. req' = [req EXCEPT ![q] = r]
    BY <1>1, <1>2, <1>4
  <1>6. Formed(r)
    BY <1>2, <1>4 DEF Formed
  <1>7. r.pair <= Len(pair)
    BY <1>4, Typed
  <1>8. /\ req[q].at = "idle" /\ failures' = failures
        /\ UNCHANGED <<now, mails, code, pair, blacklist, refreshed, loggedOut>>
        /\ mails' \in 0..MaxCodes
    BY Typed DEF VerifyOtp
  <1>9. /\ verifications' \in 0..MaxVerifications /\ failures' \in 0..MaxFailures
        /\ user' \in {"none", "registered", "verified"}
    BY BoundsTyped DEF VerifyOtp, Inv, TypeOK
  <1>. QED
    BY <1>2, <1>3, <1>4, <1>5, <1>6, <1>7, <1>8, <1>9, QuietStep

LEMMA PresentStep ==
    ASSUME Inv, NEW q \in Requests, NEW p \in DOMAIN pair, NEW out \in BOOLEAN, Present(q, p, out)
    PROVE  Inv'
  <1>1. p \in 0..MaxPairs /\ p <= Len(pair)
    <2>1. /\ DOMAIN pair = 1..Len(pair) /\ Len(pair) \in Nat /\ Len(pair) <= MaxPairs
          /\ MaxPairs \in Nat
      BY Typed, BoundsTyped DEF Inv, TypeOK
    <2>. QED
      BY <2>1
  <1>2. PICK r \in Request : /\ r = [Idle EXCEPT !.at = "revoking", !.pair = p, !.out = out]
                             /\ r.at = "revoking" /\ r.pair = p /\ r.code = 0
    <2>1. PICK old \in Request : old = Idle /\ old.code = 0
      BY IdleTyped
    <2>2. LET r == [old EXCEPT !.at = "revoking", !.pair = p, !.out = out]
          IN  /\ r \in Request /\ r.at = "revoking" /\ r.pair = p /\ r.code = old.code
      BY <1>1 DEF Request
    <2>. QED
      BY <2>1, <2>2
  <1>3. req' = [req EXCEPT ![q] = r] /\ req[q].at = "idle"
    BY <1>2 DEF Present
  <1>4. Formed(r)
    BY <1>2 DEF Formed
  <1>5. r.code <= Len(code)
    BY <1>2, Typed
  <1>6. /\ UNCHANGED <<now, user, mails, code, pair, blacklist, refreshed, loggedOut, verifications>>
        /\ failures' = failures \/ (failures' = failures + 1 /\ failures < MaxFailures)
        /\ mails' \in 0..MaxCodes
    BY Typed DEF Present, Admitted, CanFail
  <1>7. failures' \in 0..MaxFailures
    BY <1>6, Typed, BoundsTyped
  <1>8. user' \in {"none", "registered", "verified"} /\ verifications' \in 0..MaxVerifications
    BY <1>6 DEF Inv, TypeOK
  <1>. QED
    BY <1>1, <1>2, <1>3, <1>4, <1>5, <1>6, <1>7, <1>8, QuietStep

LEMMA FailStep ==
    ASSUME Inv, NEW q \in Requests, Fail(q)
    PROVE  Inv'
  <1>1. PICK r \in Request : r = Idle /\ r.at = "idle" /\ r.code = 0 /\ r.pair = 0
    BY IdleTyped
  <1>2. req' = [req EXCEPT ![q] = r]
    BY <1>1 DEF Fail, Done
  <1>3. Formed(r) /\ r.code <= Len(code) /\ r.pair <= Len(pair)
    BY <1>1, Typed DEF Formed
  <1>4. /\ UNCHANGED <<now, user, mails, code, pair, blacklist, refreshed, loggedOut, verifications>>
        /\ failures' = failures + 1 /\ failures < MaxFailures /\ mails' \in 0..MaxCodes
    BY Typed DEF Fail, CanFail
  <1>5. failures' \in 0..MaxFailures
    BY <1>4, Typed, BoundsTyped
  <1>6. user' \in {"none", "registered", "verified"} /\ verifications' \in 0..MaxVerifications
    BY <1>4 DEF Inv, TypeOK
  <1>. QED
    BY <1>1, <1>2, <1>3, <1>4, <1>5, <1>6, QuietStep

------------------------------------------------------------------------------
(* The steps that change a code. *)

LEMMA CodeStep ==
    ASSUME Inv, Advance, NEW q \in Requests, NEW r \in Request, req' = [req EXCEPT ![q] = r],
           Formed(r)', r.code <= Len(code'), r.pair <= Len(pair'),
           UNCHANGED <<now, user, mails, blacklist, refreshed, loggedOut, verifications, failures>>,
           \A i \in DOMAIN code' : Counted(code'[i]),
           \A p \in DOMAIN pair : pair'[p].iat = pair[p].iat,
           Comparisons', InOrder', LastStands', Owed' \subseteq Owed
    PROVE  Inv'
  <1>1. /\ req' \in [Requests -> Request]
        /\ \A s \in Requests : req'[s].code <= Len(code') /\ req'[s].pair <= Len(pair')
        /\ (\A s \in Requests : Formed(req[s]))'
    BY Moves
  <1>2. DOMAIN pair \subseteq DOMAIN pair'
    BY Typed, LenProperties DEF Advance
  <1>3. TypeOK'
    BY <1>1, <1>2 DEF Inv, TypeOK, Advance
  <1>4. (\A i \in DOMAIN code : Counted(code[i]))'
    BY DEF Counted
  <1>5. ExchangedStaysRefused'
    BY ExchangedStays
  <1>6. Cardinality(Owed') <= failures'
    BY OwedStays, Typed
  <1>. QED
    BY <1>1, <1>3, <1>4, <1>5, <1>6 DEF Inv

\* Where no code and no pair is added, what is left to see is what becomes of the codes.
LEMMA SameCodesStep ==
    ASSUME Inv, NEW q \in Requests, NEW r \in Request, req' = [req EXCEPT ![q] = r],
           code' \in Seq(Code), Len(code') = Len(code),
           \A i \in DOMAIN code : /\ Counted(code'[i])
                                  /\ code'[i].attempts >= code[i].attempts
                                  /\ code'[i].compared = code[i].compared
                                  /\ code'[i].created = code[i].created
                                  /\ code[i].isUsed => code'[i].isUsed,
           Formed(r)', r.code <= Len(code), r.pair <= Len(pair),
           UNCHANGED <<now, user, mails, pair, blacklist, refreshed, loggedOut, verifications, failures>>,
           r.at \notin {"counting", "opening"}, req[q].at # "opening", LastStands'
    PROVE  Inv'
  <1>1. DOMAIN code' = DOMAIN code
    BY LenProperties, Typed
  <1>2. Advance
    BY Typed DEF Advance, Inv, TypeOK
  <1>3. \A s \in Requests : req'[s] = IF s = q THEN r ELSE req[s]
    BY Typed
  <1>4. Comparisons'
    <2>1. ASSUME NEW i \in DOMAIN code
          PROVE  code'[i].compared + Cardinality(Pending(i)')
                    <= OtpMaxAttempts + Cardinality(Requests) - 1
      BY <1>3, ComparisonsStay DEF Pending
    <2>. QED
      BY <1>1, <2>1 DEF Comparisons
  <1>5. Owed' \subseteq Owed
    BY <1>3 DEF Owed
  <1>6. InOrder'
    BY <1>1, OrderStays, Typed
  <1>. QED
    BY <1>1, <1>2, <1>4, <1>5, <1>6, CodeStep

LEMMA InvalidateStep ==
    ASSUME Inv, NEW q \in Requests, invalidateOldOtps(q)
    PROVE  Inv'
  <1>1. PICK r \in Request :
           /\ r.at = "mailing" /\ r.code = req[q].code /\ r.pair = req[q].pair
           /\ req' = [req EXCEPT ![q] = r]
    BY GotoIs DEF invalidateOldOtps
  <1>2. \A i \in DOMAIN code : [code[i] EXCEPT !.isUsed = TRUE] \in Code
    BY Typed DEF Code
  <1>3. /\ code' \in [1..Len(code) -> Code]
        /\ \A i \in DOMAIN code : code'[i] = [code[i] EXCEPT !.isUsed = TRUE]
    BY <1>2, Typed DEF invalidateOldOtps, Invalidated
  <1>4. code' \in Seq(Code)
    BY <1>3, Typed, SeqDef
  <1>5. Len(code') = Len(code)
    BY <1>3, <1>4, Typed, LenProperties
  <1>6. ASSUME NEW i \in DOMAIN code
        PROVE  /\ Counted(code'[i])
               /\ code'[i].attempts = code[i].attempts /\ code'[i].attempts >= code[i].attempts
               /\ code'[i].compared = code[i].compared
               /\ code'[i].mail = code[i].mail /\ code'[i].opened = code[i].opened
               /\ code'[i].created = code[i].created
               /\ code[i].isUsed => code'[i].isUsed
    <2>1. PICK c \in Code : c = code[i] /\ Counted(c)
      BY Typed
    <2>2. LET d == [c EXCEPT !.isUsed = TRUE]
          IN  /\ d.isUsed /\ d.attempts = c.attempts /\ d.compared = c.compared
              /\ d.attempts \in Nat
              /\ d.mail = c.mail /\ d.opened = c.opened /\ d.created = c.created
      BY DEF Code
    <2>3. PICK d : d = [c EXCEPT !.isUsed = TRUE]
      OBVIOUS
    <2>4. /\ d.isUsed /\ d.attempts = c.attempts /\ d.compared = c.compared /\ d.attempts \in Nat
          /\ d.mail = c.mail /\ d.opened = c.opened /\ d.created = c.created
      BY <2>2, <2>3
    <2>5. Counted(d)
      BY <2>1, <2>4 DEF Counted
    <2>6. d = code'[i]
      BY <1>3, <2>1, <2>3
    <2>. QED
      BY <2>1, <2>4, <2>5, <2>6
  <1>7. Formed(r)'
    BY <1>1 DEF Formed
  <1>8. LastStands'
    <2>1. \A s \in Requests : req'[s] = IF s = q THEN r ELSE req[s]
      BY <1>1, Typed
    <2>2. q \in InFlight({"mailing"})'
      BY <1>1, <2>1 DEF InFlight
    <2>3. \A i : Standing(i)'
      BY <2>2 DEF Standing
    <2>4. DOMAIN code' = DOMAIN code
      BY <1>4, <1>5, LenProperties, Typed
    <2>5. /\ failures' >= failures /\ failures' \in Nat /\ mails' = mails
          /\ req[q].at = "invalidating"
      BY Typed DEF invalidateOldOtps
    <2>. QED
      BY <1>6, <2>1, <2>3, <2>4, <2>5, LastStays
  <1>9. r.code <= Len(code) /\ r.pair <= Len(pair) /\ req[q].at = "invalidating"
    BY <1>1, Typed DEF invalidateOldOtps
  <1>. QED
    BY <1>1, <1>4, <1>5, <1>6, <1>7, <1>8, <1>9, SameCodesStep DEF invalidateOldOtps

LEMMA StoreOtpStep ==
    ASSUME Inv, NEW q \in Requests, StoreOtp(q)
    PROVE  Inv'
  <1>1. PICK r \in Request : /\ r = Idle /\ r.at = "idle" /\ r.code = 0 /\ r.pair = 0
    BY IdleTyped
  <1>2. req' = [req EXCEPT ![q] = r] /\ req[q].at = "storing"
    BY <1>1 DEF StoreOtp, Done
  <1>m. PICK m \in Nat : m = req[q].mail
    BY Typed DEF Request
  <1>3. PICK c \in Code : /\ c = NewCode(m) /\ ~c.isUsed /\ c.attempts = 0 /\ c.compared = 0
                          /\ c.opened = 0 /\ c.mail = m /\ c.created = now
    <2>1. PICK t \in 0..MaxTime, e \in Nat : t = now /\ e = now + OtpExpiry
      BY Typed, AuthAssumptions
    <2>2. LET c == [mail |-> m, created |-> t, expires |-> e, isUsed |-> FALSE,
                    attempts |-> 0, compared |-> 0, opened |-> 0]
          IN  /\ c \in Code /\ ~c.isUsed /\ c.attempts = 0 /\ c.compared = 0 /\ c.opened = 0
              /\ c.mail = m /\ c.created = t
      BY DEF Code
    <2>. QED
      BY <2>1, <2>2 DEF NewCode
  <1>4. PICK s \in Seq(Code), n \in Nat : s = code /\ n = Len(s) /\ n < MaxCodes
    BY Typed DEF StoreOtp
  <1>5. /\ Append(s, c) \in Seq(Code) /\ Len(Append(s, c)) = n + 1
        /\ \A i \in 1..n : Append(s, c)[i] = s[i]
        /\ Append(s, c)[n + 1] = c
    BY <1>4, AppendProperties
  <1>6. code' = Append(s, c)
    BY <1>m, <1>3, <1>4 DEF StoreOtp
  <1>7. /\ code' \in Seq(Code) /\ Len(code') = n + 1
        /\ \A i \in 1..n : code'[i] = code[i]
        /\ code'[n + 1] = c
        /\ DOMAIN code = 1..n /\ DOMAIN code' = 1..n + 1
    BY <1>4, <1>5, <1>6, LenProperties
  <1>8. Advance
    <2>1. \A i \in 1..n : code[i].attempts \in Nat
      BY <1>7, Typed DEF Code
    <2>2. \A i \in 1..n : code'[i].attempts >= code[i].attempts
      BY <1>7, <2>1
    <2>3. n < MaxCodes /\ pair' = pair
      BY <1>4 DEF StoreOtp
    <2>4. n + 1 <= MaxCodes
      BY <2>3, BoundsTyped
    <2>. QED
      BY <1>4, <1>7, <2>2, <2>3, <2>4, Typed DEF Advance, Inv, TypeOK
  <1>9. \A x \in Requests : req'[x] = IF x = q THEN r ELSE req[x]
    BY <1>2, Typed
  <1>10. \A i \in DOMAIN code' : Counted(code'[i])
    <2>1. Counted(c)
      BY <1>3 DEF Counted
    <2>. QED
      BY <1>7, <2>1, Typed
  <1>11. Comparisons'
    <2>1. ASSUME NEW i \in 1..n
          PROVE  code'[i].compared + Cardinality(Pending(i)')
                    <= OtpMaxAttempts + Cardinality(Requests) - 1
      BY <1>1, <1>7, <1>9, ComparisonsStay DEF Pending
    <2>2. Pending(n + 1)' = {}
      <3>1. \A x \in Requests : req'[x].code # n + 1
        BY <1>1, <1>4, <1>9, Typed
      <3>. QED
        BY <3>1 DEF Pending
    <2>3. code'[n + 1].compared + Cardinality(Pending(n + 1)')
             <= OtpMaxAttempts + Cardinality(Requests) - 1
      <3>1. Cardinality(Pending(n + 1)') = 0
        BY <2>2, FS_EmptySet
      <3>2. Cardinality(Requests) \in Nat /\ OtpMaxAttempts \in Nat \ {0}
        BY AuthAssumptions, FS_CardinalityType
      <3>. QED
        BY <1>3, <1>7, <3>1, <3>2
    <2>. QED
      BY <1>7, <2>1, <2>3 DEF Comparisons
  <1>12. LastStands'
    <2>1. mails' = mails /\ failures' = failures
      BY DEF StoreOtp
    <2>2. CASE m = mails
      <3>1. n + 1 \in DOMAIN code' /\ code'[n + 1].mail = mails' /\ ~code'[n + 1].isUsed
        BY <1>3, <1>7, <2>1, <2>2
      <3>. QED
        BY <3>1 DEF LastStands, Standing
    <2>3. CASE m # mails
      <3>1. ASSUME NEW i \in DOMAIN code, code[i].mail = mails, Standing(i)
            PROVE  i \in DOMAIN code' /\ code'[i].mail = mails' /\ Standing(i)'
        <4>1. i \in DOMAIN code' /\ code'[i] = code[i]
          BY <1>7
        <4>2. ASSUME NEW x \in InFlight({"marking", "opening"})
              PROVE  x \in InFlight({"marking", "opening"})' /\ req'[x].code = req[x].code
          BY <1>2, <1>9 DEF InFlight
        <4>3. ASSUME NEW x \in InFlight({"mailing"}) PROVE x \in InFlight({"mailing"})'
          BY <1>2, <1>9 DEF InFlight
        <4>. QED
          BY <2>1, <3>1, <4>1, <4>2, <4>3 DEF Standing
      <3>2. ASSUME NEW x \in InFlight({"storing"}), req[x].mail = mails
            PROVE  x \in InFlight({"storing"})' /\ req'[x].mail = mails'
        BY <1>m, <1>9, <2>1, <2>3, <3>2 DEF InFlight
      <3>. QED
        BY <2>1, <3>1, <3>2 DEF Inv, LastStands
    <2>. QED
      BY <2>2, <2>3
  <1>order. InOrder'
    <2>1. \A i \in 1..n : /\ code[i].created \in Nat /\ code[i].created <= now
                          /\ \A j \in 1..n : i <= j => code[i].created <= code[j].created
      <3>1. MaxTime \in Nat
        BY BoundsTyped
      <3>2. \A i \in 1..n : code[i].created \in 0..MaxTime
        BY <1>7, Typed DEF Code
      <3>3. \A i \in 1..n : code[i].created \in Nat
        BY <3>1, <3>2
      <3>4. \A j \in 1..n : /\ code[j].created <= now
                            /\ \A i \in 1..n : i <= j => code[i].created <= code[j].created
        BY <1>7 DEF Inv, InOrder
      <3>. QED
        BY <3>3, <3>4
    <2>2. now' = now /\ now \in Nat
      BY Typed DEF StoreOtp
    <2>3. \A i \in 1..n : code'[i].created = code[i].created
      BY <1>7
    <2>4. code'[n + 1].created = now
      BY <1>3, <1>7
    <2>5. ASSUME NEW j \in 1..n + 1
          PROVE  /\ code'[j].created <= now'
                 /\ \A i \in 1..n + 1 : i <= j => code'[i].created <= code'[j].created
      <3>1. CASE j = n + 1
        BY <2>1, <2>2, <2>3, <2>4, <3>1
      <3>2. CASE j # n + 1
        <4>1. j \in 1..n /\ (\A i \in 1..n + 1 : i <= j => i \in 1..n)
          BY <3>2
        <4>. QED
          BY <2>1, <2>2, <2>3, <4>1
      <3>. QED
        BY <3>1, <3>2
    <2>. QED
      BY <1>7, <2>5 DEF InOrder
  <1>13. Owed' \subseteq Owed
    BY <1>1, <1>2, <1>9 DEF Owed, StoreOtp
  <1>14. Formed(r)' /\ r.code <= Len(code') /\ r.pair <= Len(pair')
    BY <1>1, <1>7, Typed DEF Formed, StoreOtp
  <1>. QED
    BY <1>2, <1>8, <1>10, <1>11, <1>12, <1>order, <1>13, <1>14, CodeStep DEF StoreOtp

LEMMA CodeReplaced ==
    ASSUME Inv, NEW i \in DOMAIN code, NEW d \in Code, code' = [code EXCEPT ![i] = d]
    PROVE  /\ code' \in Seq(Code) /\ Len(code') = Len(code) /\ DOMAIN code' = DOMAIN code
           /\ \A k \in DOMAIN code : code'[k] = IF k = i THEN d ELSE code[k]
  <1>1. PICK s \in Seq(Code) : s = code
    BY Typed
  <1>2. i \in 1..Len(s) /\ DOMAIN code = 1..Len(s)
    BY <1>1, Typed
  <1>3. /\ [s EXCEPT ![i] = d] \in Seq(Code) /\ Len([s EXCEPT ![i] = d]) = Len(s)
        /\ \A k \in 1..Len(s) : [s EXCEPT ![i] = d][k] = IF k = i THEN d ELSE s[k]
    BY <1>2, ExceptSeq
  <1>4. /\ code' \in Seq(Code) /\ Len(code') = Len(s)
        /\ \A k \in 1..Len(s) : code'[k] = IF k = i THEN d ELSE s[k]
    BY <1>1, <1>3
  <1>5. DOMAIN code' = 1..Len(s)
    BY <1>4, LenProperties
  <1>. QED
    BY <1>1, <1>2, <1>4, <1>5

LEMMA CountAttemptStep ==
    ASSUME Inv, NEW q \in Requests, NEW right \in BOOLEAN, CountAttempt(q, right)
    PROVE  Inv'
  <1>1. PICK i \in DOMAIN code, m \in Nat :
           /\ i = req[q].code /\ m = req[q].attempts /\ m <= code[i].attempts
           /\ req[q].at = "counting"
    BY Typed DEF CountAttempt, Formed, Request
  <1>2. PICK c \in Code : c = code[i] /\ Counted(c)
    BY Typed
  <1>3. PICK a \in Nat, b \in Nat :
           a = c.attempts + 1 /\ b = c.compared + (IF m + 1 > OtpMaxAttempts THEN 0 ELSE 1)
    BY DEF Code
  <1>tooMany. /\ m + 1 > OtpMaxAttempts => b = c.compared
              /\ ~(m + 1 > OtpMaxAttempts) => b = c.compared + 1
              /\ a > m /\ a > c.attempts /\ a >= b
    <2>1. /\ c.attempts \in Nat /\ c.compared \in Nat /\ m <= c.attempts
          /\ c.compared <= c.attempts
      BY <1>1, <1>2 DEF Code, Counted
    <2>. QED
      BY <1>3, <2>1
  <1>4. PICK d \in Code : /\ d = [c EXCEPT !.attempts = a, !.compared = b]
                          /\ d.attempts = a /\ d.compared = b /\ d.opened = c.opened
                          /\ d.mail = c.mail /\ d.created = c.created
                          /\ (d.isUsed <=> c.isUsed)
    <2>. DEFINE e == [c EXCEPT !.attempts = a, !.compared = b]
    <2>1. /\ e \in Code /\ e.attempts = a /\ e.compared = b /\ e.opened = c.opened
          /\ e.isUsed = c.isUsed /\ e.mail = c.mail /\ e.created = c.created
      BY DEF Code
    <2>. HIDE DEF e
    <2>. QED
      BY <2>1 DEF e
  <1>5. code' = [code EXCEPT ![i] = d]
    <2>1. code' = [code EXCEPT ![i].attempts = @ + 1,
                               ![i].compared = @ + IF m + 1 > OtpMaxAttempts THEN 0 ELSE 1]
      BY <1>1 DEF CountAttempt
    <2>. QED
      BY <1>2, <1>3, <1>4, <2>1, Typed
  <1>6. /\ code' \in Seq(Code) /\ Len(code') = Len(code) /\ DOMAIN code' = DOMAIN code
        /\ \A k \in DOMAIN code : code'[k] = IF k = i THEN d ELSE code[k]
    BY <1>5, CodeReplaced
  <1>7. /\ c.attempts \in Nat /\ c.compared \in Nat /\ c.opened \in Nat
        /\ OtpMaxAttempts \in Nat
    BY AuthAssumptions DEF Code
  <1>8. PICK at \in {"retiring", "using", "idle"}, r \in Request :
           /\ req' = [req EXCEPT ![q] = r] /\ r.at = at /\ r.code <= Len(code)
           /\ r.pair <= Len(pair)
           /\ at = "retiring" => m + 1 > OtpMaxAttempts
           /\ at # "idle" => r.code = i
    <2>1. CASE Goto(q, "retiring") /\ m + 1 > OtpMaxAttempts
      BY <1>1, <2>1, GotoIs, Typed
    <2>2. CASE Goto(q, "using")
      BY <1>1, <2>2, GotoIs, Typed
    <2>3. CASE Done(q)
      <3>1. PICK r \in Request : r = Idle /\ r.at = "idle" /\ r.code = 0 /\ r.pair = 0
        BY IdleTyped
      <3>2. req' = [req EXCEPT ![q] = r]
        BY <2>3, <3>1 DEF Done
      <3>3. r.code <= Len(code) /\ r.pair <= Len(pair)
        BY <3>1, Typed
      <3>. QED
        BY <3>1, <3>2, <3>3
    <2>. QED
      BY <1>1, <2>1, <2>2, <2>3 DEF CountAttempt
  <1>9. \A s \in Requests : req'[s] = IF s = q THEN r ELSE req[s]
    BY <1>8, Typed
  <1>10. \A k \in DOMAIN code : /\ Counted(code'[k])
                                /\ code'[k].attempts >= code[k].attempts
                                /\ code'[k].isUsed <=> code[k].isUsed
                                /\ code'[k].opened = code[k].opened
                                /\ code'[k].mail = code[k].mail
                                /\ code'[k].created = code[k].created
    <2>1. Counted(d)
      BY <1>2, <1>4, <1>tooMany DEF Counted
    <2>2. \A k \in DOMAIN code : code[k].attempts \in Nat
      BY Typed DEF Code
    <2>. QED
      <3>1. ASSUME NEW k \in DOMAIN code, k # i
            PROVE  code'[k] = code[k] /\ Counted(code[k])
        BY <1>6, <3>1, Typed
      <3>2. code'[i] = d /\ d.attempts >= c.attempts /\ d.opened = c.opened
        BY <1>4, <1>6, <1>7, <1>tooMany
      <3>3. ASSUME NEW k \in DOMAIN code
            PROVE  /\ Counted(code'[k]) /\ code'[k].attempts >= code[k].attempts
                   /\ code'[k].isUsed <=> code[k].isUsed
                   /\ code'[k].opened = code[k].opened
                   /\ code'[k].mail = code[k].mail
                   /\ code'[k].created = code[k].created
        <4>1. CASE k # i
          BY <2>2, <3>1, <4>1
        <4>2. CASE k = i
          <5>1. code'[k] = d /\ code[k] = c
            BY <1>2, <3>2, <4>2
          <5>2. /\ (d.isUsed <=> c.isUsed) /\ Counted(d)
                /\ d.mail = c.mail /\ d.created = c.created
            BY <1>4, <2>1
          <5>. QED
            BY <3>2, <5>1, <5>2
        <4>. QED
          BY <4>1, <4>2
      <3>. QED
        BY <3>3
  <1>11. Advance
    <2>1. /\ code' \in Seq(Code) /\ Len(code) <= Len(code') /\ Len(code') <= MaxCodes
      BY <1>6, Typed DEF Inv, TypeOK
    <2>2. \A k \in DOMAIN code : /\ code'[k].attempts >= code[k].attempts
                                 /\ code[k].isUsed => code'[k].isUsed
      BY <1>10
    <2>3. pair' \in Seq(Pair) /\ Len(pair) <= Len(pair') /\ Len(pair') <= MaxPairs
      BY Typed DEF CountAttempt, Inv, TypeOK
    <2>. QED
      BY <2>1, <2>2, <2>3 DEF Advance
  <1>12. Formed(r)'
    <2>1. r.at = "retiring" => code'[r.code].attempts > OtpMaxAttempts
      <3>1. a > OtpMaxAttempts \/ r.at # "retiring"
        BY <1>7, <1>8, <1>tooMany
      <3>. QED
        BY <1>4, <1>6, <1>8, <3>1
    <2>. QED
      BY <1>6, <1>8, <2>1 DEF Formed
  <1>13. Comparisons'
    <2>1. ASSUME NEW k \in DOMAIN code, k # i
          PROVE  code'[k].compared + Cardinality(Pending(k)')
                    <= OtpMaxAttempts + Cardinality(Requests) - 1
      BY <1>6, <1>8, <1>9, <2>1, ComparisonsStay DEF Pending
    <2>2. code'[i].compared + Cardinality(Pending(i)')
             <= OtpMaxAttempts + Cardinality(Requests) - 1
      <3>1. CASE m + 1 > OtpMaxAttempts
        <4>1. code'[i].compared = code[i].compared
          BY <1>2, <1>4, <1>6, <1>tooMany, <3>1
        <4>. QED
          BY <1>8, <1>9, <4>1, ComparisonsStay DEF Pending
      <3>2. CASE ~(m + 1 > OtpMaxAttempts)
        <4>1. PICK S \in SUBSET Requests : S = Pending(i)
          BY DEF Pending
        <4>2. PICK T \in SUBSET Requests : T = Pending(i)'
          BY DEF Pending
        <4>3. q \in S
          BY <1>1, <1>7, <3>2, <4>1 DEF Pending
        <4>4. T \subseteq S \ {q}
          BY <1>8, <1>9, <4>1, <4>2 DEF Pending
        <4>5. PICK R \in SUBSET Requests : R = S \ {q} /\ Cardinality(R) = Cardinality(S) - 1
          BY <4>3, PendingTyped
        <4>6. /\ Cardinality(T) <= Cardinality(R) /\ Cardinality(T) \in Nat
              /\ Cardinality(R) \in Nat
          BY <4>4, <4>5, PendingTyped
        <4>7. Cardinality(S) \in Nat /\ Cardinality(Requests) \in Nat
          BY PendingTyped
        <4>8. c.compared + Cardinality(S) <= OtpMaxAttempts + Cardinality(Requests) - 1
          BY <1>2, <4>1 DEF Inv, Comparisons
        <4>9. code'[i].compared = c.compared + 1
          BY <1>4, <1>6, <1>tooMany, <3>2
        <4>. QED
          BY <1>7, <4>2, <4>5, <4>6, <4>7, <4>8, <4>9
      <3>. QED
        BY <3>1, <3>2
    <2>. QED
      BY <1>6, <2>1, <2>2 DEF Comparisons
  <1>14. LastStands'
    <2>1. \A k \in DOMAIN code : code[k].attempts > OtpMaxAttempts =>
                                    code'[k].attempts > OtpMaxAttempts
      <3>1. ASSUME NEW k \in DOMAIN code PROVE code[k].attempts \in Nat /\ code'[k].attempts \in Nat
        BY <1>6, Typed, ElementOfSeq DEF Code
      <3>. QED
        BY <1>7, <1>10, <3>1
    <2>2. failures' >= failures /\ failures' \in Nat /\ mails' = mails
      BY Typed DEF CountAttempt
    <2>. QED
      BY <1>1, <1>6, <1>9, <1>10, <2>1, <2>2, LastStays
  <1>order. InOrder'
    <2>1. now' = now
      BY DEF CountAttempt
    <2>2. now' >= now /\ now' \in Nat
      BY <2>1, Typed
    <2>3. DOMAIN code' = DOMAIN code /\ \A k \in DOMAIN code : code'[k].created = code[k].created
      BY <1>6, <1>10
    <2>. QED
      BY <2>2, <2>3, OrderStays
  <1>15. Owed' \subseteq Owed
    BY <1>1, <1>9 DEF Owed, CountAttempt
  <1>16. /\ \A k \in DOMAIN code' : Counted(code'[k])
         /\ \A p \in DOMAIN pair : pair'[p].iat = pair[p].iat
         /\ r.code <= Len(code') /\ r.pair <= Len(pair')
    BY <1>6, <1>8, <1>10 DEF CountAttempt
  <1>. QED
    BY <1>8, <1>11, <1>12, <1>13, <1>14, <1>order, <1>15, <1>16, CodeStep DEF CountAttempt

LEMMA UseCodeStep ==
    ASSUME Inv, NEW q \in Requests, UseCode(q)
    PROVE  Inv'
  <1>1. PICK i \in DOMAIN code :
           /\ i = req[q].code /\ req[q].at \in {"using", "retiring"}
           /\ req[q].at = "retiring" => code[i].attempts > OtpMaxAttempts
    BY Typed DEF UseCode, Formed
  <1>2. PICK c \in Code : c = code[i] /\ Counted(c)
    BY Typed
  <1>3. PICK d \in Code : /\ d = [c EXCEPT !.isUsed = TRUE]
                          /\ d.isUsed /\ d.attempts = c.attempts /\ d.compared = c.compared
                          /\ d.opened = c.opened /\ d.mail = c.mail /\ d.created = c.created
    <2>. DEFINE e == [c EXCEPT !.isUsed = TRUE]
    <2>1. /\ e \in Code /\ e.isUsed /\ e.attempts = c.attempts /\ e.compared = c.compared
          /\ e.opened = c.opened /\ e.mail = c.mail /\ e.created = c.created
      BY DEF Code
    <2>. HIDE DEF e
    <2>. QED
      BY <2>1 DEF e
  <1>4. code' = [code EXCEPT ![i] = d]
    BY <1>1, <1>2, <1>3, Typed DEF UseCode
  <1>5. /\ code' \in Seq(Code) /\ Len(code') = Len(code) /\ DOMAIN code' = DOMAIN code
        /\ \A k \in DOMAIN code : code'[k] = IF k = i THEN d ELSE code[k]
    BY <1>4, CodeReplaced
  <1>6. PICK r \in Request :
           /\ req' = [req EXCEPT ![q] = r] /\ r.code <= Len(code) /\ r.pair <= Len(pair)
           /\ r.at = IF req[q].at = "using" THEN "marking" ELSE "idle"
           /\ r.at = "marking" => r.code = i
    <2>1. CASE req[q].at = "using"
      BY <1>1, <2>1, GotoIs, Typed DEF UseCode
    <2>2. CASE req[q].at = "retiring"
      <3>1. PICK r \in Request : r = Idle /\ r.at = "idle" /\ r.code = 0 /\ r.pair = 0
        BY IdleTyped
      <3>2. req' = [req EXCEPT ![q] = r]
        BY <2>2, <3>1 DEF UseCode, Done
      <3>3. r.code <= Len(code) /\ r.pair <= Len(pair)
        BY <3>1, Typed
      <3>. QED
        BY <2>2, <3>1, <3>2, <3>3
    <2>. QED
      BY <1>1, <2>1, <2>2
  <1>7. ASSUME NEW k \in DOMAIN code
        PROVE  /\ Counted(code'[k])
               /\ code'[k].attempts = code[k].attempts /\ code'[k].attempts >= code[k].attempts
               /\ code'[k].compared = code[k].compared /\ code'[k].opened = code[k].opened
               /\ code'[k].mail = code[k].mail /\ code'[k].created = code[k].created
               /\ code[k].isUsed => code'[k].isUsed
    <2>1. CASE k # i
      <3>1. code'[k] = code[k] /\ Counted(code[k]) /\ code[k].attempts \in Nat
        BY <1>5, <2>1, Typed DEF Code
      <3>. QED
        BY <3>1
    <2>2. CASE k = i
      <3>1. code'[k] = d /\ code[k] = c
        BY <1>2, <1>5, <2>2
      <3>2. Counted(d) /\ d.attempts \in Nat
        BY <1>2, <1>3 DEF Counted, Code
      <3>. QED
        BY <1>3, <3>1, <3>2
    <2>. QED
      BY <2>1, <2>2
  <1>8. Formed(r)'
    <2>1. r.at = "marking" => code'[r.code].isUsed /\ r.code \in DOMAIN code'
      BY <1>3, <1>5, <1>6
    <2>. QED
      BY <1>6, <2>1 DEF Formed
  <1>9. LastStands'
    <2>1. \A s \in Requests : req'[s] = IF s = q THEN r ELSE req[s]
      BY <1>6, Typed
    <2>2. Standing(i)'
      <3>1. CASE req[q].at = "using"
        <4>1. q \in InFlight({"marking", "opening"})' /\ req'[q].code = i
          BY <1>6, <2>1, <3>1 DEF InFlight
        <4>. QED
          BY <4>1 DEF Standing
      <3>2. CASE req[q].at = "retiring"
        <4>1. code'[i].attempts > OtpMaxAttempts
          BY <1>1, <1>7, <3>2
        <4>. QED
          BY <4>1 DEF Standing
      <3>. QED
        BY <1>1, <3>1, <3>2
    <2>3. \A k \in DOMAIN code : code'[k].isUsed => code[k].isUsed \/ Standing(k)'
      BY <1>5, <2>2
    <2>4. failures' >= failures /\ failures' \in Nat /\ mails' = mails
      BY Typed DEF UseCode
    <2>. QED
      BY <1>1, <1>5, <1>7, <2>1, <2>3, <2>4, LastStays
  <1>. QED
    BY <1>1, <1>5, <1>6, <1>7, <1>8, <1>9, SameCodesStep DEF UseCode

LEMMA OpenSessionStep ==
    ASSUME Inv, NEW q \in Requests, OpenSession(q)
    PROVE  Inv'
  <1>1. PICK r \in Request : r = Idle /\ r.at = "idle" /\ r.code = 0 /\ r.pair = 0
    BY IdleTyped
  <1>2. /\ req' = [req EXCEPT ![q] = r] /\ req[q].at = "opening"
        /\ \A s \in Requests : req'[s] = IF s = q THEN r ELSE req[s]
    BY <1>1, Typed DEF OpenSession, Done
  <1>3. PICK p \in 0..MaxPairs, i \in 0..MaxCodes :
           /\ p = req[q].pair /\ i = req[q].code
           /\ i # 0 => i \in DOMAIN code /\ code[i].isUsed
    <2>1. req[q] \in Request /\ Formed(req[q])
      BY Typed
    <2>2. req[q].pair \in 0..MaxPairs /\ req[q].code \in 0..MaxCodes
      BY <2>1 DEF Request
    <2>3. req[q].code # 0 => code[req[q].code].isUsed
      BY <1>2, <2>1 DEF Formed
    <2>4. req[q].code # 0 => req[q].code \in DOMAIN code
      BY <2>2, Typed, BoundsTyped
    <2>. QED
      BY <2>2, <2>3, <2>4
  <1>4. PICK s \in Seq(Pair), n \in Nat : s = pair /\ n = Len(s) /\ n < MaxPairs
    BY Typed DEF OpenSession
  <1>5. PICK new \in Pair : new = [iat |-> now \div TicksPerSecond, from |-> p] /\ new.from = p
    <2>1. PICK t \in Nat : t = now \div TicksPerSecond
      BY Typed, Division, AuthAssumptions
    <2>2. [iat |-> t, from |-> p] \in Pair
      BY DEF Pair
    <2>. QED
      BY <2>1, <2>2
  <1>6. /\ Append(s, new) \in Seq(Pair) /\ Len(Append(s, new)) = n + 1
        /\ \A k \in 1..n : Append(s, new)[k] = s[k]
        /\ Append(s, new)[n + 1] = new
    BY <1>4, AppendProperties
  <1>7. pair' = Append(s, new)
    BY <1>3, <1>4, <1>5 DEF OpenSession
  <1>8. /\ pair' \in Seq(Pair) /\ Len(pair') = n + 1
        /\ \A k \in 1..n : pair'[k] = pair[k]
        /\ pair'[n + 1] = new
        /\ DOMAIN pair = 1..n /\ DOMAIN pair' = 1..n + 1
    BY <1>4, <1>6, <1>7, LenProperties
  <1>9. /\ code' \in Seq(Code) /\ Len(code') = Len(code) /\ DOMAIN code' = DOMAIN code
        /\ \A k \in DOMAIN code :
              /\ Counted(code'[k]) /\ code'[k].attempts = code[k].attempts
              /\ code'[k].compared = code[k].compared
              /\ code'[k].isUsed <=> code[k].isUsed
              /\ code[k].opened > 0 => code'[k].opened > 0
              /\ k = i => code'[k].opened > 0
              /\ code'[k].mail = code[k].mail /\ code'[k].created = code[k].created
    <2>1. CASE i = 0
      <3>1. code' = code
        BY <1>3, <2>1 DEF OpenSession
      <3>2. \A k \in DOMAIN code : k # 0
        BY Typed
      <3>. QED
        BY <2>1, <3>1, <3>2, Typed
    <2>2. CASE i # 0
      <3>1. PICK c \in Code : c = code[i] /\ Counted(c) /\ c.isUsed
        BY <1>3, <2>2, Typed
      <3>2. PICK o \in Nat : o = c.opened + 1 /\ o > 0
        BY DEF Code
      <3>3. PICK d \in Code : /\ d = [c EXCEPT !.opened = o]
                              /\ (d.isUsed <=> c.isUsed) /\ d.attempts = c.attempts
                              /\ d.compared = c.compared /\ d.opened = o
                              /\ d.mail = c.mail /\ d.created = c.created
        <4>. DEFINE e == [c EXCEPT !.opened = o]
        <4>1. /\ e \in Code /\ e.isUsed = c.isUsed /\ e.attempts = c.attempts
              /\ e.compared = c.compared /\ e.opened = o
              /\ e.mail = c.mail /\ e.created = c.created
          BY DEF Code
        <4>. HIDE DEF e
        <4>. QED
          BY <4>1 DEF e
      <3>4. code' = [code EXCEPT ![i] = d]
        BY <1>3, <2>2, <3>1, <3>2, <3>3, Typed DEF OpenSession
      <3>5. /\ code' \in Seq(Code) /\ Len(code') = Len(code) /\ DOMAIN code' = DOMAIN code
            /\ \A k \in DOMAIN code : code'[k] = IF k = i THEN d ELSE code[k]
        BY <1>3, <2>2, <3>4, CodeReplaced
      <3>6. Counted(d)
        BY <3>1, <3>3 DEF Counted
      <3>7. ASSUME NEW k \in DOMAIN code
            PROVE  /\ Counted(code'[k]) /\ code'[k].attempts = code[k].attempts
                   /\ code'[k].compared = code[k].compared
                   /\ code'[k].isUsed <=> code[k].isUsed
                   /\ code[k].opened > 0 => code'[k].opened > 0
                   /\ k = i => code'[k].opened > 0
                   /\ code'[k].mail = code[k].mail /\ code'[k].created = code[k].created
        <4>1. CASE k # i
          BY <3>5, <4>1, Typed
        <4>2. CASE k = i
          <5>1. code'[k] = d /\ code[k] = c
            BY <3>1, <3>5, <4>2
          <5>. QED
            BY <3>2, <3>3, <3>6, <5>1
        <4>. QED
          BY <4>1, <4>2
      <3>. QED
        BY <3>5, <3>7
    <2>. QED
      BY <2>1, <2>2
  <1>10. Advance
    <2>1. \A k \in DOMAIN code : code[k].attempts \in Nat
      BY Typed DEF Code
    <2>2. \A k \in DOMAIN code : code'[k].attempts >= code[k].attempts
      BY <1>9, <2>1
    <2>3. n + 1 <= MaxPairs
      BY <1>4, BoundsTyped
    <2>. QED
      BY <1>4, <1>8, <1>9, <2>2, <2>3 DEF Advance, Inv, TypeOK
  <1>11. Comparisons'
    <2>1. ASSUME NEW k \in DOMAIN code
          PROVE  code'[k].compared + Cardinality(Pending(k)')
                    <= OtpMaxAttempts + Cardinality(Requests) - 1
      <3>1. code'[k].compared = code[k].compared
        BY <1>9
      <3>2. \A x \in Requests :
               (req'[x].at = "counting" /\ req'[x].code = k /\ req'[x].attempts < OtpMaxAttempts)
                  => x \in Pending(k)
        BY <1>1, <1>2 DEF Pending
      <3>. QED
        BY <3>1, <3>2, ComparisonsStay
    <2>. QED
      BY <1>9, <2>1 DEF Comparisons
  <1>12. LastStands'
    <2>1. failures' >= failures /\ failures' \in Nat /\ mails' = mails
      BY Typed DEF OpenSession
    <2>2. \A k \in DOMAIN code :
             (req[q].at \in {"marking", "opening"} /\ req[q].code = k) => code'[k].opened > 0
      BY <1>3, <1>9
    <2>3. \A k \in DOMAIN code : code[k].attempts > OtpMaxAttempts =>
                                    code'[k].attempts > OtpMaxAttempts
      BY <1>9
    <2>. QED
      BY <1>2, <1>9, <2>1, <2>2, <2>3, LastStays
  <1>order. InOrder'
    <2>1. now' = now
      BY DEF OpenSession
    <2>2. now' >= now /\ now' \in Nat
      BY <2>1, Typed
    <2>3. DOMAIN code' = DOMAIN code /\ \A k \in DOMAIN code : code'[k].created = code[k].created
      BY <1>9
    <2>. QED
      BY <2>2, <2>3, OrderStays
  <1>13. Owed' \subseteq Owed
    <2>1. ASSUME NEW x \in Owed' PROVE x \in Owed
      <3>1. x \in refreshed /\ (\A k \in 1..n + 1 : pair'[k].from # x)
        BY <1>8 DEF Owed, OpenSession
      <3>2. \A k \in DOMAIN pair : pair[k].from # x
        BY <1>8, <3>1
      <3>3. x # p
        BY <1>4, <1>5, <1>8, <3>1
      <3>4. \A y \in Requests : ~(req[y].at = "opening" /\ req[y].pair = x)
        BY <1>2, <1>3, <3>3 DEF Owed
      <3>. QED
        BY <3>1, <3>2, <3>4 DEF Owed
    <2>. QED
      BY <2>1
  <1>14. /\ r.code <= Len(code') /\ r.pair <= Len(pair') /\ Formed(r)'
         /\ \A k \in DOMAIN code' : Counted(code'[k])
         /\ \A k \in DOMAIN pair : pair'[k].iat = pair[k].iat
    BY <1>1, <1>8, <1>9, Typed DEF Formed
  <1>. QED
    BY <1>2, <1>10, <1>11, <1>12, <1>order, <1>13, <1>14, CodeStep DEF OpenSession

------------------------------------------------------------------------------
(* The blacklist and the clock. *)

\* The entry of a refresh lasts until less than a second before the token expires.
LEMMA EntryLasts ==
    ASSUME Inv, NEW p \in DOMAIN pair, NEW out \in BOOLEAN
    PROVE  /\ KeyExpires(p, out) \in Nat
           /\ ~out => KeyExpires(p, out) > RefreshExp(p) - TicksPerSecond
  <1>1. PICK T \in Nat \ {0} : T = TicksPerSecond
    BY AuthAssumptions
  <1>2. PICK e \in Int : e = IF out THEN AccessExp(p) ELSE RefreshExp(p)
    <2>1. pair[p].iat \in Nat
      BY Typed DEF Pair
    <2>2. AccessExp(p) \in Int /\ RefreshExp(p) \in Int
      BY <2>1, AuthAssumptions DEF AccessExp, RefreshExp, Exp
    <2>. QED
      BY <2>2
  <1>3. PICK n \in Nat : n = now
    BY Typed
  <1>4. PICK left \in Int : left = (e - n) \div T /\ e - n < T * left + T
    <2>1. e - n \in Int
      OBVIOUS
    <2>. QED
      BY <2>1, Division
  <1>5. PICK k \in Nat : k = IF left > 1 THEN left ELSE 1
    OBVIOUS
  <1>6. KeyExpires(p, out) = n + k * T
    BY <1>1, <1>2, <1>3, <1>4, <1>5 DEF KeyExpires, Remaining
  <1>7. n + k * T \in Nat
    OBVIOUS
  <1>8. n + k * T > e - T
    <2>1. CASE left > 1
      BY <1>4, <1>5, <2>1
    <2>2. CASE ~(left > 1)
      <3>1. T * left <= T
        BY <2>2
      <3>2. k * T = T
        BY <1>5, <2>2
      <3>. QED
        BY <1>4, <3>1, <3>2
    <2>. QED
      BY <2>1, <2>2
  <1>. QED
    BY <1>1, <1>2, <1>6, <1>7, <1>8

LEMMA RevokeStep ==
    ASSUME Inv, NEW q \in Requests, Revoke(q)
    PROVE  Inv'
  <1>1. PICK p \in DOMAIN pair, out \in BOOLEAN :
           /\ p = req[q].pair /\ out = req[q].out
           /\ req[q].at = "revoking" /\ req[q].code = 0
    BY Typed DEF Revoke, Formed, Request
  <1>2. PICK e \in Nat : e = KeyExpires(p, out) /\ (~out => e > RefreshExp(p) - TicksPerSecond)
    BY EntryLasts
  <1>3. /\ blacklist' = [blacklist EXCEPT ![p] = e]
        /\ IF out THEN loggedOut' = loggedOut \cup {p} /\ refreshed' = refreshed /\ Done(q)
                  ELSE refreshed' = refreshed \cup {p} /\ loggedOut' = loggedOut
                       /\ Goto(q, "opening")
        /\ UNCHANGED <<now, user, mails, code, pair, verifications, failures>>
    BY <1>1, <1>2 DEF Revoke
  <1>4. PICK r \in Request :
           /\ req' = [req EXCEPT ![q] = r] /\ r.code = 0 /\ r.pair <= Len(pair)
           /\ r.at = IF out THEN "idle" ELSE "opening"
           /\ ~out => r.pair = p
    <2>1. CASE out
      <3>1. PICK r \in Request : r = Idle /\ r.at = "idle" /\ r.code = 0 /\ r.pair = 0
        BY IdleTyped
      <3>2. req' = [req EXCEPT ![q] = r]
        BY <1>3, <2>1, <3>1 DEF Done
      <3>3. r.pair <= Len(pair)
        BY <3>1, Typed
      <3>. QED
        BY <2>1, <3>1, <3>2, <3>3
    <2>2. CASE ~out
      BY <1>1, <1>3, <2>2, GotoIs, Typed
    <2>. QED
      BY <2>1, <2>2
  <1>5. Advance
    BY <1>3, NoAdvance
  <1>6. Formed(r)'
    BY <1>4 DEF Formed
  <1>7. /\ req' \in [Requests -> Request]
        /\ \A s \in Requests : req'[s] = IF s = q THEN r ELSE req[s]
        /\ \A s \in Requests : req'[s].code <= Len(code') /\ req'[s].pair <= Len(pair')
        /\ (\A s \in Requests : Formed(req[s]))'
    <2>1. r.code <= Len(code') /\ r.pair <= Len(pair')
      BY <1>3, <1>4, Typed
    <2>. QED
      BY <1>4, <1>5, <1>6, <2>1, Moves
  <1>8. TypeOK'
    <2>1. blacklist' \in [1..MaxPairs -> Nat]
      BY <1>3 DEF Inv, TypeOK
    <2>2. refreshed' \subseteq DOMAIN pair /\ loggedOut' \subseteq DOMAIN pair
      BY <1>3 DEF Inv, TypeOK
    <2>. QED
      BY <1>3, <1>7, <2>1, <2>2 DEF Inv, TypeOK
  <1>9. (\A i \in DOMAIN code : Counted(code[i]))'
    BY <1>3 DEF Inv, Counted
  <1>10. Comparisons'
    <2>1. ASSUME NEW i \in DOMAIN code
          PROVE  code'[i].compared + Cardinality(Pending(i)')
                    <= OtpMaxAttempts + Cardinality(Requests) - 1
      BY <1>3, <1>4, <1>7, ComparisonsStay DEF Pending
    <2>. QED
      BY <1>3, <2>1 DEF Comparisons
  <1>order. InOrder'
    BY <1>3 DEF Inv, InOrder
  <1>11. LastStands'
    <2>1. failures' >= failures /\ failures' \in Nat
      BY <1>3, Typed
    <2>. QED
      BY <1>1, <1>3, <1>7, <2>1, LastStays
  <1>12. ExchangedStaysRefused'
    <2>1. ASSUME NEW x \in refreshed' \ loggedOut'
          PROVE  blacklist'[x] > RefreshExp(x) - TicksPerSecond
      <3>1. CASE x = p
        <4>1. ~out
          BY <1>3, <2>1, <3>1
        <4>2. blacklist'[p] = e
          <5>1. p \in 1..MaxPairs
            <6>1. /\ DOMAIN pair = 1..Len(pair) /\ Len(pair) \in Nat /\ Len(pair) <= MaxPairs
                  /\ MaxPairs \in Nat
              BY Typed, BoundsTyped DEF Inv, TypeOK
            <6>. QED
              BY <6>1
          <5>. QED
            BY <1>3, <5>1 DEF Inv, TypeOK
        <4>. QED
          BY <1>2, <3>1, <4>1, <4>2
      <3>2. CASE x # p
        <4>1. x \in refreshed \ loggedOut
          BY <1>3, <3>2
        <4>2. blacklist'[x] = blacklist[x]
          BY <1>3, <3>2 DEF Inv, TypeOK
        <4>. QED
          BY <4>1, <4>2 DEF Inv, ExchangedStaysRefused
      <3>. QED
        BY <3>1, <3>2
    <2>2. \A x : RefreshExp(x)' = RefreshExp(x)
      BY <1>3 DEF RefreshExp, Exp
    <2>. QED
      BY <2>1, <2>2 DEF ExchangedStaysRefused
  <1>13. Owed' \subseteq Owed
    <2>1. ASSUME NEW x \in Owed' PROVE x \in Owed
      <3>1. /\ x \in refreshed' /\ \A n \in DOMAIN pair : pair[n].from # x
            /\ \A s \in Requests : ~(req'[s].at = "opening" /\ req'[s].pair = x)
        BY <1>3 DEF Owed
      <3>2. x \in refreshed
        BY <1>3, <1>4, <1>7, <3>1
      <3>3. \A s \in Requests : ~(req[s].at = "opening" /\ req[s].pair = x)
        BY <1>1, <1>7, <3>1
      <3>. QED
        BY <3>1, <3>2, <3>3 DEF Owed
    <2>. QED
      BY <2>1
  <1>14. Cardinality(Owed') <= failures'
    BY <1>3, <1>13, OwedStays, Typed
  <1>. QED
    BY <1>7, <1>8, <1>9, <1>10, <1>order, <1>11, <1>12, <1>14 DEF Inv

LEMMA TickStep ==
    ASSUME Inv, Tick \/ UNCHANGED vars
    PROVE  Inv'
  <1>1. UNCHANGED <<user, mails, code, pair, blacklist, req, refreshed, loggedOut, verifications,
                    failures>>
    BY DEF Tick, vars
  <1>2. now' \in 0..MaxTime /\ now' >= now /\ now' \in Nat
    BY Typed, BoundsTyped DEF Tick, vars
  <1>3. TypeOK'
    BY <1>1, <1>2 DEF Inv, TypeOK
  <1>4. (\A q \in Requests : Formed(req[q]))' /\ (\A i \in DOMAIN code : Counted(code[i]))'
    BY <1>1 DEF Inv, Formed, Counted
  <1>5. Comparisons'
    <2>1. \A i : Pending(i)' = Pending(i)
      BY <1>1 DEF Pending
    <2>. QED
      BY <1>1, <2>1 DEF Inv, Comparisons
  <1>6. LastStands'
    BY <1>1 DEF Inv, LastStands, Standing, InFlight
  <1>order. InOrder'
    BY <1>1, <1>2, OrderStays
  <1>7. ExchangedStaysRefused'
    BY <1>1, ExchangedStays
  <1>8. Owed' = Owed
    BY <1>1 DEF Owed
  <1>. QED
    BY <1>1, <1>3, <1>4, <1>5, <1>6, <1>order, <1>7, <1>8 DEF Inv

------------------------------------------------------------------------------
LEMMA InitOK == Init => Inv
  <1>. SUFFICES ASSUME Init PROVE Inv
    OBVIOUS
  <1>1. /\ code = <<>> /\ code \in Seq(Code) /\ Len(code) = 0 /\ DOMAIN code = {}
        /\ pair = <<>> /\ pair \in Seq(Pair) /\ Len(pair) = 0
    BY EmptySeq DEF Init
  <1>2. /\ req \in [Requests -> Request]
        /\ \A q \in Requests : req[q].at = "idle" /\ req[q].code = 0 /\ req[q].pair = 0
    BY IdleTyped DEF Init
  <1>3. TypeOK
    BY <1>1, <1>2, BoundsTyped DEF Init, TypeOK
  <1>4. \A q \in Requests : Formed(req[q])
    BY <1>2 DEF Formed
  <1>5. Cardinality(Owed) <= failures
    <2>1. Owed = {}
      BY DEF Init, Owed
    <2>. QED
      BY <2>1, FS_EmptySet DEF Init
  <1>. QED
    BY <1>1, <1>3, <1>4, <1>5
    DEF Init, Inv, Comparisons, InOrder, LastStands, ExchangedStaysRefused

LEMMA NextOK == Inv /\ [Next]_vars => Inv'
  <1>. SUFFICES ASSUME Inv, [Next]_vars PROVE Inv'
    OBVIOUS
  <1>1. ASSUME NEW q \in Requests, NEW p \in DOMAIN pair, RefreshToken(q, p) \/ Logout(q, p)
        PROVE  Inv'
    <2>1. Present(q, p, TRUE) \/ Present(q, p, FALSE)
      BY <1>1 DEF RefreshToken, Logout
    <2>. QED
      BY <2>1, PresentStep
  <1>. QED
    BY <1>1, QuietSteps, InvalidateStep, MailOtpStep, StoreOtpStep, VerifyOtpStep, CountAttemptStep,
       UseCodeStep, OpenSessionStep, RevokeStep, FailStep, TickStep DEF Next

LEMMA Invariance == Spec => []Inv
  BY InitOK, NextOK, PTL DEF Spec

\* Every variable stays in its set; a request is about codes and pairs there are.
THEOREM TypeCorrect == Spec => []TypeOK
  <1>1. Inv => TypeOK
    BY DEF Inv
  <1>. QED
    BY <1>1, Invariance, PTL

(***************************************************************************)
(* However verifications overlap, each code is compared with no more       *)
(* entries than OTP_MAX_ATTEMPTS and the other requests in flight          *)
(* (verifyOtp).                                                            *)
(***************************************************************************)
THEOREM AttemptsAreLimited == Spec => []ComparisonsAreLimited
  <1>1. Inv => ComparisonsAreLimited
    <2>. SUFFICES ASSUME Inv, NEW i \in DOMAIN code
                  PROVE  code[i].compared <= OtpMaxAttempts + Cardinality(Requests) - 1
      BY DEF ComparisonsAreLimited
    <2>1. PICK S \in SUBSET Requests : S = Pending(i)
      BY DEF Pending
    <2>2. Cardinality(S) \in Nat /\ Cardinality(Requests) \in Nat
      BY PendingTyped
    <2>3. code[i].compared + Cardinality(S) <= OtpMaxAttempts + Cardinality(Requests) - 1
      BY <2>1 DEF Inv, Comparisons
    <2>4. code[i].compared \in Nat /\ OtpMaxAttempts \in Nat
      BY Typed, AuthAssumptions DEF Code
    <2>. QED
      BY <2>2, <2>3, <2>4
  <1>. QED
    BY <1>1, Invariance, PTL

(***************************************************************************)
(* A verification that begins after a login does not find its code         *)
(* (verifyOtp).                                                            *)
(***************************************************************************)
THEOREM CodesAreUsedUp == Spec => []NoSecondLogin
  <1>1. Inv => NoSecondLogin
    <2>. SUFFICES ASSUME Inv, NEW i \in Valid PROVE code[i].opened = 0
      BY DEF NoSecondLogin
    <2>1. i \in DOMAIN code /\ ~code[i].isUsed
      BY DEF Valid
    <2>2. PICK c \in Code : c = code[i] /\ Counted(c)
      BY <2>1, Typed
    <2>3. c.opened \in Nat
      BY DEF Code
    <2>. QED
      BY <2>1, <2>2, <2>3 DEF Counted
  <1>. QED
    BY <1>1, Invariance, PTL

(***************************************************************************)
(* However requests for codes, verifications and the clock interleave, the *)
(* code mailed last is the one that is looked for, or it has expired, been *)
(* used or tried too often, or is being replaced, or a request that        *)
(* overlapped its own stored a code after it (sendOtp, register).          *)
(***************************************************************************)
THEOREM LastMailedStaysOpen == Spec => []LastMailedCanBeEntered
  <1>1. Inv => LastMailedCanBeEntered
    <2>. SUFFICES ASSUME Inv, mails > 0 PROVE LastMailedCanBeEntered
      BY DEF LastMailedCanBeEntered
    <2>1. ASSUME NEW i \in DOMAIN code, ~code[i].isUsed, ~(code[i].expires <= now),
                 \A j \in Valid : ~(j > i)
          PROVE  i \in Found
      <3>1. code[i].expires \in Nat /\ now \in Nat
        BY Typed DEF Code
      <3>2. i \in Valid
        BY <2>1, <3>1 DEF Valid
      <3>3. ASSUME NEW j \in Valid PROVE code[j].created <= code[i].created
        <4>1. j \in DOMAIN code /\ i \in Nat /\ j \in Nat
          BY <3>3, Typed DEF Valid
        <4>2. j <= i
          BY <2>1, <3>3, <4>1
        <4>. QED
          BY <4>1, <4>2 DEF Inv, InOrder
      <3>. QED
        BY <3>2, <3>3 DEF Found
    <2>. QED
      BY <2>1 DEF Inv, LastStands, Standing, LastMailedCanBeEntered
  <1>. QED
    BY <1>1, Invariance, PTL

(***************************************************************************)
(* The key of an exchanged token, with its lifetime rounded down to whole  *)
(* seconds, lasts until the token's last second (refreshToken).            *)
(***************************************************************************)
THEOREM ExchangedAreRefused == Spec => []ExchangedStaysRefused
  <1>1. Inv => ExchangedStaysRefused
    BY DEF Inv
  <1>. QED
    BY <1>1, Invariance, PTL

(***************************************************************************)
(* A session is lost by refreshing only to a failure between the           *)
(* revocation of a pair and the signing of the next (refreshToken).        *)
(***************************************************************************)
THEOREM FailuresLoseSessions == Spec => []RefreshKeepsTheSession
  <1>1. Inv => RefreshKeepsTheSession
    <2>. SUFFICES ASSUME Inv PROVE RefreshKeepsTheSession
      OBVIOUS
    <2>1. PICK lost : lost = {p \in refreshed : \A n \in DOMAIN pair : pair[n].from # p}
      OBVIOUS
    <2>2. PICK O \in SUBSET Requests : O = InFlight({"opening"})
      BY DEF InFlight
    <2>3. PICK f : f = [q \in O |-> req[q].pair]
      OBVIOUS
    <2>4. PICK T : T = {f[q] : q \in O}
      OBVIOUS
    <2>5. f \in Surjection(O, T)
      BY <2>3, <2>4 DEF Surjection
    <2>6. IsFiniteSet(O) /\ Cardinality(O) \in Nat
      BY PendingTyped
    <2>7. IsFiniteSet(T) /\ Cardinality(T) <= Cardinality(O)
      BY <2>5, <2>6, FS_Surjection
    <2>8. PICK W : W = Owed
      OBVIOUS
    <2>9. IsFiniteSet(W) /\ Cardinality(W) \in Nat /\ Cardinality(W) <= failures
      BY <2>8, OwedTyped DEF Inv
    <2>10. PICK U : U = W \cup T
      OBVIOUS
    <2>11. /\ IsFiniteSet(U) /\ Cardinality(U) = Cardinality(W) + Cardinality(T)
                                                  - Cardinality(W \cap T)
      BY <2>7, <2>9, <2>10, FS_Union
    <2>12. Cardinality(T) \in Nat /\ Cardinality(W \cap T) \in Nat
      BY <2>7, <2>9, FS_Intersection, FS_CardinalityType
    <2>13. lost \in SUBSET U
      <3>1. ASSUME NEW p \in lost, p \notin W PROVE p \in T
        <4>1. PICK q \in Requests : req[q].at = "opening" /\ req[q].pair = p
          BY <2>1, <2>8, <3>1 DEF Owed
        <4>2. q \in O
          BY <2>2, <4>1 DEF InFlight
        <4>. QED
          BY <2>3, <2>4, <4>1, <4>2
      <3>. QED
        BY <2>10, <3>1
    <2>14. IsFiniteSet(lost) /\ Cardinality(lost) <= Cardinality(U)
      BY <2>11, <2>13, FS_Subset
    <2>15. Cardinality(lost) \in Nat /\ Cardinality(U) \in Nat
      BY <2>11, <2>14, FS_CardinalityType
    <2>16. Cardinality(lost) <= failures + Cardinality(O)
      BY <2>6, <2>7, <2>9, <2>11, <2>12, <2>14, <2>15, Typed
    <2>. QED
      BY <2>1, <2>2, <2>16 DEF RefreshKeepsTheSession
  <1>. QED
    BY <1>1, Invariance, PTL
=============================================================================
