---------------------------- MODULE GroupCacheProofs ----------------------------
(***************************************************************************)
(* Proofs that an answered change shows in the list it concerns, for any   *)
(* members, readers, lifetime and bounds.                                  *)
(***************************************************************************)
EXTENDS GroupCache, TLAPS

\* A row only grows, so what was answered is at most what the row says now.
AnsweredWasWritten == \A u \in Users : answered[u] <= Own(u)

\* The same as AnsweredChangesShow of a list that is being read.
KeepsUp(s) ==
    /\ s.user = Null => s.missing = {}
    /\ (s.user \in Users /\ "own" \notin s.missing /\ ~s.late) =>
          s.list.own >= answered[s.user]
ReadsKeepUp == \A r \in Readers : KeepsUp(read[r])

Inv == TypeOK /\ AnsweredWasWritten /\ ReadsKeepUp /\ AnsweredChangesShow

------------------------------------------------------------------------------
LEMMA OwnTyped == TypeOK => \A u \in Users : Own(u) \in Nat
  BY DEF TypeOK, Own, Users

LEMMA IdleTyped ==
    /\ Idle \in Read /\ Idle.user = Null /\ Idle.missing = {} /\ Null \notin Users
    /\ KeepsUp(Idle)
  <1>1. Idle \in Read /\ Idle.user = Null /\ Idle.missing = {} /\ Null \notin Users
    BY CacheAssumptions DEF Idle, Read, NoList, NoMembers, List, Parts, Users
  <1>. QED
    BY <1>1 DEF KeepsUp

LEMMA SeenTyped ==
    ASSUME TypeOK, NEW own \in Nat
    PROVE  Seen(own) \in List
  <1>1. group \in Nat /\ period \in Nat /\ member \in [Members -> Nat]
    BY DEF TypeOK
  <1>2. NoMembers \in [Members -> Nat]
    BY DEF NoMembers
  <1>. QED
    BY <1>1, <1>2 DEF Seen, List, NoList

\* One more part has been read; only the first SELECT touches the own row.
LEMMA ExtendedTyped ==
    ASSUME TypeOK, NEW list \in List, NEW u \in Users, NEW part \in Parts
    PROVE  /\ Extended(list, u, part) \in List
           /\ Extended(list, u, part).own = IF part = "own" THEN Own(u) ELSE list.own
  <1>1. Own(u) \in Nat /\ Seen(list.own) \in List
    BY OwnTyped, SeenTyped DEF List
  <1>2. PICK own \in Nat, seen \in List : own = Own(u) /\ seen = Seen(list.own)
    BY <1>1
  <1>3. CASE part = "own"
    <2>1. Extended(list, u, part) = [list EXCEPT !.own = own]
      BY <1>2, <1>3 DEF Extended
    <2>. QED
      BY <1>2, <1>3, <2>1 DEF List
  <1>4. CASE part = "group"
    <2>1. Extended(list, u, part) = [list EXCEPT !.group = seen.group]
      BY <1>2, <1>4 DEF Extended
    <2>. QED
      BY <1>2, <1>4, <2>1 DEF List
  <1>5. CASE part = "members"
    <2>1. Extended(list, u, part) = [list EXCEPT !.members = seen.members]
      BY <1>2, <1>5 DEF Extended
    <2>. QED
      BY <1>2, <1>5, <2>1 DEF List
  <1>6. CASE part = "period"
    <2>1. Extended(list, u, part) = [list EXCEPT !.period = seen.period]
      BY <1>2, <1>6 DEF Extended
    <2>. QED
      BY <1>2, <1>6, <2>1 DEF List
  <1>. QED
    BY <1>3, <1>4, <1>5, <1>6 DEF Parts

LEMMA EntryOf ==
    ASSUME NEW old \in Read
    PROVE  \E entry \in Entry : /\ entry = [list |-> old.list, left |-> Ttl, late |-> old.late]
                                /\ entry.late = old.late /\ entry.list = old.list
  <1>. DEFINE entry == [list |-> old.list, left |-> Ttl, late |-> old.late]
  <1>1. Ttl \in 1..Ttl /\ old.list \in List /\ old.late \in BOOLEAN
    BY CacheAssumptions DEF Read
  <1>2. entry \in Entry /\ entry.list = old.list
    BY <1>1 DEF Entry
  <1>3. entry.late = old.late
    BY Zenon
  <1>. QED
    BY <1>2, <1>3

------------------------------------------------------------------------------
(* The readers. *)

\* A reader goes on as s; no row and nothing that was answered changes.
LEMMA ReadStep ==
    ASSUME Inv, NEW r \in Readers, NEW s \in Read, read' = [read EXCEPT ![r] = s],
           UNCHANGED <<rows, change, answered, changes>>, failures' \in 0..MaxFailures,
           KeepsUp(s), cache' \in [Users -> Entry \cup {Null}],
           AnsweredChangesShow'
    PROVE  Inv'
  <1>1. TypeOK'
    BY DEF Inv, TypeOK, rows
  <1>2. AnsweredWasWritten'
    BY DEF Inv, AnsweredWasWritten, Own, rows
  <1>3. \A x \in Readers : read'[x] = IF x = r THEN s ELSE read[x]
    BY DEF Inv, TypeOK
  <1>4. ReadsKeepUp'
    BY <1>3 DEF Inv, ReadsKeepUp, KeepsUp
  <1>. QED
    BY <1>1, <1>2, <1>4 DEF Inv

LEMMA CachedStays ==
    ASSUME Inv, UNCHANGED <<cache, answered>>
    PROVE  AnsweredChangesShow' /\ cache' \in [Users -> Entry \cup {Null}]
  BY DEF Inv, TypeOK, AnsweredChangesShow

LEMMA ReaderStep ==
    ASSUME Inv, NEW r \in Readers,
           (\E u \in Users : Miss(r, u)) \/ Fetch(r) \/ Store(r) \/ ReadFails(r)
    PROVE  Inv'
  <1>1. /\ read[r] \in Read /\ read \in [Readers -> Read] /\ failures \in 0..MaxFailures
        /\ MaxFailures \in Nat
    BY CacheAssumptions DEF Inv, TypeOK
  <1>2. failures' \in 0..MaxFailures
    <2>1. failures' = failures \/ CanFail
      BY DEF Miss, Fetch, Store, ReadFails
    <2>. QED
      BY <1>1, <2>1 DEF CanFail
  <1>3. ASSUME NEW u \in Users, Miss(r, u) PROVE Inv'
    <2>. DEFINE s == [Idle EXCEPT !.user = u, !.missing = Parts]
    <2>1. s \in Read /\ "own" \in s.missing /\ s.user # Null
      BY IdleTyped DEF Read, Parts
    <2>2. read' = [read EXCEPT ![r] = s] /\ UNCHANGED <<rows, cache, change, answered, changes>>
      BY <1>3 DEF Miss
    <2>3. KeepsUp(s)
      BY <2>1 DEF KeepsUp
    <2>. HIDE DEF s
    <2>. QED
      BY <1>2, <2>1, <2>2, <2>3, CachedStays, ReadStep
  <1>4. CASE Fetch(r)
    <2>1. PICK part \in Parts :
             /\ part = NextPart(read[r].missing)
             /\ part = "own" <=> "own" \in read[r].missing
      <3>1. CASE "own" \in read[r].missing
        BY <3>1 DEF NextPart, Parts
      <3>2. CASE "own" \notin read[r].missing
        BY <3>2 DEF NextPart, Parts
      <3>. QED
        BY <3>1, <3>2
    <2>2. CASE read[r].user \in Users
      <3>1. PICK list \in List :
               /\ list = Extended(read[r].list, read[r].user, part)
               /\ list.own = IF part = "own" THEN Own(read[r].user) ELSE read[r].list.own
        BY <1>1, <2>2, ExtendedTyped DEF Inv, Read
      <3>. DEFINE rest == read[r].missing \ {part}
      <3>2. rest \in SUBSET Parts
        BY <1>1 DEF Read
      <3>3. rest = read[r].missing \ {part}
        OBVIOUS
      <3>. HIDE DEF rest
      <3>4. PICK s \in Read :
               /\ read' = [read EXCEPT ![r] = s]
               /\ s.user = read[r].user /\ s.missing = rest
               /\ s.list = list /\ s.late = read[r].late
        <4>. DEFINE s == [read[r] EXCEPT !.missing = rest, !.list = list]
        <4>1. s \in Read /\ s.user = read[r].user /\ s.missing = rest /\ s.list = list
          BY <1>1, <3>2 DEF Read
        <4>2. s.late = read[r].late
          BY <1>1 DEF Read
        <4>3. read' = [read EXCEPT ![r] = s]
          BY <1>1, <1>4, <2>1, <3>1, <3>3 DEF Fetch
        <4>. QED
          BY <4>1, <4>2, <4>3
      <3>5. UNCHANGED <<rows, cache, change, answered, changes>>
        BY <1>4 DEF Fetch
      <3>6. ~s.late /\ "own" \notin s.missing => s.list.own >= answered[s.user]
        <4>1. CASE part = "own"
          <5>1. Own(s.user) >= answered[s.user]
            BY <2>2, <3>4, OwnTyped DEF Inv, TypeOK, AnsweredWasWritten
          <5>. QED
            BY <3>1, <3>4, <4>1, <5>1
        <4>2. CASE part # "own"
          BY <2>1, <2>2, <3>1, <3>3, <3>4, <4>2 DEF Inv, ReadsKeepUp, KeepsUp
        <4>. QED
          BY <4>1, <4>2
      <3>7. KeepsUp(s)
        BY <2>2, <3>4, <3>6, IdleTyped DEF KeepsUp
      <3>. QED
        BY <1>2, <3>4, <3>5, <3>7, CachedStays, ReadStep
    <2>3. read[r].user \in Users
      BY <1>1, <1>4 DEF Fetch, Inv, ReadsKeepUp, KeepsUp, Read
    <2>. QED
      BY <2>2, <2>3
  <1>5. CASE Store(r)
    <2>. DEFINE u == read[r].user
    <2>1. u \in Users /\ read[r].missing = {}
      BY <1>1, <1>5 DEF Store, Read
    <2>2. PICK entry \in Entry :
             /\ entry = [list |-> read[r].list, left |-> Ttl, late |-> read[r].late]
             /\ entry.late = read[r].late /\ entry.list = read[r].list
      BY <1>1, EntryOf
    <2>3. /\ cache' = [cache EXCEPT ![u] = entry] /\ read' = [read EXCEPT ![r] = Idle]
          /\ UNCHANGED <<rows, change, answered, changes, failures>>
      BY <1>5, <2>2 DEF Store
    <2>4. ~entry.late => entry.list.own >= answered[u]
      BY <2>1, <2>2 DEF Inv, ReadsKeepUp, KeepsUp
    <2>5. \A x \in Users : cache'[x] = IF x = u THEN entry ELSE cache[x]
      BY <2>3 DEF Inv, TypeOK
    <2>6. AnsweredChangesShow'
      BY <2>3, <2>4, <2>5 DEF Inv, AnsweredChangesShow
    <2>7. cache' \in [Users -> Entry \cup {Null}]
      BY <2>1, <2>3 DEF Inv, TypeOK
    <2>. QED
      BY <1>2, <2>3, <2>6, <2>7, IdleTyped, ReadStep
  <1>6. CASE ReadFails(r)
    <2>1. read' = [read EXCEPT ![r] = Idle] /\ UNCHANGED <<rows, cache, change, answered, changes>>
      BY <1>6 DEF ReadFails
    <2>. QED
      BY <1>2, <2>1, IdleTyped, CachedStays, ReadStep
  <1>. QED
    BY <1>3, <1>4, <1>5, <1>6

------------------------------------------------------------------------------
(* The changes. *)

\* A row is written; nothing has been answered yet.
LEMMA ChangeStep ==
    ASSUME Inv, group' \in Nat, period' \in Nat, member' \in [Members -> Nat],
           \A u \in Users : Own(u)' >= Own(u), change' \in Users \cup {Null},
           changes' \in 0..MaxChanges, UNCHANGED <<cache, read, answered, failures>>
    PROVE  Inv'
  <1>1. TypeOK'
    BY DEF Inv, TypeOK
  <1>2. AnsweredWasWritten'
    <2>1. \A u \in Users : Own(u) \in Nat /\ Own(u)' \in Nat /\ answered[u] \in Nat
      <3>1. \A u \in Users : Own(u)' \in Nat
        BY DEF Own, Users
      <3>. QED
        BY <3>1, OwnTyped DEF Inv, TypeOK
    <2>. QED
      BY <2>1 DEF Inv, AnsweredWasWritten
  <1>3. ReadsKeepUp' /\ AnsweredChangesShow'
    BY DEF Inv, ReadsKeepUp, KeepsUp, AnsweredChangesShow
  <1>. QED
    BY <1>1, <1>2, <1>3 DEF Inv

LEMMA ChangesStep ==
    ASSUME Inv,
           \/ CreateGroup \/ DeleteGroup \/ UpdateGroup
           \/ \E m \in Members : ChangeMember(m)
           \/ ChangePeriod
    PROVE  Inv'
  <1>1. /\ group \in Nat /\ period \in Nat /\ member \in [Members -> Nat]
        /\ changes \in 0..MaxChanges /\ MaxChanges \in Nat /\ change \in Users \cup {Null}
        /\ Host \in Users
    BY CacheAssumptions DEF Inv, TypeOK, Users
  <1>2. UNCHANGED <<cache, read, answered, failures>>
    BY DEF CreateGroup, DeleteGroup, UpdateGroup, ChangeMember, ChangePeriod, Change
  <1>3. CASE CreateGroup \/ DeleteGroup \/ UpdateGroup
    <2>1. /\ group' \in Nat /\ group' >= group /\ UNCHANGED <<member, period>>
          /\ change' = Host /\ changes' \in 0..MaxChanges
      BY <1>1, <1>3 DEF CreateGroup, DeleteGroup, UpdateGroup, Change
    <2>2. \A u \in Users : Own(u)' >= Own(u)
      BY <1>1, <2>1 DEF Own, Users
    <2>. QED
      BY <1>1, <1>2, <2>1, <2>2, ChangeStep
  <1>4. ASSUME NEW m \in Members, ChangeMember(m) PROVE Inv'
    <2>1. /\ member' = [member EXCEPT ![m] = member[m] + 1] /\ UNCHANGED <<group, period>>
          /\ change' = m /\ m \in Users /\ changes' \in 0..MaxChanges
      BY <1>1, <1>4 DEF ChangeMember, Change, Users
    <2>2. /\ member' \in [Members -> Nat]
          /\ \A x \in Members : member'[x] >= member[x]
      BY <1>1, <2>1
    <2>3. \A u \in Users : Own(u)' >= Own(u)
      BY <1>1, <2>1, <2>2 DEF Own, Users
    <2>. QED
      BY <1>1, <1>2, <2>1, <2>2, <2>3, ChangeStep
  <1>5. CASE ChangePeriod
    <2>1. /\ period' \in Nat /\ UNCHANGED <<group, member, change>> /\ changes' \in 0..MaxChanges
      BY <1>1, <1>5 DEF ChangePeriod
    <2>2. \A u \in Users : Own(u)' >= Own(u)
      BY <1>1, <2>1 DEF Own, Users
    <2>. QED
      BY <1>1, <1>2, <2>1, <2>2, ChangeStep
  <1>. QED
    BY <1>3, <1>4, <1>5

\* An answer makes late what is being read for its user, and what is kept is late or gone.
LEMMA AnswerStep ==
    ASSUME Inv, NEW u \in Users, Answer(u), Overtaken(u), UNCHANGED <<rows, changes>>,
           failures' \in 0..MaxFailures, cache' \in [Users -> Entry \cup {Null}],
           \A v \in Users : v # u /\ cache'[v] # Null => cache'[v] = cache[v],
           cache'[u] # Null => cache'[u].late
    PROVE  Inv'
  <1>1. /\ answered' = [v \in Users |-> IF v = u THEN Own(u) ELSE answered[v]]
        /\ answered \in [Users -> Nat] /\ Own(u) \in Nat
    BY OwnTyped DEF Inv, TypeOK, Answer
  <1>2. \A v \in Users : Own(v)' = Own(v)
    BY DEF Own, rows
  <1>3. ASSUME NEW r \in Readers PROVE read'[r] \in Read /\ KeepsUp(read[r])'
    <2>1. read[r] \in Read /\ KeepsUp(read[r])
      BY DEF Inv, TypeOK, ReadsKeepUp
    <2>2. CASE read[r].user = u
      <3>1. read'[r] = [read[r] EXCEPT !.late = TRUE]
        BY <2>2 DEF Overtaken
      <3>. DEFINE s == [read[r] EXCEPT !.late = TRUE]
      <3>2. s \in Read /\ s.late /\ s.user = read[r].user /\ s.missing = read[r].missing
        BY <2>1 DEF Read
      <3>. QED
        BY <2>1, <2>2, <3>1, <3>2, IdleTyped DEF KeepsUp
    <2>3. CASE read[r].user # u
      <3>1. read'[r] = [read[r] EXCEPT !.late = read[r].late]
        BY <2>1, <2>3 DEF Overtaken, Read
      <3>2. read'[r] = read[r]
        BY <2>1, <3>1 DEF Read
      <3>. QED
        BY <1>1, <2>1, <2>3, <3>2 DEF KeepsUp
    <2>. QED
      BY <2>2, <2>3
  <1>4. TypeOK'
    <2>1. read' \in [Readers -> Read]
      BY <1>3 DEF Overtaken
    <2>2. answered' \in [Users -> Nat] /\ change' \in Users \cup {Null}
      BY <1>1 DEF Answer
    <2>. QED
      BY <2>1, <2>2 DEF Inv, TypeOK, rows
  <1>5. AnsweredWasWritten'
    BY <1>1, <1>2 DEF Inv, AnsweredWasWritten
  <1>6. AnsweredChangesShow'
    BY <1>1 DEF Inv, AnsweredChangesShow
  <1>. QED
    BY <1>3, <1>4, <1>5, <1>6 DEF Inv, ReadsKeepUp

LEMMA InvalidateStep ==
    ASSUME Inv, Invalidate \/ InvalidateFails
    PROVE  Inv'
  <1>1. /\ change \in Users /\ cache \in [Users -> Entry \cup {Null}]
        /\ failures \in 0..MaxFailures /\ MaxFailures \in Nat
    BY CacheAssumptions DEF Inv, TypeOK, Invalidate, InvalidateFails
  <1>2. /\ Answer(change) /\ Overtaken(change) /\ UNCHANGED <<rows, changes>>
        /\ failures' = failures \/ CanFail
    BY DEF Invalidate, InvalidateFails
  <1>3. failures' \in 0..MaxFailures
    BY <1>1, <1>2 DEF CanFail
  <1>4. CASE Invalidate
    <2>1. cache' = [cache EXCEPT ![change] = Null]
      BY <1>4 DEF Invalidate, KeyOf
    <2>. QED
      BY <1>1, <1>2, <1>3, <2>1, AnswerStep
  <1>5. CASE InvalidateFails
    <2>1. cache' = [u \in Users |-> IF u = change /\ cache[u] # Null
                                    THEN [cache[u] EXCEPT !.late = TRUE] ELSE cache[u]]
      BY <1>5 DEF InvalidateFails
    <2>2. ASSUME NEW entry \in Entry
          PROVE  [entry EXCEPT !.late = TRUE] \in Entry /\ [entry EXCEPT !.late = TRUE].late
      BY DEF Entry
    <2>. QED
      BY <1>1, <1>2, <1>3, <2>1, <2>2, AnswerStep
  <1>. QED
    BY <1>4, <1>5

LEMMA ChangeFailsStep == Inv /\ ChangeFails => Inv'
  <1>. SUFFICES ASSUME Inv, ChangeFails PROVE Inv'
    OBVIOUS
  <1>1. /\ failures' = failures + 1 /\ failures < MaxFailures /\ change' = Null
        /\ UNCHANGED <<rows, cache, read, answered, changes>>
    BY DEF ChangeFails, CanFail
  <1>2. TypeOK'
    BY <1>1, CacheAssumptions DEF Inv, TypeOK, rows
  <1>3. AnsweredWasWritten' /\ ReadsKeepUp' /\ AnsweredChangesShow'
    BY <1>1 DEF Inv, AnsweredWasWritten, Own, ReadsKeepUp, KeepsUp, AnsweredChangesShow, rows
  <1>. QED
    BY <1>2, <1>3 DEF Inv

LEMMA TickStep == Inv /\ Tick => Inv'
  <1>. SUFFICES ASSUME Inv, Tick PROVE Inv'
    OBVIOUS
  <1>1. /\ cache' = [u \in Users |-> IF cache[u] = Null THEN Null ELSE Expire(cache[u])]
        /\ UNCHANGED <<rows, read, change, answered, changes, failures>>
    BY DEF Tick
  <1>2. ASSUME NEW u \in Users
        PROVE  /\ cache'[u] \in Entry \cup {Null}
               /\ cache'[u] # Null => /\ cache[u] # Null /\ cache'[u].late = cache[u].late
                                      /\ cache'[u].list = cache[u].list
    <2>1. CASE cache[u] = Null \/ cache[u].left = 1
      BY <1>1, <2>1 DEF Expire
    <2>2. CASE cache[u] # Null /\ cache[u].left # 1
      <3>1. cache[u] \in Entry
        BY <2>2 DEF Inv, TypeOK
      <3>2. PICK left \in 1..Ttl : left = cache[u].left - 1
        BY <2>2, <3>1, CacheAssumptions DEF Entry
      <3>. DEFINE entry == [cache[u] EXCEPT !.left = left]
      <3>3. entry \in Entry /\ entry.late = cache[u].late /\ entry.list = cache[u].list
        BY <3>1 DEF Entry
      <3>4. cache'[u] = entry
        BY <1>1, <2>2, <3>2 DEF Expire
      <3>. QED
        BY <2>2, <3>3, <3>4
    <2>. QED
      BY <2>1, <2>2
  <1>3. TypeOK'
    BY <1>1, <1>2 DEF Inv, TypeOK, rows
  <1>4. AnsweredWasWritten' /\ ReadsKeepUp'
    BY <1>1 DEF Inv, AnsweredWasWritten, Own, ReadsKeepUp, KeepsUp, rows
  <1>5. AnsweredChangesShow'
    BY <1>1, <1>2 DEF Inv, AnsweredChangesShow
  <1>. QED
    BY <1>3, <1>4, <1>5 DEF Inv

------------------------------------------------------------------------------
LEMMA InitInv == Init => Inv
  <1>. SUFFICES ASSUME Init PROVE Inv
    OBVIOUS
  <1>1. /\ group \in Nat /\ period \in Nat /\ member \in [Members -> Nat]
        /\ cache = [u \in Users |-> Null] /\ read = [r \in Readers |-> Idle]
        /\ answered = [u \in Users |-> 0] /\ change = Null
    BY DEF Init
  <1>2. changes \in 0..MaxChanges /\ failures \in 0..MaxFailures
    BY CacheAssumptions DEF Init
  <1>3. TypeOK
    BY <1>1, <1>2, IdleTyped DEF TypeOK
  <1>4. AnsweredWasWritten
    BY <1>1, <1>3, OwnTyped DEF AnsweredWasWritten
  <1>5. ReadsKeepUp /\ AnsweredChangesShow
    BY <1>1, IdleTyped DEF ReadsKeepUp, AnsweredChangesShow
  <1>. QED
    BY <1>3, <1>4, <1>5 DEF Inv

LEMMA NextInv == Inv /\ [Next]_vars => Inv'
  <1>. SUFFICES ASSUME Inv, [Next]_vars PROVE Inv'
    OBVIOUS
  <1>1. ASSUME NEW r \in Readers,
               (\E u \in Users : Miss(r, u)) \/ Fetch(r) \/ Store(r) \/ ReadFails(r)
        PROVE  Inv'
    BY <1>1, ReaderStep
  <1>2. CASE \/ CreateGroup \/ DeleteGroup \/ UpdateGroup
             \/ \E m \in Members : ChangeMember(m)
             \/ ChangePeriod
    BY <1>2, ChangesStep
  <1>3. CASE Invalidate \/ InvalidateFails
    BY <1>3, InvalidateStep
  <1>4. CASE ChangeFails
    BY <1>4, ChangeFailsStep
  <1>5. CASE Tick
    BY <1>5, TickStep
  <1>6. CASE UNCHANGED vars
    BY <1>6 DEF vars, rows, Inv, TypeOK, AnsweredWasWritten, Own, ReadsKeepUp, KeepsUp,
       AnsweredChangesShow
  <1>. QED
    BY <1>1, <1>2, <1>3, <1>4, <1>5, <1>6 DEF Next

(***************************************************************************)
(* What the cache and the reads in flight are at least as new as.          *)
(***************************************************************************)
THEOREM Invariance == Spec => []Inv
  BY InitInv, NextInv, PTL DEF Spec

(***************************************************************************)
(* Every variable keeps its type.                                          *)
(***************************************************************************)
THEOREM TypeCorrect == Spec => []TypeOK
  <1>1. Inv => TypeOK
    BY DEF Inv
  <1>. QED
    BY <1>1, Invariance, PTL

(***************************************************************************)
(* Only a read that was under way when a key was deleted, or a key that    *)
(* Redis would not delete, hides an answered change from its user          *)
(* (getOrSet, del).                                                        *)
(***************************************************************************)
THEOREM OnlyLateListsAreOld == Spec => []AnsweredChangesShow
  <1>1. Inv => AnsweredChangesShow
    BY DEF Inv
  <1>. QED
    BY <1>1, Invariance, PTL
==============================================================================
