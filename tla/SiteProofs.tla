----------------------------- MODULE SiteProofs -----------------------------
(***************************************************************************)
(* The lock and the life of sessions, for every set of addresses, sign-ins *)
(* and session ids, every threshold, lock and time to live; and the pages  *)
(* of a match, for every board, every log and every limit of it.           *)
(***************************************************************************)
EXTENDS Site, FiniteSetTheorems, SequenceTheorems, WellFoundedInduction, TLAPS

\* The steps of Site that touch the accounts.
SessionsStep == \/ \E e \in Email : SignUp(e)
                \/ SignInStep
                \/ \E i \in SessionId : SignOut(i)
                \/ Tick
                \/ StartProcess

\* The sign-ins that may still record a failure for e.
Pending(e) == {h \in Handler : /\ login[h].pc \in {"verify", "record"}
                               /\ login[h].email = e}

\* The failures since a lock was set and those still to come are of sign-ins
\* other than the one that set it. Without a lock all failures are counted,
\* and past the threshold there are none since the last lock ran out.
Counts(e) ==
  /\ Locked(e) => /\ failures[e].count >= Threshold
                  /\ tally[e] + Cardinality(Pending(e)) < Cardinality(Handler)
  /\ ~Locked(e) => IF failures[e].count < Threshold THEN tally[e] <= failures[e].count
                   ELSE tally[e] = 0

SInv == SessionsTypeOK /\ \A e \in Email : Counts(e)

-----------------------------------------------------------------------------

LEMMA SiteSteps == SiteNext => SessionsStep \/ UNCHANGED sessionsVars
  BY DEF SiteNext, AccountStep, Get, ReadNext, Respond, WorkerStep, Restart, SessionsStep

LEMMA InitCorrect == SiteInit => SInv
<1> SUFFICES ASSUME SiteInit PROVE SInv
  OBVIOUS
<1>1. /\ users \subseteq Email
      /\ sessions \in [SessionId -> {Unused, SessionRow(Owner, TTL)}]
      /\ cookies \subseteq SessionId
      /\ failures = [e \in Email |-> NoFailures]
      /\ tally = [e \in Email |-> 0]
      /\ login = [h \in Handler |-> Idle]
  BY SiteAssumption DEF SiteInit, SessionsInit
<1>2. SessionsTypeOK
  <2>1. SessionRow(Owner, TTL) \in {SessionRow(e, n) : e \in Email, n \in 0..TTL}
    BY SiteAssumption, SessionsAssumption
  <2>2. NoFailures \in [count : 0..CountCap, locked : 0..LockFor]
    BY SessionsAssumption DEF NoFailures
  <2> QED
    BY <1>1, <2>1, <2>2 DEF SessionsTypeOK
<1>3. \A e \in Email : Counts(e)
  BY <1>1, SessionsAssumption DEF Counts, Locked, NoFailures
<1> QED
  BY <1>2, <1>3 DEF SInv

\* What a step leaves of the sign-ins under way can only be fewer, unless it is
\* Begin.
LEMMA FewerPending ==
  ASSUME NEW S \in SUBSET Handler, NEW T \in SUBSET S
  PROVE  /\ Cardinality(T) \in Nat /\ Cardinality(S) \in Nat
         /\ Cardinality(T) <= Cardinality(S)
<1>1. IsFiniteSet(S) /\ Cardinality(S) \in Nat
  BY SessionsAssumption, FS_Subset, FS_CardinalityType
<1> QED
  BY <1>1, FS_Subset, FS_CardinalityType

LEMMA OneFewerPending ==
  ASSUME NEW S \in SUBSET Handler, NEW h \in S
  PROVE  /\ Cardinality(S) \in Nat
         /\ Cardinality(S \ {h}) = Cardinality(S) - 1
<1>1. IsFiniteSet(S) /\ Cardinality(S) \in Nat
  BY SessionsAssumption, FS_Subset, FS_CardinalityType
<1> QED
  BY <1>1, FS_RemoveElement

LEMMA TypeStep == SessionsTypeOK /\ SessionsStep => SessionsTypeOK'
<1> SUFFICES ASSUME SessionsTypeOK, SessionsStep PROVE SessionsTypeOK'
  OBVIOUS
<1> USE SessionsAssumption
<1>1. ASSUME NEW e \in Email, SignUp(e) PROVE SessionsTypeOK'
  BY <1>1 DEF SignUp, SessionsTypeOK
<1>2. ASSUME NEW h \in Handler, NEW e \in Email, Begin(h, e) PROVE SessionsTypeOK'
  BY <1>2 DEF Begin, Started, SessionsTypeOK
<1>3. ASSUME NEW h \in Handler, Verify(h) PROVE SessionsTypeOK'
  <2>1. login[h] \in [pc : {"verify", "record", "clear", "session"}, email : Email]
    BY <1>3 DEF Verify, SessionsTypeOK, Idle
  <2> QED
    BY <1>3, <2>1 DEF Verify, Go, SessionsTypeOK
<1>4. ASSUME NEW h \in Handler, RecordFailure(h) PROVE SessionsTypeOK'
  <2>1. login[h].email \in Email
    BY <1>4 DEF RecordFailure, SessionsTypeOK, Idle
  <2> DEFINE e == login[h].email
  <2>2. Bumped(failures[e]) \in [count : 0..CountCap, locked : 0..LockFor]
    BY <2>1 DEF Bumped, Counted, SessionsTypeOK
  <2>3. failures' \in [Email -> [count : 0..CountCap, locked : 0..LockFor]]
    BY <1>4, <2>1, <2>2 DEF RecordFailure, SessionsTypeOK
  <2>4. tally' \in [Email -> Nat]
    BY <1>4, <2>1 DEF RecordFailure, SessionsTypeOK
  <2> QED
    BY <1>4, <2>3, <2>4 DEF RecordFailure, SessionsTypeOK
<1>5. ASSUME NEW h \in Handler, ClearFailures(h) PROVE SessionsTypeOK'
  <2>1. login[h] \in [pc : {"verify", "record", "clear", "session"}, email : Email]
    BY <1>5 DEF ClearFailures, SessionsTypeOK, Idle
  <2>2. NoFailures \in [count : 0..CountCap, locked : 0..LockFor]
    BY DEF NoFailures
  <2> QED
    BY <1>5, <2>1, <2>2 DEF ClearFailures, Go, SessionsTypeOK
<1>6. ASSUME NEW h \in Handler, CreateSession(h) PROVE SessionsTypeOK'
  <2>1. login[h].email \in Email
    BY <1>6 DEF CreateSession, SessionsTypeOK, Idle
  <2>2. SessionRow(login[h].email, TTL) \in {SessionRow(e, n) : e \in Email, n \in 0..TTL}
    BY <2>1
  <2>3. login' \in [Handler -> {Idle} \union
                 [pc : {"verify", "record", "clear", "session"}, email : Email]]
    BY <1>6 DEF CreateSession, SessionsTypeOK
  <2> QED
    BY <1>6, <2>2, <2>3 DEF CreateSession, SessionsTypeOK
<1>7. ASSUME NEW i \in SessionId, SignOut(i) PROVE SessionsTypeOK'
  BY <1>7 DEF SignOut, SessionsTypeOK
<1>8. CASE Tick
  <2>1. ASSUME NEW e \in Email
        PROVE  [failures[e] EXCEPT !.locked = Less(@)] \in [count : 0..CountCap, locked : 0..LockFor]
    BY DEF Less, SessionsTypeOK
  <2>2. ASSUME NEW i \in SessionId, Live(i)
        PROVE  [sessions[i] EXCEPT !.left = Less(@)]
                 \in {SessionRow(e, n) : e \in Email, n \in 0..TTL}
    <3>1. PICK e \in Email, n \in 0..TTL : sessions[i] = SessionRow(e, n)
      BY <2>2 DEF Live, SessionsTypeOK, Unused, Gone
    <3>2. [sessions[i] EXCEPT !.left = Less(@)] = SessionRow(e, Less(n))
      BY <3>1 DEF SessionRow
    <3>3. Less(n) \in 0..TTL
      BY DEF Less
    <3> QED
      BY <3>2, <3>3
  <2>3. tally' \in [Email -> Nat]
    BY <1>8 DEF Tick, SessionsTypeOK
  <2>4. failures' \in [Email -> [count : 0..CountCap, locked : 0..LockFor]]
    BY <1>8, <2>1 DEF Tick
  <2>5. sessions' \in [SessionId -> {Unused, Gone} \union
                         {SessionRow(e, n) : e \in Email, n \in 0..TTL}]
    BY <1>8, <2>2 DEF Tick, SessionsTypeOK
  <2> QED
    BY <1>8, <2>3, <2>4, <2>5 DEF Tick, SessionsTypeOK
<1>9. CASE StartProcess
  <2>1. NoFailures \in [count : 0..CountCap, locked : 0..LockFor]
    BY DEF NoFailures
  <2> QED
    BY <1>9, <2>1 DEF StartProcess, SessionsTypeOK
<1> QED
  BY <1>1, <1>2, <1>3, <1>4, <1>5, <1>6, <1>7, <1>8, <1>9 DEF SessionsStep, SignInStep
-----------------------------------------------------------------------------

\* Nothing changes for e when its failures and its tally stay and no sign-in
\* for it begins.
LEMMA CountsKept ==
  ASSUME NEW e \in Email, SessionsTypeOK, Counts(e),
         failures'[e] = failures[e], tally'[e] = tally[e],
         Pending(e)' \subseteq Pending(e)
  PROVE  Counts(e)'
<1>1. /\ Cardinality(Pending(e)') \in Nat /\ Cardinality(Pending(e)) \in Nat
      /\ Cardinality(Pending(e)') <= Cardinality(Pending(e))
  BY FewerPending DEF Pending
<1>2. tally[e] \in Nat /\ Cardinality(Handler) \in Nat
  BY SessionsAssumption, FS_CardinalityType DEF SessionsTypeOK
<1>3. Locked(e)' <=> Locked(e)
  BY DEF Locked
<1> QED
  BY <1>1, <1>2, <1>3 DEF Counts

\* An address whose failures are forgotten starts anew.
LEMMA CountsAnew ==
  ASSUME NEW e \in Email, failures'[e] = NoFailures, tally'[e] = 0
  PROVE  Counts(e)'
BY SessionsAssumption DEF Counts, Locked, NoFailures

\* The one step that counts: the failure of h, one of those pending.
LEMMA CountsFailure ==
  ASSUME NEW h \in Handler, NEW e \in Email, e = login[h].email,
         SessionsTypeOK, Counts(e), RecordFailure(h)
  PROVE  Counts(e)'
<1> DEFINE n == failures[e].count
<1>1. /\ e \in Email /\ h \in Pending(e)
      /\ failures[e] \in [count : 0..CountCap, locked : 0..LockFor]
      /\ tally[e] \in Nat
  BY DEF RecordFailure, SessionsTypeOK, Idle, Pending
<1>2. /\ failures'[e] = Bumped(failures[e])
      /\ tally'[e] = IF ~Locked(e) /\ failures'[e].locked > 0 THEN 0 ELSE tally[e] + 1
  BY <1>1 DEF RecordFailure, SessionsTypeOK
<1>3. /\ Cardinality(Pending(e)) \in Nat /\ Cardinality(Pending(e)') \in Nat
      /\ Cardinality(Pending(e)') < Cardinality(Pending(e))
      /\ Cardinality(Pending(e)) <= Cardinality(Handler)
      /\ Cardinality(Handler) \in Nat
  <2>1. Pending(e)' \subseteq Pending(e) \ {h}
    BY DEF RecordFailure, Pending, SessionsTypeOK, Idle
  <2>2. Pending(e) \subseteq Handler /\ Pending(e) \ {h} \subseteq Handler
    BY DEF Pending
  <2>3. Cardinality(Pending(e) \ {h}) = Cardinality(Pending(e)) - 1
    BY <1>1, <2>2, OneFewerPending
  <2>4. Cardinality(Pending(e)') \in Nat /\ Cardinality(Pending(e)') <= Cardinality(Pending(e) \ {h})
    BY <2>1, <2>2, FewerPending
  <2>5. /\ Cardinality(Handler) \in Nat /\ Cardinality(Pending(e)) \in Nat
        /\ Cardinality(Pending(e)) <= Cardinality(Handler)
    BY <2>2, FewerPending
  <2> QED
    BY <2>3, <2>4, <2>5
<1>4. CASE Locked(e)
  <2>1. /\ failures'[e].locked > 0 /\ failures'[e].count >= Threshold
        /\ tally'[e] = tally[e] + 1
    BY <1>1, <1>2, <1>4, SessionsAssumption DEF Counts, Locked, Bumped, Counted
  <2> QED
    BY <1>1, <1>3, <1>4, <2>1 DEF Counts, Locked
<1>5. CASE ~Locked(e) /\ Counted(failures[e]) >= Threshold
  <2>1. /\ failures'[e].locked > 0 /\ failures'[e].count >= Threshold
        /\ tally'[e] = 0
    BY <1>1, <1>2, <1>5, SessionsAssumption DEF Locked, Bumped
  <2> QED
    BY <1>3, <2>1 DEF Counts, Locked
<1>6. CASE ~Locked(e) /\ ~(Counted(failures[e]) >= Threshold)
  <2>1. n < Threshold /\ Counted(failures[e]) = n + 1
    BY <1>1, <1>6, SessionsAssumption DEF Counted
  <2>2. /\ failures'[e].locked = 0 /\ failures'[e].count = n + 1
        /\ tally'[e] = tally[e] + 1
    BY <1>1, <1>2, <1>6, <2>1, SessionsAssumption DEF Locked, Bumped
  <2> QED
    BY <1>1, <1>6, <2>1, <2>2, SessionsAssumption DEF Counts, Locked
<1> QED
  BY <1>4, <1>5, <1>6

LEMMA CountsStep ==
  ASSUME NEW e \in Email, SessionsTypeOK, Counts(e), SessionsStep
  PROVE  Counts(e)'
<1>1. ASSUME NEW d \in Email, SignUp(d) PROVE Counts(e)'
  BY <1>1, CountsKept DEF SignUp, Pending
<1>2. ASSUME NEW h \in Handler, NEW d \in Email, Begin(h, d) PROVE Counts(e)'
  <2>1. CASE d = e
    \* An address without a lock says nothing of the sign-ins under way.
    BY <1>2, <2>1 DEF Begin, Started, Counts, Locked
  <2>2. CASE d # e
    <3>1. Pending(e)' \subseteq Pending(e)
      BY <1>2, <2>2 DEF Begin, Started, Pending, SessionsTypeOK
    <3> QED
      BY <1>2, <3>1, CountsKept DEF Begin, Started
  <2> QED
    BY <2>1, <2>2
<1>3. ASSUME NEW h \in Handler, Verify(h) PROVE Counts(e)'
  <2>1. login[h] \in [pc : {"verify", "record", "clear", "session"}, email : Email]
    BY <1>3 DEF Verify, SessionsTypeOK, Idle
  <2>2. login'[h].email = login[h].email /\ \A k \in Handler \ {h} : login'[k] = login[k]
    BY <1>3, <2>1 DEF Verify, Go, SessionsTypeOK
  <2>3. Pending(e)' \subseteq Pending(e)
    BY <1>3, <2>2 DEF Verify, Pending
  <2> QED
    BY <1>3, <2>3, CountsKept DEF Verify
<1>4. ASSUME NEW h \in Handler, RecordFailure(h) PROVE Counts(e)'
  <2>1. CASE e = login[h].email
    BY <1>4, <2>1, CountsFailure
  <2>2. CASE e # login[h].email
    <3>1. Pending(e)' \subseteq Pending(e)
      BY <1>4, <2>2 DEF RecordFailure, Pending, SessionsTypeOK, Idle
    <3>2. failures'[e] = failures[e] /\ tally'[e] = tally[e]
      BY <1>4, <2>2 DEF RecordFailure, SessionsTypeOK
    <3> QED
      BY <3>1, <3>2, CountsKept
  <2> QED
    BY <2>1, <2>2
<1>5. ASSUME NEW h \in Handler, ClearFailures(h) PROVE Counts(e)'
  <2>1. CASE e = login[h].email
    BY <1>5, <2>1, CountsAnew DEF ClearFailures, SessionsTypeOK
  <2>2. CASE e # login[h].email
    <3>1. Pending(e)' \subseteq Pending(e)
      BY <1>5 DEF ClearFailures, Go, Pending, SessionsTypeOK
    <3>2. failures'[e] = failures[e] /\ tally'[e] = tally[e]
      BY <1>5, <2>2 DEF ClearFailures, SessionsTypeOK
    <3> QED
      BY <3>1, <3>2, CountsKept
  <2> QED
    BY <2>1, <2>2
<1>6. ASSUME NEW h \in Handler, CreateSession(h) PROVE Counts(e)'
  <2>1. Pending(e)' \subseteq Pending(e)
    BY <1>6 DEF CreateSession, Pending, SessionsTypeOK, Idle
  <2> QED
    BY <1>6, <2>1, CountsKept DEF CreateSession
<1>7. ASSUME NEW i \in SessionId, SignOut(i) PROVE Counts(e)'
  BY <1>7, CountsKept DEF SignOut, Pending
<1>8. CASE Tick
  <2>1. /\ failures'[e] = [failures[e] EXCEPT !.locked = Less(@)]
        /\ tally'[e] = IF Locked(e) /\ failures'[e].locked = 0 THEN 0 ELSE tally[e]
        /\ Pending(e)' = Pending(e)
    BY <1>8 DEF Tick, Pending
  <2>2. failures[e] \in [count : 0..CountCap, locked : 0..LockFor]
    BY DEF SessionsTypeOK
  <2>3. CASE ~Locked(e)
    BY <2>1, <2>2, <2>3 DEF Counts, Locked, Less
  <2>4. CASE Locked(e) /\ Locked(e)'
    BY <2>1, <2>2, <2>4 DEF Counts, Locked, Less
  <2>5. CASE Locked(e) /\ ~Locked(e)'
    BY <2>1, <2>2, <2>5, SessionsAssumption DEF Counts, Locked, Less
  <2> QED
    BY <2>3, <2>4, <2>5
<1>9. CASE StartProcess
  BY <1>9, CountsAnew DEF StartProcess
<1> QED
  BY <1>1, <1>2, <1>3, <1>4, <1>5, <1>6, <1>7, <1>8, <1>9 DEF SessionsStep, SignInStep

LEMMA SInvStays == SInv /\ [SiteNext]_siteVars => SInv'
<1> SUFFICES ASSUME SInv, [SiteNext]_siteVars PROVE SInv'
  OBVIOUS
<1>1. CASE SessionsStep
  BY <1>1, TypeStep, CountsStep DEF SInv
<1>2. CASE UNCHANGED sessionsVars
  <2>1. SessionsTypeOK'
    BY <1>2 DEF SInv, sessionsVars, SessionsTypeOK
  <2>2. ASSUME NEW e \in Email PROVE Counts(e)'
    BY <1>2, CountsKept DEF SInv, sessionsVars, Pending
  <2> QED
    BY <2>1, <2>2 DEF SInv
<1> QED
  BY <1>1, <1>2, SiteSteps DEF siteVars, sessionsVars

\* The inductive invariant of the accounts, with the types.
THEOREM Inductive == SiteSpec => []SInv
<1> QED
  BY InitCorrect, SInvStays, PTL DEF SiteSpec

\* Throttled, however the steps of the sign-ins interleave: the lock cannot be
\* undercut by sign-ins that looked at it too early.
THEOREM LockHolds == SiteSpec => []Throttled
<1>1. SInv => Throttled
  <2> SUFFICES ASSUME SInv, NEW e \in Email
               PROVE  tally[e] < IF Locked(e) THEN Cardinality(Handler) ELSE Threshold
    BY DEF Throttled
  <2>1. /\ Counts(e) /\ tally[e] \in Nat
        /\ failures[e] \in [count : 0..CountCap, locked : 0..LockFor]
    BY DEF SInv, SessionsTypeOK
  <2>2. Cardinality(Pending(e)) \in Nat /\ Cardinality(Handler) \in Nat
    BY FewerPending DEF Pending
  <2>3. CASE Locked(e)
    BY <2>1, <2>2, <2>3 DEF Counts
  <2>4. CASE ~Locked(e)
    BY <2>1, <2>4, SessionsAssumption DEF Counts
  <2> QED
    BY <2>3, <2>4
<1> QED
  BY <1>1, Inductive, PTL
-----------------------------------------------------------------------------
(* The life of a session                                                   *)

\* What SessionsSurvive asks of a step for session i.
Survives(i) ==
  /\ Live(i)' => \/ Live(i) /\ sessions'[i].user = sessions[i].user
                 \/ /\ sessions[i] = Unused
                    /\ \E h \in Handler : /\ login[h].pc = "session"
                                          /\ login[h].email = sessions'[i].user
  /\ Live(i) /\ ~Live(i)' => SignOut(i) \/ Tick

LEMMA SurvivesStep ==
  ASSUME NEW i \in SessionId, SessionsTypeOK, SessionsStep
  PROVE  Survives(i)
<1>1. CASE sessions'[i] = sessions[i]
  BY <1>1 DEF Survives, Live
<1>2. ASSUME NEW h \in Handler, CreateSession(h), sessions'[i] # sessions[i]
      PROVE  Survives(i)
  <2>1. /\ sessions[i] = Unused
        /\ sessions'[i] = SessionRow(login[h].email, TTL)
    BY <1>2 DEF CreateSession, SessionsTypeOK
  <2> QED
    BY <1>2, <2>1 DEF Survives, Live, SessionRow, Unused, CreateSession
<1>3. ASSUME NEW j \in SessionId, SignOut(j), sessions'[i] # sessions[i]
      PROVE  Survives(i)
  <2>1. i = j /\ sessions'[i] = Gone
    BY <1>3 DEF SignOut, SessionsTypeOK
  <2> QED
    BY <1>3, <2>1 DEF Survives, Live, Gone
<1>4. ASSUME Tick, sessions'[i] # sessions[i] PROVE Survives(i)
  <2>1. Live(i) /\ sessions'[i] = [sessions[i] EXCEPT !.left = Less(@)]
    BY <1>4 DEF Tick
  <2>2. PICK e \in Email, n \in 0..TTL : sessions[i] = SessionRow(e, n)
    BY <2>1 DEF Live, SessionsTypeOK, Unused, Gone
  <2>3. sessions'[i].user = sessions[i].user
    BY <2>1, <2>2 DEF SessionRow
  <2> QED
    BY <1>4, <2>1, <2>3 DEF Survives
<1>5. ASSUME StartProcess, sessions'[i] # sessions[i] PROVE Survives(i)
  <2>1. Expired(sessions[i]) /\ sessions'[i] = Gone
    BY <1>5 DEF StartProcess
  <2> QED
    BY <2>1 DEF Survives, Live, Expired, Gone
<1>6. \/ sessions' = sessions
      \/ \E h \in Handler : CreateSession(h)
      \/ \E j \in SessionId : SignOut(j)
      \/ Tick \/ StartProcess
  BY DEF SessionsStep, SignInStep, SignUp, Begin, Started, Verify, RecordFailure, ClearFailures
<1> QED
  BY <1>1, <1>2, <1>3, <1>4, <1>5, <1>6

\* SessionsSurvive, with what the worker, the pages and a restart do in between.
THEOREM SessionsLive == SiteSpec => SessionsSurvive
<1>1. SInv /\ [SiteNext]_siteVars => [\A i \in SessionId : Survives(i)]_sessionsVars
  BY SiteSteps, SurvivesStep DEF SInv, siteVars, sessionsVars
<1>2. (\A i \in SessionId : Survives(i)) <=>
        \A i \in SessionId :
          /\ Live(i)' => \/ Live(i) /\ sessions'[i].user = sessions[i].user
                         \/ /\ sessions[i] = Unused
                            /\ \E h \in Handler : /\ login[h].pc = "session"
                                                  /\ login[h].email = sessions'[i].user
          /\ Live(i) /\ ~Live(i)' => SignOut(i) \/ Tick
  BY DEF Survives
<1> QED
  BY <1>1, <1>2, Inductive, PTL DEF SiteSpec, SessionsSurvive
-----------------------------------------------------------------------------
(* The text of a log                                                       *)

LEMMA Least ==
  ASSUME NEW T \in SUBSET Nat, T # {}
  PROVE  \E x \in T : \A y \in T : x <= y
<1>1. PICK x \in T : \A y \in T : ~(<<y, x>> \in OpToRel(<, Nat))
  BY NatLessThanWellFounded, WFMin
<1>2. \A y \in T : y \in Nat /\ x \in Nat
  OBVIOUS
<1>3. \A y \in Nat : y < x => <<y, x>> \in OpToRel(<, Nat)
  BY Zenon DEF OpToRel
<1>4. \A y \in T : ~(y < x)
  BY <1>1, <1>2, <1>3, Zenon
<1> QED BY <1>2, <1>4

LEMMA Counting ==
  ASSUME NEW n \in Nat
  PROVE  IsFiniteSet(1..n) /\ Cardinality(1..n) = n
<1>1. IsFiniteSet(1..n) /\ Cardinality(1..n) = IF 1 > n THEN 0 ELSE n - 1 + 1
  BY FS_Interval
<1> QED
  BY <1>1

\* One round of the loop, over piece i.
Round(t, sizes, i) == IF sizes[i] = 0 THEN t ELSE Write(t, sizes[i])

\* f lists what has been written before and after each of the first k pieces.
Runs(f, start, sizes, k) ==
  f = [i \in 0..k |-> IF i = 0 THEN start ELSE Round(f[i - 1], sizes, i)]

LEMMA RunsAnyLength ==
  ASSUME NEW start, NEW sizes, NEW n \in Nat
  PROVE  \E f : Runs(f, start, sizes, n)
<1> DEFINE Bad == {k \in Nat : ~\E f : Runs(f, start, sizes, k)}
<1> SUFFICES ASSUME Bad # {} PROVE FALSE
  OBVIOUS
<1>1. PICK k \in Bad : \A j \in Bad : k <= j
  BY Least
<1>2. k # 0
  <2> DEFINE f == [i \in 0..0 |-> start]
  <2>1. f = [i \in 0..0 |-> IF i = 0 THEN start ELSE Round(f[i - 1], sizes, i)]
    OBVIOUS
  <2>2. Runs(f, start, sizes, 0)
    BY <2>1 DEF Runs
  <2> QED
    BY <2>2, <1>1
<1>3. k - 1 \in Nat /\ k - 1 \notin Bad
  BY <1>1, <1>2
<1>4. PICK f : Runs(f, start, sizes, k - 1)
  BY <1>3
<1> DEFINE g == [i \in 0..k |-> IF i = k THEN Round(f[k - 1], sizes, k) ELSE f[i]]
<1>5. \A i \in 0..(k - 1) : g[i] = f[i]
  BY <1>3
<1>6. \A i \in 0..(k - 1) : f[i] = IF i = 0 THEN start ELSE Round(f[i - 1], sizes, i)
  BY <1>4, Zenon DEF Runs
<1>7. \A i \in 0..k : g[i] = IF i = 0 THEN start ELSE Round(g[i - 1], sizes, i)
  <2> TAKE i \in 0..k
  <2>1. CASE i = k
    BY <2>1, <1>2, <1>3, <1>5
  <2>2. CASE i # k
    <3>1. i \in 0..(k - 1) /\ (i # 0 => i - 1 \in 0..(k - 1))
      BY <2>2, <1>3
    <3> QED
      BY <3>1, <1>5, <1>6, Zenon
  <2> QED
    BY <2>1, <2>2
<1>8. g = [i \in 0..k |-> IF i = 0 THEN start ELSE Round(g[i - 1], sizes, i)]
  BY <1>7
<1> QED
  BY <1>8, <1>1 DEF Runs

\* Loop, one round after the other.
LEMMA LoopRounds ==
  ASSUME NEW start, NEW sizes, Len(sizes) \in Nat
  PROVE  \E f : /\ Loop(start, sizes) = f[Len(sizes)]
                /\ f[0] = start
                /\ \A i \in 1..Len(sizes) : f[i] = Round(f[i - 1], sizes, i)
<1> DEFINE n == Len(sizes)
           f == CHOOSE f : Runs(f, start, sizes, n)
<1>1. Runs(f, start, sizes, n)
  BY RunsAnyLength
<1>2. Loop(start, sizes) = f[n]
  BY DEF Loop, Runs, Round
<1> HIDE DEF f
<1>3. \A i \in 0..n : f[i] = IF i = 0 THEN start ELSE Round(f[i - 1], sizes, i)
  BY <1>1, Zenon DEF Runs
<1>4. f[0] = start /\ \A i \in 1..n : f[i] = Round(f[i - 1], sizes, i)
  BY <1>3
<1> QED
  BY <1>2, <1>4
Texts == [len : Nat, pieces : Nat, marks : Nat, stopped : BOOLEAN]

\* The pieces among the first i that are not empty.
Filled(sizes, i) == {j \in 1..i : sizes[j] > 0}

Within(t) == MaxBytes > 0 => t.len - t.marks * MarkerLen <= MaxBytes

\* What a loop over so many pieces that are not empty makes of start.
Written(start, t, filled) ==
  /\ t \in Texts /\ Within(t)
  /\ IF t.stopped THEN t.marks = start.marks + 1 /\ t.pieces < start.pieces + filled
     ELSE t.marks = start.marks /\ t.pieces = start.pieces + filled

LEMMA FilledGrows ==
  ASSUME NEW sizes \in Seq(Nat), NEW i \in 1..Len(sizes)
  PROVE  /\ Cardinality(Filled(sizes, i - 1)) \in Nat
         /\ Cardinality(Filled(sizes, i)) =
              Cardinality(Filled(sizes, i - 1)) + IF sizes[i] = 0 THEN 0 ELSE 1
<1>1. IsFiniteSet(Filled(sizes, i - 1)) /\ i \notin Filled(sizes, i - 1)
  <2>1. IsFiniteSet(1..(i - 1)) /\ Filled(sizes, i - 1) \subseteq 1..(i - 1)
    BY FS_Interval DEF Filled
  <2> QED
    BY <2>1, FS_Subset
<1>2. sizes[i] \in Nat
  OBVIOUS
<1>3. Filled(sizes, i) = IF sizes[i] = 0 THEN Filled(sizes, i - 1)
                         ELSE Filled(sizes, i - 1) \union {i}
  BY <1>2 DEF Filled
<1>4. Cardinality(Filled(sizes, i - 1) \union {i}) = Cardinality(Filled(sizes, i - 1)) + 1
  BY <1>1, FS_AddElement
<1> QED
  BY <1>1, <1>3, <1>4, FS_CardinalityType

\* A piece, or the marker in its place.
LEMMA WriteWrites ==
  ASSUME NEW start \in Texts, NEW t \in Texts, NEW n \in Nat, Written(start, t, n),
         NEW size \in Nat \ {0}
  PROVE  Written(start, Write(t, size), n + 1)
<1> USE LogAssumption
<1>1. PICK l \in Nat, p \in Nat, m \in Nat, s \in BOOLEAN :
        t = [len |-> l, pieces |-> p, marks |-> m, stopped |-> s]
  BY DEF Texts
<1>2. CASE s
  BY <1>1, <1>2 DEF Write, Written, Texts
<1>3. CASE ~s /\ Fits(t, size)
  <2>1. Write(t, size) = [len |-> l + size, pieces |-> p + 1, marks |-> m, stopped |-> s]
    BY <1>1, <1>3 DEF Write
  <2>2. m * MarkerLen \in Nat
    OBVIOUS
  <2>3. Within(Write(t, size))
    BY <1>1, <1>3, <2>1, <2>2 DEF Fits, Within
  <2> QED
    BY <1>1, <1>3, <2>1, <2>3 DEF Written, Texts
<1>4. CASE ~s /\ ~Fits(t, size)
  <2>1. Write(t, size) =
          [len |-> l + MarkerLen, pieces |-> p, marks |-> m + 1, stopped |-> TRUE]
    BY <1>1, <1>4 DEF Write
  <2>2. m * MarkerLen \in Nat /\ (m + 1) * MarkerLen = m * MarkerLen + MarkerLen
    OBVIOUS
  <2>3. Within(Write(t, size))
    BY <1>1, <2>1, <2>2 DEF Within, Written
  <2>4. Write(t, size) \in Texts /\ Write(t, size).stopped
        /\ Write(t, size).marks = m + 1 /\ Write(t, size).pieces = p
    BY <2>1 DEF Texts
  <2>5. start.marks = m /\ p = start.pieces + n /\ start.pieces \in Nat
    BY <1>1, <1>4 DEF Written, Texts
  <2> HIDE DEF Texts
  <2> QED
    BY <2>3, <2>4, <2>5 DEF Written
<1> QED
  BY <1>2, <1>3, <1>4

LEMMA LoopWrites ==
  ASSUME NEW start \in Texts, ~start.stopped, Within(start), NEW sizes \in Seq(Nat)
  PROVE  Written(start, Loop(start, sizes), Cardinality(Filled(sizes, Len(sizes))))
<1> DEFINE n == Len(sizes)
           C(i) == Cardinality(Filled(sizes, i))
<1>0. n \in Nat
  OBVIOUS
<1>1. PICK f : /\ Loop(start, sizes) = f[n] /\ f[0] = start
               /\ \A i \in 1..n : f[i] = Round(f[i - 1], sizes, i)
  BY <1>0, LoopRounds
<1> DEFINE Bad == {i \in 0..n : ~Written(start, f[i], C(i))}
<1>2. SUFFICES ASSUME Bad # {} PROVE FALSE
  BY <1>0, <1>1
<1>3. PICK i \in Bad : \A j \in Bad : i <= j
  <2>1. Bad \in SUBSET Nat
    BY <1>0
  <2> QED
    BY <2>1, <1>2, Least
<1>4. i # 0
  <2>1. Filled(sizes, 0) = {}
    BY DEF Filled
  <2>2. C(0) = 0
    BY <2>1, FS_EmptySet
  <2>3. Written(start, start, 0)
    BY DEF Written, Texts
  <2> QED
    BY <1>1, <1>3, <2>2, <2>3
<1>5. i \in 1..n /\ i - 1 \in 0..n /\ i - 1 \notin Bad
  BY <1>0, <1>3, <1>4
<1>6. Written(start, f[i - 1], C(i - 1)) /\ f[i] = Round(f[i - 1], sizes, i)
  BY <1>1, <1>5
<1>7. C(i - 1) \in Nat /\ C(i) = C(i - 1) + IF sizes[i] = 0 THEN 0 ELSE 1
  BY <1>5, FilledGrows
<1>8. Written(start, f[i], C(i))
  <2>1. CASE sizes[i] = 0
    BY <1>6, <1>7, <2>1 DEF Round
  <2>2. CASE sizes[i] # 0
    <3>1. sizes[i] \in Nat \ {0} /\ f[i - 1] \in Texts /\ C(i) = C(i - 1) + 1
      BY <1>5, <1>6, <1>7, <2>2 DEF Written
    <3>2. Written(start, Write(f[i - 1], sizes[i]), C(i - 1) + 1)
      BY <1>6, <1>7, <3>1, WriteWrites
    <3> QED
      BY <1>6, <2>2, <3>1, <3>2 DEF Round
  <2> QED
    BY <2>1, <2>2
<1> QED
  BY <1>3, <1>8

\* The limit of a log holds but for its markers, of which there is one if and
\* only if a line or a block is missing.
LogText(t, lines, blocks) ==
  LET all == Len(lines) + Cardinality({i \in DOMAIN blocks : blocks[i] > 0})
  IN  /\ t.marks = 0 <=> t.pieces = all
      /\ t.pieces <= Len(lines) + Len(blocks)
      /\ MaxBytes > 0 => t.len - t.marks * MarkerLen <= MaxBytes

\* RenderExecutionLog, for every limit and whatever the lengths are.
THEOREM LogsWhole ==
  ASSUME NEW lines \in Seq(Nat \ {0}), NEW blocks \in Seq(Nat)
  PROVE  LogText(RenderExecutionLog(lines, blocks), lines, blocks)
<1> DEFINE t1 == Loop(NoText, lines)
           t2 == [t1 EXCEPT !.stopped = FALSE]
           t3 == RenderExecutionLog(lines, blocks)
           n == Len(lines)
           c == Cardinality({i \in DOMAIN blocks : blocks[i] > 0})
<1>1. NoText \in Texts /\ ~NoText.stopped /\ Within(NoText) /\ NoText.marks = 0 /\ NoText.pieces = 0
  BY LogAssumption DEF NoText, Texts, Within
<1>2. Cardinality(Filled(lines, n)) = n
  <2>1. Filled(lines, n) = 1..n
    BY DEF Filled
  <2> QED
    BY <2>1, Counting
<1>3. Written(NoText, t1, n)
  <2>1. lines \in Seq(Nat)
    OBVIOUS
  <2>2. Written(NoText, Loop(NoText, lines), Cardinality(Filled(lines, Len(lines))))
    BY <1>1, <2>1, LoopWrites
  <2> QED
    BY <1>2, <2>2
<1>4. t1 \in Texts /\ t2 \in Texts /\ ~t2.stopped /\ Within(t2) /\ t2.marks = t1.marks
      /\ t2.pieces = t1.pieces
  BY <1>3 DEF Written, Texts, Within
<1>5. Filled(blocks, Len(blocks)) = {i \in DOMAIN blocks : blocks[i] > 0}
  BY DEF Filled
<1>6. Written(t2, t3, c)
  BY <1>4, <1>5, LoopWrites DEF RenderExecutionLog
<1>7. c \in Nat /\ c <= Len(blocks)
  <2>1. IsFiniteSet(1..Len(blocks)) /\ Cardinality(1..Len(blocks)) = Len(blocks)
    BY Counting
  <2>2. {i \in DOMAIN blocks : blocks[i] > 0} \subseteq 1..Len(blocks)
    OBVIOUS
  <2> QED
    BY <2>1, <2>2, FS_Subset, FS_CardinalityType
<1> HIDE DEF t1, t2, t3, c
<1>8. t3.marks = 0 <=> t3.pieces = n + c
  BY <1>1, <1>3, <1>4, <1>6, <1>7 DEF Written, Texts
<1>9. t3.pieces <= n + Len(blocks)
  BY <1>1, <1>3, <1>4, <1>6, <1>7 DEF Written, Texts
<1> QED
  BY <1>6, <1>8, <1>9 DEF LogText, Written, Within, t3, c
-----------------------------------------------------------------------------
(* The pages: the inductive invariant                                      *)

\* Who starts game g, who moves after n accepted moves of it, and the result
\* with which a wins it.
First(g)     == IF g = 1 THEN A ELSE B
Mover(g, n)  == IF n % 2 = 0 THEN First(g) ELSE Other(First(g))
Win(g, a)    == IF a = First(g) THEN "player_a_win" ELSE "player_b_win"
Last(n, l)   == IF l THEN n + 1 ELSE n
MoveRow(g, n, i) == [seq |-> i, agent |-> Mover(g, i - 1), accepted |-> i <= n]

\* The rows of n accepted moves of game g, and of the turn that was lost after
\* them if l.
Played(g, n, l) == {MoveRow(g, n, i) : i \in 1..Last(n, l)}

\* The results to which those moves may lead.
Ends(g, n, l) ==
  IF l THEN {Win(g, Other(Mover(g, n)))}
  ELSE {r \in Result : \/ r = "draw" /\ n = Cells
                       \/ n > 0 /\ r = Win(g, Mover(g, n - 1))}

GameRec  == [first : Agent, result : Result \union {""}, count : 0..Cells]
MatchRec == [status : {"running", "completed", "failed"}, winner : Agent \union {"null"}]

\* The games of the attempt, each with the starter of its number, all but the
\* last one finished.
GamesInv == /\ \A g \in 1..Len(games) : games[g].first = First(g)
            /\ \A g \in 1..(Len(games) - 1) : Closed(g)

\* What the worker has written when it is at a stage.
StageInv ==
  /\ stage = "games" => verdict = "open"
  /\ stage \in {"settle", "render"} => verdict # "open"
  /\ stage \in {"games", "settle"} => match.status = "running"
  /\ stage # "done" => log = "none"
  /\ stage = "render" /\ ~dropped => match.status # "running"

\* What the match says is what runMatchAttempts has returned, which the games
\* allow; the log says what the match does.
OutcomeInv ==
  /\ verdict \in Agent \union {"draw"} =>
       Len(games) = 2 /\ Closed(1) /\ Closed(2) /\ MayReturn(verdict)
  /\ match.status = "completed" =>
       /\ verdict \in Agent \union {"draw"}
       /\ match.winner = IF verdict \in Agent THEN verdict ELSE "null"
  /\ log \in {"none", match.status}
  /\ log # "none" /\ ~dropped => match.status # "running"

\* Unless a write was lost, the rows of a game are those of the moves in it.
MovesInv ==
  ~dropped => \A g \in 1..Len(games) :
                IF Closed(g)
                THEN \E l \in BOOLEAN : /\ moves[g] = Played(g, games[g].count, l)
                                        /\ games[g].result \in Ends(g, games[g].count, l)
                ELSE moves[g] = Played(g, turn, lost)

RowsInv == RowsTypeOK /\ GamesInv /\ StageInv /\ OutcomeInv /\ MovesInv

Has(read) == read \in DOMAIN page.seen

\* What is left to read of a page, and what was read.
At(kind, todo, seen) == page.kind = kind /\ page.todo = todo /\ DOMAIN page.seen = seen

Progress ==
  \/ At("none", <<>>, {})
  \/ At("summary", <<"match", "games">>, {})
  \/ At("summary", <<"games">>, {"match"})
  \/ At("summary", <<>>, {"match", "games"})
  \/ At("games", <<"games", "game", "moves">>, {})
  \/ At("games", <<"game", "moves">>, {"games"})
  \/ At("games", <<"moves">>, {"games", "game"})
  \/ At("games", <<>>, {"games", "game", "moves"})
  \/ At("games", <<>>, {"games"}) /\ page.seen.games = <<>>
  \/ At("replay", <<"game", "moves">>, {})
  \/ At("replay", <<"moves">>, {"game"})
  \/ At("replay", <<>>, {"game", "moves"})
  \/ At("logs", <<"log">>, {})
  \/ At("logs", <<>>, {"log"})
  \/ At("practice", <<"match">>, {})
  \/ At("practice", <<>>, {"match"})

\* A match that is over when it is read stays as it is, and so do its games.
SeenMatch ==
  Has("match") =>
    /\ page.seen.match \in MatchRec
    /\ page.seen.match.status # "running" =>
         /\ match = page.seen.match
         /\ Has("games") => page.seen.games = games

\* The page of a game is made for a game that exists. One that is finished
\* when it is read stays as it is, and so do its moves.
SeenGame ==
  /\ page.kind = "replay" \/ Has("game") => page.game \in DOMAIN games
  /\ Has("game") =>
       /\ page.seen.game \in GameRec /\ page.seen.game.first = First(page.game)
       /\ page.seen.game.result # "" =>
            /\ games[page.game] = page.seen.game
            /\ Has("moves") => page.seen.moves = moves[page.game]
  /\ Has("moves") /\ ~dropped =>
       \E n \in 0..Cells, l \in BOOLEAN : page.seen.moves = Played(page.game, n, l)

\* The list of the games page is not ahead of the game it shows.
SeenGames ==
  page.kind = "games" =>
    /\ page.game = 1
    /\ Has("games") =>
         /\ page.seen.games \in Seq(GameRec)
         /\ page.seen.games = <<>> => page.todo = <<>>
         /\ page.seen.games # <<>> =>
              /\ games # <<>>
              /\ page.seen.games[1].result # "" =>
                   /\ games[1] = page.seen.games[1]
                   /\ Has("game") => page.seen.game = page.seen.games[1]

\* All games that a summary lists but the last had been finished when read.
SeenList ==
  page.kind = "summary" /\ Has("games") =>
    /\ page.seen.games \in Seq(GameRec)
    /\ \A g \in 1..(Len(page.seen.games) - 1) : page.seen.games[g].result # ""

\* The log is rendered once.
SeenLog ==
  Has("log") /\ page.seen.log.status # "none" =>
    page.seen.log.status = log /\ page.seen.log.text = text

PageInv == /\ DOMAIN page = DOMAIN NoPage /\ page.game \in {1, 2} /\ Progress
           /\ SeenMatch /\ SeenGame /\ SeenGames /\ SeenList /\ SeenLog

TextInv ==
  IF log = "none" THEN text = NoLog
  ELSE /\ text.lines \in Lines /\ text.blocks \in Blocks
       /\ text.shown = RenderExecutionLog(text.lines, text.blocks)

PagesInv == RowsInv /\ PageInv /\ TextInv /\ load \in {"sign_in", "match"}
-----------------------------------------------------------------------------
(* The rows: every step of the worker                                      *)

LEMMA Agents == /\ \A g, n : First(g) \in Agent /\ Mover(g, n) \in Agent
                /\ \A a \in Agent : Other(a) \in Agent /\ Other(a) # a /\ Other(Other(a)) = a
  BY SiteAssumption DEF First, Mover, Agent, Other

\* In a game with the starter of its number, who moves and who wins.
LEMMA SamePlayers ==
  ASSUME NEW g, games[g].first = First(g)
  PROVE  /\ \A n : MoverOf(g, n) = Mover(g, n)
         /\ \A a : WinFor(g, a) = Win(g, a)
  BY DEF MoverOf, Mover, WinFor, Win

\* One more row.
LEMMA PlayedOne ==
  ASSUME NEW g, NEW n \in Nat, NEW m \in {n, n + 1}, NEW l \in BOOLEAN, Last(m, l) = n + 1
  PROVE  Played(g, m, l) =
           Played(g, n, FALSE) \union {[seq |-> n + 1, agent |-> Mover(g, n), accepted |-> (n + 1 <= m)]}
<1> DEFINE row == [seq |-> n + 1, agent |-> Mover(g, n), accepted |-> (n + 1 <= m)]
<1>1. m \in Nat /\ \A i \in 1..n : (i <= m) = TRUE /\ (i <= n) = TRUE
  OBVIOUS
<1>2. Last(n, FALSE) = n
  BY DEF Last
<1>4. \A i \in 1..n : MoveRow(g, m, i) = MoveRow(g, n, i)
  BY <1>1 DEF MoveRow
<1>5. MoveRow(g, m, n + 1) = row
  <2>1. MoveRow(g, m, n + 1) =
          [seq |-> n + 1, agent |-> Mover(g, n + 1 - 1), accepted |-> n + 1 <= m]
    BY DEF MoveRow
  <2>2. n + 1 - 1 = n
    OBVIOUS
  <2> QED
    BY <2>1, <2>2, Zenon
<1>6. Played(g, m, l) = {MoveRow(g, m, i) : i \in 1..(n + 1)}
  BY DEF Played
<1>7. Played(g, n, FALSE) = {MoveRow(g, n, i) : i \in 1..n}
  BY <1>2 DEF Played
<1>8. \A i : i \in 1..(n + 1) <=> i \in 1..n \/ i = n + 1
  OBVIOUS
<1> HIDE DEF row
<1>9. Played(g, m, l) = Played(g, n, FALSE) \union {row}
  BY <1>4, <1>5, <1>6, <1>7, <1>8
<1> QED
  BY <1>9 DEF row

LEMMA PlayedNext ==
  \A g : \A n \in Nat :
    /\ Played(g, n + 1, FALSE) =
         Played(g, n, FALSE) \union {[seq |-> n + 1, agent |-> Mover(g, n), accepted |-> TRUE]}
    /\ Played(g, n, TRUE) =
         Played(g, n, FALSE) \union {[seq |-> n + 1, agent |-> Mover(g, n), accepted |-> FALSE]}
<1> TAKE g
<1> TAKE n \in Nat
<1>1. Last(n + 1, FALSE) = n + 1 /\ Last(n, TRUE) = n + 1
  BY DEF Last
<1>2. (n + 1 <= n + 1) = TRUE /\ (n + 1 <= n) = FALSE
  OBVIOUS
<1>3. Played(g, n + 1, FALSE) = Played(g, n, FALSE) \union
        {[seq |-> n + 1, agent |-> Mover(g, n), accepted |-> (n + 1 <= n + 1)]}
  BY <1>1, PlayedOne
<1>4. Played(g, n, TRUE) = Played(g, n, FALSE) \union
        {[seq |-> n + 1, agent |-> Mover(g, n), accepted |-> (n + 1 <= n)]}
  BY <1>1, PlayedOne
<1> QED
  BY <1>2, <1>3, <1>4, Zenon

LEMMA NothingPlayed == \A g : Played(g, 0, FALSE) = {}
  BY DEF Played, Last

LEMMA RowsBegin == RowsInit => RowsInv
<1> SUFFICES ASSUME RowsInit PROVE RowsInv
  OBVIOUS
<1>0. Cells \in Nat
  BY SiteAssumption
<1>1. /\ games = <<>> /\ moves = <<>> /\ turn = 0 /\ lost = FALSE /\ dropped = FALSE
      /\ match = [status |-> "running", winner |-> "null"]
      /\ log = "none" /\ verdict = "open" /\ stage = "games"
  BY DEF RowsInit
<1>2. RowsTypeOK
  <2>1. turn \in 0..Cells /\ Len(moves) = Len(games) /\ Len(games) <= 2
    BY <1>0, <1>1
  <2>2. /\ games \in Seq([first : Agent, result : Result \union {""}, count : 0..Cells])
        /\ moves \in Seq(SUBSET Row)
    BY <1>1
  <2>3. match \in [status : {"running", "completed", "failed"}, winner : Agent \union {"null"}]
    BY <1>1
  <2> QED
    BY <1>1, <2>1, <2>2, <2>3, Zenon DEF RowsTypeOK
<1>3. Len(games) = 0
  BY <1>1
<1>4. GamesInv /\ MovesInv /\ StageInv
  BY <1>1, <1>3 DEF GamesInv, MovesInv, StageInv
<1>5. verdict \notin Agent \union {"draw"}
  BY <1>1, SiteAssumption DEF Agent
<1>6. OutcomeInv
  BY <1>1, <1>5 DEF OutcomeInv
<1> QED
  BY <1>2, <1>4, <1>6 DEF RowsInv

\* What was returned stays true of games that stay.
LEMMA OutcomeStays ==
  UNCHANGED <<games, verdict>> =>
    (/\ verdict \in Agent \union {"draw"} =>
          Len(games) = 2 /\ Closed(1) /\ Closed(2) /\ MayReturn(verdict)) <=>
    (/\ verdict' \in Agent \union {"draw"} =>
          Len(games') = 2 /\ Closed(1)' /\ Closed(2)' /\ MayReturn(verdict)')
  BY DEF Closed, MayReturn, Wins, WinFor, Game

LEMMA Appending ==
  ASSUME NEW S, NEW s \in Seq(S), NEW e \in S, NEW t, t = Append(s, e)
  PROVE  /\ t \in Seq(S) /\ Len(s) \in Nat /\ Len(t) = Len(s) + 1
         /\ t[Len(s) + 1] = e /\ \A g \in 1..Len(s) : t[g] = s[g]
  BY AppendProperties, LenProperties

LEMMA CreateGameRows == RowsInv /\ CreateGame => RowsInv'
<1> SUFFICES ASSUME RowsInv, CreateGame PROVE RowsInv'
  OBVIOUS
<1> DEFINE starter == IF Game = 0 THEN A ELSE B
           opened == [first |-> starter, result |-> "", count |-> 0]
<1>1. /\ Between /\ Game < 2 /\ games' = Append(games, opened) /\ moves' = Append(moves, {})
      /\ turn' = 0 /\ lost' = FALSE
      /\ UNCHANGED match /\ UNCHANGED log /\ UNCHANGED verdict /\ UNCHANGED stage
      /\ UNCHANGED dropped
  BY DEF CreateGame
<1>2. RowsTypeOK /\ games \in Seq(GameRec) /\ moves \in Seq(SUBSET Row) /\ Len(moves) = Len(games)
      /\ Cells \in Nat
  BY SiteAssumption DEF RowsInv, RowsTypeOK, GameRec
<1>3. starter \in Agent /\ (Game \in {0, 1} => starter = First(Game + 1))
  BY DEF Agent, First
<1> HIDE DEF starter
<1>31. opened \in GameRec /\ opened.first = starter /\ opened.result = ""
  <2>1. 0 \in 0..Cells
    BY <1>2
  <2> QED
    BY <1>3, <2>1 DEF GameRec
<1> HIDE DEF opened
<1>4. /\ Len(games) \in {0, 1} /\ Len(games') = Len(games) + 1
      /\ games'[Len(games) + 1] = opened /\ \A g \in 1..Len(games) : games'[g] = games[g]
      /\ moves'[Len(games) + 1] = {} /\ \A g \in 1..Len(games) : moves'[g] = moves[g]
      /\ games' \in Seq(GameRec) /\ moves' \in Seq(SUBSET Row) /\ Len(moves') = Len(moves) + 1
  <2>1. /\ games \in Seq(GameRec) /\ games' = Append(games, opened)
        /\ moves \in Seq(SUBSET Row) /\ moves' = Append(moves, {})
        /\ Len(games) < 2 /\ Len(moves) = Len(games)
    BY <1>1, <1>2 DEF Game
  <2>2. /\ Len(games) \in {0, 1} /\ Len(games') = Len(games) + 1
        /\ games'[Len(games) + 1] = opened /\ \A g \in 1..Len(games) : games'[g] = games[g]
        /\ games' \in Seq(GameRec)
    <3>1. opened \in GameRec
      BY <1>31, Zenon
    <3>2. games \in Seq(GameRec)
      BY <2>1, Zenon
    <3>3. games' = Append(games, opened)
      BY <2>1, Zenon
    <3>4. /\ games' \in Seq(GameRec) /\ Len(games) \in Nat /\ Len(games') = Len(games) + 1
          /\ games'[Len(games) + 1] = opened
          /\ \A g \in 1..Len(games) : games'[g] = games[g]
      BY <3>1, <3>2, <3>3, Appending, SMTT(30)
    <3> QED
      BY <2>1, <3>4
  <2>3. /\ moves'[Len(moves) + 1] = {} /\ \A g \in 1..Len(moves) : moves'[g] = moves[g]
        /\ moves' \in Seq(SUBSET Row) /\ Len(moves') = Len(moves) + 1
    BY <2>1
  <2> QED
    BY <2>1, <2>2, <2>3
<1>5. \A g \in 1..Len(games) : Closed(g)
  BY <1>1, <1>2, <1>4 DEF RowsInv, GamesInv, Between, Game
<1>6. opened.first = First(Len(games) + 1) /\ opened.result = ""
  BY <1>3, <1>31, <1>4 DEF Game
<1>7. RowsTypeOK'
  <2>1. /\ match' \in [status : {"running", "completed", "failed"}, winner : Agent \union {"null"}]
        /\ log' \in {"none", "running", "completed", "failed"}
        /\ verdict' \in Agent \union {"open", "draw", "failed"}
        /\ stage' \in {"games", "settle", "render", "done"}
        /\ lost' \in BOOLEAN /\ dropped' \in BOOLEAN
    BY <1>1, <1>2, Zenon DEF RowsTypeOK
  <2>3. turn' \in 0..Cells
    BY <1>1, <1>2
  <2>2. Len(moves') = Len(games') /\ Len(games') <= 2
    BY <1>2, <1>4
  <2> QED
    BY <1>4, <2>1, <2>2, <2>3 DEF RowsTypeOK, GameRec
<1>8. GamesInv'
  <2>1. \A g \in 1..Len(games) : games[g].first = First(g)
    BY DEF RowsInv, GamesInv
  <2>2. /\ 1..(Len(games') - 1) = 1..Len(games)
        /\ \A g \in 1..Len(games') : g \in 1..Len(games) \/ g = Len(games) + 1
    BY <1>4
  <2>3. /\ \A g \in 1..Len(games') : games'[g].first = First(g)
        /\ \A g \in 1..(Len(games') - 1) : games'[g].result # ""
    BY <1>4, <1>5, <1>6, <2>1, <2>2, Zenon DEF Closed
  <2> QED
    BY <2>3 DEF GamesInv, Closed
<1>9. StageInv'
  BY <1>1 DEF RowsInv, StageInv
<1>10. OutcomeInv'
  <2>1. verdict = "open" /\ "open" \notin Agent \union {"draw"} /\ match.status = "running"
    BY <1>1, SiteAssumption DEF RowsInv, StageInv, Between, Agent
  <2> QED
    BY <1>1, <2>1 DEF RowsInv, OutcomeInv
<1>11. MovesInv'
  <2> SUFFICES ASSUME ~dropped', NEW g \in 1..Len(games')
               PROVE  IF Closed(g)'
                      THEN \E l \in BOOLEAN :
                             /\ moves'[g] = Played(g, games'[g].count, l)
                             /\ games'[g].result \in Ends(g, games'[g].count, l)
                      ELSE moves'[g] = Played(g, turn', lost')
    BY DEF MovesInv
  <2>1. CASE g = Len(games) + 1
    BY <1>1, <1>4, <1>6, <2>1, NothingPlayed DEF Closed
  <2>2. CASE g \in 1..Len(games)
    BY <1>1, <1>4, <1>5, <2>2 DEF RowsInv, MovesInv, Closed
  <2> QED
    BY <1>4, <2>1, <2>2
<1> QED
  BY <1>7, <1>8, <1>9, <1>10, <1>11 DEF RowsInv

LEMMA TurnRows == ASSUME NEW b \in BOOLEAN PROVE RowsInv /\ Turn(b) => RowsInv'
<1> SUFFICES ASSUME RowsInv, Turn(b) PROVE RowsInv'
  OBVIOUS
<1> DEFINE row == [seq |-> turn + 1, agent |-> MoverOf(Game, turn), accepted |-> b]
<1>1. /\ Playing /\ ~lost /\ turn < Cells
      /\ \/ moves' = [moves EXCEPT ![Game] = @ \union {row}] /\ UNCHANGED dropped
         \/ dropped' = TRUE /\ UNCHANGED moves
      /\ turn' = IF b THEN turn + 1 ELSE turn
      /\ lost' = ~b
      /\ UNCHANGED games /\ UNCHANGED match /\ UNCHANGED log /\ UNCHANGED verdict
      /\ UNCHANGED stage
  BY DEF Turn
<1>2. RowsTypeOK /\ games \in Seq(GameRec) /\ moves \in Seq(SUBSET Row) /\ Len(moves) = Len(games)
      /\ Cells \in Nat /\ turn \in 0..Cells /\ lost = FALSE
  BY <1>1, SiteAssumption DEF RowsInv, RowsTypeOK, GameRec
<1>3. Game \in 1..Len(games) /\ Game = Len(games) /\ ~Closed(Game)
  BY <1>1, <1>2 DEF Playing, Game
<1>4. MoverOf(Game, turn) = Mover(Game, turn) /\ Mover(Game, turn) \in Agent
  BY <1>3, SamePlayers, Agents DEF RowsInv, GamesInv
<1>5. row \in Row
  BY <1>1, <1>2, <1>4 DEF Row
<1>6. Played(Game, turn', lost') = Played(Game, turn, FALSE) \union {row}
  <2>1. Played(Game, turn', ~b) =
          Played(Game, turn, FALSE) \union
            {[seq |-> turn + 1, agent |-> Mover(Game, turn), accepted |-> b]}
    <3>1. turn \in Nat
      BY <1>2
    <3>2. CASE b
      BY <1>1, <3>1, <3>2, PlayedNext, Zenon
    <3>3. CASE ~b
      BY <1>1, <3>1, <3>3, PlayedNext, Zenon
    <3> QED
      BY <3>2, <3>3
  <2> QED
    BY <1>1, <1>4, <2>1
<1> HIDE DEF row
<1>7. /\ moves' \in Seq(SUBSET Row) /\ Len(moves') = Len(moves)
      /\ \A g \in 1..Len(games) : g # Game => moves'[g] = moves[g]
      /\ ~dropped' => ~dropped /\ moves'[Game] = moves[Game] \union {row}
  BY <1>1, <1>2, <1>3, <1>5
<1>8. RowsTypeOK'
  <2>1. turn' \in 0..Cells
    BY <1>1, <1>2
  <2>2. lost' \in BOOLEAN /\ dropped' \in BOOLEAN
    BY <1>1, <1>2, Zenon DEF RowsTypeOK
  <2> QED
    BY <1>1, <1>2, <1>7, <2>1, <2>2 DEF RowsTypeOK
<1>9. GamesInv' /\ StageInv'
  BY <1>1 DEF RowsInv, GamesInv, StageInv, Closed, Playing
<1>10. OutcomeInv'
  BY <1>1, OutcomeStays DEF RowsInv, OutcomeInv, StageInv, Playing
<1>11. MovesInv'
  <2> SUFFICES ASSUME ~dropped', NEW g \in 1..Len(games)
               PROVE  IF Closed(g)
                      THEN \E l \in BOOLEAN :
                             /\ moves'[g] = Played(g, games[g].count, l)
                             /\ games[g].result \in Ends(g, games[g].count, l)
                      ELSE moves'[g] = Played(g, turn', lost')
    BY <1>1 DEF MovesInv, Closed
  <2>1. CASE g = Game
    BY <1>2, <1>3, <1>6, <1>7, <2>1 DEF RowsInv, MovesInv
  <2>2. CASE g # Game
    <3>1. Closed(g)
      BY <1>2, <1>3, <2>2 DEF RowsInv, GamesInv
    <3> QED
      BY <1>7, <2>2, <3>1 DEF RowsInv, MovesInv
  <2> QED
    BY <2>1, <2>2
<1> QED
  BY <1>8, <1>9, <1>10, <1>11 DEF RowsInv
Finished(q, r, n) == [q EXCEPT !.result = r, !.count = n]

LEMMA FinishedRow ==
  \A q \in GameRec, r \in Result, n \in 0..Cells :
    /\ Finished(q, r, n) \in GameRec /\ Finished(q, r, n).first = q.first
    /\ Finished(q, r, n).result = r /\ Finished(q, r, n).count = n
  BY DEF GameRec, Finished

LEMMA FinishGameRows == RowsInv /\ FinishGame => RowsInv'
<1> SUFFICES ASSUME RowsInv, FinishGame PROVE RowsInv'
  OBVIOUS
<1>1. /\ Playing
      /\ UNCHANGED moves /\ UNCHANGED match /\ UNCHANGED log /\ UNCHANGED turn
      /\ UNCHANGED lost /\ UNCHANGED verdict /\ UNCHANGED stage /\ UNCHANGED dropped
  BY DEF FinishGame, workerVars
<1>2. PICK r \in Results : games' = [games EXCEPT ![Game].result = r, ![Game].count = turn]
  BY DEF FinishGame
<1>3. RowsTypeOK /\ games \in Seq(GameRec) /\ Cells \in Nat /\ turn \in 0..Cells
  BY SiteAssumption DEF RowsInv, RowsTypeOK, GameRec
<1>31. lost \in BOOLEAN
  BY DEF RowsInv, RowsTypeOK
<1>4. Game \in 1..Len(games) /\ Game = Len(games) /\ ~Closed(Game)
  BY <1>1, <1>3 DEF Playing, Game
<1>41. Len(games) \in Nat /\ Game = Len(games)
  BY <1>3, <1>4, LenProperties, Zenon
<1>5. games[Game].first = First(Game)
  BY <1>4 DEF RowsInv, GamesInv
<1>6. r \in Ends(Game, turn, lost) /\ r \in Result
  <2>1. /\ MoverOf(Game, turn) = Mover(Game, turn) /\ MoverOf(Game, turn - 1) = Mover(Game, turn - 1)
        /\ \A a : WinFor(Game, a) = Win(Game, a)
    BY <1>5, SamePlayers
  <2>2. r \in Ends(Game, turn, lost)
    BY <2>1 DEF Results, Ends
  <2> QED
    BY <2>2 DEF Ends, Win, Result
<1> DEFINE closed == Finished(games[Game], r, turn)
<1>7. games[Game] \in GameRec
  BY <1>3, <1>4
<1>8. games' = [games EXCEPT ![Game] = closed]
  BY <1>2 DEF Finished
<1>9. closed \in GameRec /\ closed.first = First(Game) /\ closed.result = r /\ closed.count = turn
  <2>1. /\ closed \in GameRec /\ closed.first = games[Game].first
        /\ closed.result = r /\ closed.count = turn
    <3>1. r \in Result /\ turn \in 0..Cells
      BY <1>3, <1>6, Zenon
    <3> QED
      BY <1>7, <3>1, FinishedRow
  <2> QED
    BY <1>5, <2>1, Zenon
<1> HIDE DEF closed
<1>10. /\ games' \in Seq(GameRec) /\ Len(games') = Len(games) /\ games'[Game] = closed
       /\ \A g \in 1..Len(games) : g # Game => games'[g] = games[g]
  <2>1. games \in Seq(GameRec) /\ closed \in GameRec
    BY <1>3, <1>9
  <2> QED
    BY <1>4, <1>8, <2>1
<1>11. r # ""
  BY <1>6 DEF Result
<1>12. RowsTypeOK'
  BY <1>1, <1>3, <1>10, Zenon DEF RowsTypeOK, GameRec
<1>13. GamesInv'
  <2>0. \A g \in 1..(Len(games) - 1) : g \in 1..Len(games) /\ g # Game
    BY <1>41
  <2>1. /\ \A g \in 1..Len(games) : games[g].first = First(g)
        /\ \A g \in 1..(Len(games) - 1) : games[g].result # ""
    BY Zenon DEF RowsInv, GamesInv, Closed
  <2>2. /\ \A g \in 1..Len(games') : games'[g].first = First(g)
        /\ \A g \in 1..(Len(games') - 1) : games'[g].result # ""
    BY <1>9, <1>10, <2>0, <2>1, Zenon
  <2> QED
    BY <2>2 DEF GamesInv, Closed
<1>14. StageInv'
  BY <1>1 DEF RowsInv, StageInv
<1>15. OutcomeInv'
  <2>1. verdict = "open" /\ "open" \notin Agent \union {"draw"} /\ match.status = "running"
    BY <1>1, SiteAssumption DEF RowsInv, StageInv, Playing, Agent
  <2> QED
    BY <1>1, <2>1 DEF RowsInv, OutcomeInv
<1>16. MovesInv'
  <2> SUFFICES ASSUME ~dropped, NEW g \in 1..Len(games)
               PROVE  IF games'[g].result # ""
                      THEN \E l \in BOOLEAN :
                             /\ moves[g] = Played(g, games'[g].count, l)
                             /\ games'[g].result \in Ends(g, games'[g].count, l)
                      ELSE moves[g] = Played(g, turn, lost)
    BY <1>1, <1>10 DEF MovesInv, Closed
  <2>1. CASE g = Game
    <3>1. moves[g] = Played(g, turn, lost)
      BY <1>4, <2>1 DEF RowsInv, MovesInv
    <3> QED
      BY <1>31, <1>6, <1>9, <1>10, <1>11, <2>1, <3>1, Zenon
  <2>2. CASE g # Game
    <3>1. games[g].result # "" /\ games'[g] = games[g]
      <4>1. g \in 1..(Len(games) - 1)
        BY <1>41, <2>2
      <4>2. Closed(g)
        BY <4>1, Zenon DEF RowsInv, GamesInv
      <4> QED
        BY <1>10, <2>2, <4>2, Zenon DEF Closed
    <3> QED
      BY <3>1 DEF RowsInv, MovesInv, Closed
  <2> QED
    BY <2>1, <2>2
<1> QED
  BY <1>12, <1>13, <1>14, <1>15, <1>16 DEF RowsInv

\* The games and moves, and what they give, when only the others change.
LEMMA GamesStay ==
  RowsInv /\ UNCHANGED <<games, moves, turn, lost>> /\ (~dropped' => ~dropped) =>
    GamesInv' /\ MovesInv'
<1> SUFFICES ASSUME RowsInv, UNCHANGED <<games, moves, turn, lost>>, ~dropped' => ~dropped
             PROVE  GamesInv' /\ MovesInv'
  OBVIOUS
<1>1. GamesInv'
  BY DEF RowsInv, GamesInv, Closed
<1>2. MovesInv'
  BY DEF RowsInv, MovesInv, Closed
<1> QED
  BY <1>1, <1>2

LEMMA ReturnRows ==
  RowsInv /\ (ReturnError \/ \E v \in Agent \union {"draw"} : Return(v)) => RowsInv'
<1> SUFFICES ASSUME RowsInv, ReturnError \/ \E v \in Agent \union {"draw"} : Return(v)
             PROVE  RowsInv'
  OBVIOUS
<1>1. /\ UNCHANGED games /\ UNCHANGED moves /\ UNCHANGED match /\ UNCHANGED log
      /\ UNCHANGED turn /\ UNCHANGED lost /\ UNCHANGED dropped
      /\ stage = "games" /\ stage' = "settle"
      /\ \/ verdict' = "failed"
         \/ /\ verdict' \in Agent \union {"draw"}
            /\ Game = 2 /\ Closed(Game) /\ MayReturn(verdict')
  BY DEF ReturnError, Return, rowVars, Between
<1>2. {"failed", "draw", "open"} \cap Agent = {}
  BY SiteAssumption DEF Agent
<1>3. RowsTypeOK'
  <2>1. verdict' \in Agent \union {"open", "draw", "failed"}
    BY <1>1
  <2> QED
    BY <1>1, <2>1, Zenon DEF RowsInv, RowsTypeOK
<1>4. GamesInv' /\ MovesInv'
  BY <1>1, GamesStay
<1>5. StageInv'
  <2>1. verdict' # "open"
    BY <1>1, <1>2
  <2> QED
    BY <1>1, <2>1 DEF RowsInv, StageInv
<1>6. OutcomeInv'
  <2>1. /\ match.status = "running" /\ log = "none"
    BY <1>1 DEF RowsInv, StageInv
  <2>2. ASSUME verdict' \in Agent \union {"draw"}
        PROVE  Len(games') = 2 /\ Closed(1)' /\ Closed(2)' /\ MayReturn(verdict)'
    <3>1. Game = 2 /\ Closed(Game) /\ MayReturn(verdict')
      BY <1>1, <1>2, <2>2
    <3>2. Len(games) = 2 /\ Closed(2)
      BY <3>1 DEF Game
    <3>3. Closed(1)
      BY <3>2 DEF RowsInv, GamesInv
    <3>4. Closed(1)' /\ Closed(2)' /\ Len(games') = 2
      BY <1>1, <3>2, <3>3 DEF Closed
    <3>5. MayReturn(verdict)'
      BY <1>1, <3>1 DEF MayReturn, Wins, WinFor, Game
    <3> QED
      BY <3>4, <3>5
  <2> QED
    BY <1>1, <2>1, <2>2 DEF OutcomeInv
<1> QED
  BY <1>3, <1>4, <1>5, <1>6 DEF RowsInv

LEMMA SettleRows == RowsInv /\ Settle => RowsInv'
<1> SUFFICES ASSUME RowsInv, Settle PROVE RowsInv'
  OBVIOUS
<1> DEFINE status == IF verdict = "failed" THEN "failed" ELSE "completed"
           winner == IF verdict \in Agent THEN verdict ELSE "null"
<1>1. /\ stage = "settle" /\ stage' = "render"
      /\ \/ match' = [status |-> status, winner |-> winner] /\ UNCHANGED dropped
         \/ dropped' = TRUE /\ UNCHANGED match
      /\ UNCHANGED games /\ UNCHANGED moves /\ UNCHANGED log /\ UNCHANGED turn
      /\ UNCHANGED lost /\ UNCHANGED verdict
  BY DEF Settle
<1>2. /\ status \in {"failed", "completed"} /\ winner \in Agent \union {"null"}
      /\ (status = "completed" => verdict # "failed")
  OBVIOUS
<1> HIDE DEF status
<1>3. \/ match'.status = status /\ match'.winner = winner /\ UNCHANGED dropped
      \/ dropped' = TRUE /\ UNCHANGED match
  BY <1>1
<1>4. match.status = "running" /\ log = "none" /\ verdict # "open"
  BY <1>1 DEF RowsInv, StageInv
<1>5. RowsTypeOK'
  <2>1. match' \in [status : {"running", "completed", "failed"}, winner : Agent \union {"null"}]
    <3>1. match \in [status : {"running", "completed", "failed"}, winner : Agent \union {"null"}]
      BY DEF RowsInv, RowsTypeOK
    <3> HIDE DEF winner
    <3> QED
      BY <1>1, <1>2, <3>1
  <2> QED
    BY <1>1, <2>1, Zenon DEF RowsInv, RowsTypeOK
<1>6. GamesInv' /\ MovesInv'
  <2>1. ~dropped' => ~dropped
    BY <1>1
  <2> QED
    BY <1>1, <2>1, GamesStay
<1>7. StageInv'
  BY <1>1, <1>2, <1>3, <1>4 DEF RowsInv, StageInv
<1>8. OutcomeInv'
  <2>1. match'.status = "completed" =>
          verdict' \in Agent \union {"draw"}
            /\ match'.winner = IF verdict' \in Agent THEN verdict' ELSE "null"
    <3>1. verdict \in Agent \union {"open", "draw", "failed"}
      BY DEF RowsInv, RowsTypeOK
    <3> QED
      BY <1>1, <1>2, <1>3, <1>4, <3>1
  <2> QED
    BY <1>1, <1>4, <2>1, OutcomeStays DEF RowsInv, OutcomeInv
<1> QED
  BY <1>5, <1>6, <1>7, <1>8 DEF RowsInv

LEMMA RenderRows == RowsInv /\ RenderLog => RowsInv'
<1> SUFFICES ASSUME RowsInv, RenderLog PROVE RowsInv'
  OBVIOUS
<1>1. /\ stage = "render" /\ stage' = "done"
      /\ \/ log' = match.status /\ UNCHANGED dropped
         \/ dropped' = TRUE /\ UNCHANGED log
      /\ UNCHANGED games /\ UNCHANGED moves /\ UNCHANGED match /\ UNCHANGED turn
      /\ UNCHANGED lost /\ UNCHANGED verdict
  BY DEF RenderLog
<1>2. RowsTypeOK'
  <2>1. match.status \in {"running", "completed", "failed"}
    BY DEF RowsInv, RowsTypeOK
  <2> QED
    BY <1>1, <2>1, Zenon DEF RowsInv, RowsTypeOK
<1>3. GamesInv' /\ MovesInv'
  <2>1. ~dropped' => ~dropped
    BY <1>1
  <2> QED
    BY <1>1, <2>1, GamesStay
<1>4. StageInv'
  BY <1>1 DEF RowsInv, StageInv
<1>5. OutcomeInv'
  BY <1>1, OutcomeStays DEF RowsInv, OutcomeInv, StageInv
<1> QED
  BY <1>2, <1>3, <1>4, <1>5 DEF RowsInv

\* A process that dies leaves the rows as they are, for ever.
LEMMA DeadRows == RowsInv /\ stage' = "done" /\ UNCHANGED <<rowVars, turn, lost, verdict, dropped>> => RowsInv'
<1> SUFFICES ASSUME RowsInv, stage' = "done", UNCHANGED <<rowVars, turn, lost, verdict, dropped>>
             PROVE  RowsInv'
  OBVIOUS
<1>1. /\ UNCHANGED games /\ UNCHANGED moves /\ UNCHANGED match /\ UNCHANGED log
      /\ UNCHANGED turn /\ UNCHANGED lost /\ UNCHANGED verdict /\ UNCHANGED dropped
  BY DEF rowVars
<1>2. RowsTypeOK'
  BY <1>1, Zenon DEF RowsInv, RowsTypeOK
<1>3. GamesInv' /\ MovesInv'
  BY <1>1, GamesStay
<1>4. StageInv'
  BY <1>1 DEF RowsInv, StageInv
<1>5. OutcomeInv'
  BY <1>1, OutcomeStays DEF RowsInv, OutcomeInv
<1> QED
  BY <1>2, <1>3, <1>4, <1>5 DEF RowsInv

LEMMA SameRows == RowsInv /\ UNCHANGED matchRowsVars => RowsInv'
<1> SUFFICES ASSUME RowsInv, UNCHANGED matchRowsVars PROVE RowsInv'
  OBVIOUS
<1>1. /\ UNCHANGED games /\ UNCHANGED moves /\ UNCHANGED match /\ UNCHANGED log
      /\ UNCHANGED turn /\ UNCHANGED lost /\ UNCHANGED verdict /\ UNCHANGED stage
      /\ UNCHANGED dropped
  BY DEF matchRowsVars, rowVars, workerVars
<1>2. RowsTypeOK'
  BY <1>1, Zenon DEF RowsInv, RowsTypeOK
<1>3. GamesInv' /\ MovesInv'
  BY <1>1, GamesStay
<1>4. StageInv'
  BY <1>1 DEF RowsInv, StageInv
<1>5. OutcomeInv'
  BY <1>1, OutcomeStays DEF RowsInv, OutcomeInv
<1> QED
  BY <1>2, <1>3, <1>4, <1>5 DEF RowsInv

\* What the rows have said of a match that is over, of a finished game or of a
\* log they say for ever, and the games there are stay.
Frozen ==
  /\ match.status # "running" => UNCHANGED <<match, games>>
  /\ \A g \in DOMAIN games :
       /\ g \in DOMAIN games' /\ games'[g].first = games[g].first
       /\ Closed(g) => games'[g] = games[g] /\ moves'[g] = moves[g]
  /\ log # "none" => UNCHANGED log
  /\ ~dropped' => ~dropped

LEMMA NothingWritten == UNCHANGED matchRowsVars => Frozen
  BY DEF Frozen, matchRowsVars, rowVars

LEMMA RowsFrozen == RowsInv /\ WriteRows => Frozen
<1> SUFFICES ASSUME RowsInv, WriteRows PROVE Frozen
  OBVIOUS
<1>1. games \in Seq(GameRec) /\ moves \in Seq(SUBSET Row) /\ Len(moves) = Len(games)
  BY DEF RowsInv, RowsTypeOK, GameRec
<1>2. DOMAIN games = 1..Len(games) /\ Len(games) \in Nat /\ DOMAIN moves = 1..Len(games)
  BY <1>1
<1>3. stage = "games" \/ stage = "settle" => match.status = "running" /\ log = "none"
  BY DEF RowsInv, StageInv
<1>4. CASE CreateGame
  <2> DEFINE opened == [first |-> IF Game = 0 THEN A ELSE B, result |-> "", count |-> 0]
  <2>1. /\ stage = "games" /\ games' = Append(games, opened)
        /\ moves' = Append(moves, {}) /\ UNCHANGED dropped
    BY <1>4 DEF CreateGame, Between
  <2> HIDE DEF opened
  <2>2. \A g \in 1..Len(games) : /\ g \in DOMAIN games' /\ games'[g] = games[g]
                                 /\ moves'[g] = moves[g]
    BY <1>1, <1>2, <2>1
  <2> QED
    BY <1>2, <1>3, <2>1, <2>2, Zenon DEF Frozen
<1>5. CASE \E b \in BOOLEAN : Turn(b)
  <2>1. /\ stage = "games" /\ ~Closed(Game) /\ games' = games
        /\ \/ dropped' = dropped
           \/ dropped'
        /\ \A g \in DOMAIN moves : g # Game => moves'[g] = moves[g]
    BY <1>1, <1>5 DEF Turn, Playing
  <2> QED
    BY <1>2, <1>3, <2>1 DEF Frozen
<1>6. CASE FinishGame
  <2>1. /\ stage = "games" /\ ~Closed(Game) /\ Game \in DOMAIN games
        /\ UNCHANGED moves /\ UNCHANGED dropped
    BY <1>2, <1>6 DEF FinishGame, Playing, Game, workerVars
  <2>2. PICK r \in Results : games' = [games EXCEPT ![Game].result = r, ![Game].count = turn]
    BY <1>6 DEF FinishGame
  <2>3. games' = [games EXCEPT ![Game] = Finished(games[Game], r, turn)]
    BY <2>2 DEF Finished
  <2>4. Finished(games[Game], r, turn).first = games[Game].first
    <3>1. games[Game] \in GameRec
      BY <1>1, <2>1
    <3> QED
      BY <3>1 DEF Finished, GameRec
  <2>5. \A g \in DOMAIN games :
          /\ g \in DOMAIN games' /\ games'[g].first = games[g].first
          /\ g # Game => games'[g] = games[g]
    BY <1>1, <2>1, <2>3, <2>4
  <2> QED
    BY <1>3, <2>1, <2>5, Zenon DEF Frozen
<1>7. CASE ReturnError \/ \E v \in Agent \union {"draw"} : Return(v)
  <2>1. stage = "games" /\ UNCHANGED games /\ UNCHANGED moves /\ UNCHANGED dropped
    BY <1>7 DEF ReturnError, Return, rowVars, Between
  <2> QED
    BY <1>3, <2>1, Zenon DEF Frozen
<1>8. CASE Settle
  <2>1. /\ stage = "settle" /\ UNCHANGED games /\ UNCHANGED moves
        /\ \/ dropped' = dropped
           \/ dropped'
    BY <1>8 DEF Settle
  <2> QED
    BY <1>2, <1>3, <2>1 DEF Frozen
<1> QED
  BY <1>4, <1>5, <1>6, <1>7, <1>8 DEF WriteRows

LEMMA LogFrozen == RowsInv /\ RenderLog => Frozen /\ log = "none"
<1> SUFFICES ASSUME RowsInv, RenderLog PROVE Frozen /\ log = "none"
  OBVIOUS
<1>1. /\ stage = "render" /\ UNCHANGED games /\ UNCHANGED moves /\ UNCHANGED match
      /\ \/ dropped' = dropped
         \/ dropped'
  BY DEF RenderLog
<1>2. log = "none"
  BY <1>1 DEF RowsInv, StageInv
<1> QED
  BY <1>1, <1>2 DEF Frozen
-----------------------------------------------------------------------------
(* The page: what is written while it is made, and every read              *)

LEMMA PageStays ==
  RowsInv /\ PageInv /\ Frozen /\ UNCHANGED page /\ (log # "none" => UNCHANGED text) => PageInv'
<1> SUFFICES ASSUME RowsInv, PageInv, Frozen, page' = page, log # "none" => text' = text
             PROVE  PageInv'
  OBVIOUS
<1>1. /\ DOMAIN page' = DOMAIN NoPage' /\ page'.game \in {1, 2} /\ Progress'
  BY DEF PageInv, Progress, At, NoPage
<1>2. SeenMatch'
  BY Zenon DEF PageInv, SeenMatch, Frozen, Has
<1>3. SeenGame'
  BY Zenon DEF PageInv, SeenGame, Frozen, Has, Closed
<1>4. SeenGames'
  <2>1. games # <<>> => games' # <<>> /\ 1 \in DOMAIN games
    <3>1. games \in Seq(GameRec)
      BY DEF RowsInv, RowsTypeOK, GameRec
    <3>2. games # <<>> => 1 \in DOMAIN games
      BY <3>1
    <3>3. games # <<>> => 1 \in DOMAIN games'
      BY <3>2, Zenon DEF Frozen
    <3> QED
      BY <3>2, <3>3
  <2> QED
    BY <2>1, Zenon DEF PageInv, SeenGames, Frozen, Has, Closed
<1>5. SeenLog'
  BY Zenon DEF PageInv, SeenLog, Frozen, Has
<1>6. SeenList'
  BY Zenon DEF PageInv, SeenList, Has, GameRec
<1> QED
  BY <1>1, <1>2, <1>3, <1>4, <1>5, <1>6 DEF PageInv

\* No page is being made.
LEMMA NoPageMade == page = NoPage => PageInv
<1> SUFFICES ASSUME page = NoPage PROVE PageInv
  OBVIOUS
<1>1. /\ page.kind = "none" /\ page.game = 1 /\ page.todo = <<>> /\ DOMAIN page.seen = {}
      /\ DOMAIN page = DOMAIN NoPage
  BY DEF NoPage
<1>2. Progress
  BY <1>1 DEF Progress, At
<1> QED
  BY <1>1, <1>2 DEF PageInv, SeenMatch, SeenGame, SeenGames, SeenList, SeenLog, Has, NoPage

LEMMA GetPage ==
  ASSUME NEW k \in Kind, NEW i \in SessionId, NEW g \in {1, 2}
  PROVE  Get(k, i, g) => PageInv'
<1> SUFFICES ASSUME Get(k, i, g) PROVE PageInv'
  OBVIOUS
<1>1. /\ page' = [kind |-> k, game |-> g, todo |-> Reads(k), seen |-> <<>>]
      /\ UNCHANGED games
      /\ IF k = "replay" THEN g \in DOMAIN games ELSE g = 1
  BY DEF Get, matchRowsVars, rowVars
<1>2. /\ page'.kind = k /\ page'.game = g /\ page'.todo = Reads(k) /\ DOMAIN page'.seen = {}
      /\ DOMAIN page' = DOMAIN NoPage
  BY <1>1 DEF NoPage
<1>3. Progress'
  BY <1>2 DEF Progress, At, Reads, Kind
<1> QED
  BY <1>1, <1>2, <1>3 DEF PageInv, SeenMatch, SeenGame, SeenGames, SeenList, SeenLog, Has, NoPage

\* The statements that are left, one by one.
LEMMA Statements ==
  /\ Head(<<"match", "games">>) = "match" /\ Tail(<<"match", "games">>) = <<"games">>
  /\ Head(<<"games">>) = "games" /\ Tail(<<"games">>) = <<>>
  /\ Head(<<"games", "game", "moves">>) = "games"
  /\ Tail(<<"games", "game", "moves">>) = <<"game", "moves">>
  /\ Head(<<"game", "moves">>) = "game" /\ Tail(<<"game", "moves">>) = <<"moves">>
  /\ Head(<<"moves">>) = "moves" /\ Tail(<<"moves">>) = <<>>
  /\ Head(<<"log">>) = "log" /\ Tail(<<"log">>) = <<>>
  /\ Head(<<"match">>) = "match" /\ Tail(<<"match">>) = <<>>
  OBVIOUS

\* A read, of the rows as they are now.
LEMMA ReadFields ==
  ASSUME PageInv, ReadNext
  PROVE  LET r == Head(page.todo) IN
         /\ page'.kind = page.kind /\ page'.game = page.game /\ DOMAIN page' = DOMAIN NoPage
         /\ page'.todo = IF page.kind = "games" /\ games = <<>> THEN <<>> ELSE Tail(page.todo)
         /\ DOMAIN page'.seen = DOMAIN page.seen \union {r}
         /\ page'.seen[r] = Select(r)
         /\ \A x \in DOMAIN page.seen : x # r => page'.seen[x] = page.seen[x]
<1> DEFINE r == Head(page.todo)
           s == Keep(page.seen, r, Select(r))
           t == IF page.kind = "games" /\ games = <<>> THEN <<>> ELSE Tail(page.todo)
<1>1. page' = [page EXCEPT !.seen = s, !.todo = t]
  BY DEF ReadNext
<1>2. /\ DOMAIN s = DOMAIN page.seen \union {r}
      /\ s[r] = Select(r)
      /\ \A x \in DOMAIN page.seen : x # r => s[x] = page.seen[x]
  BY DEF Keep
<1>3. DOMAIN page = {"kind", "game", "todo", "seen"}
  BY DEF PageInv, NoPage
<1> HIDE DEF s, t, r
<1>4. /\ page'.kind = page.kind /\ page'.game = page.game /\ DOMAIN page' = DOMAIN page
      /\ page'.todo = t /\ page'.seen = s
  BY <1>1, <1>3
<1> QED
  BY <1>2, <1>3, <1>4 DEF t, r, NoPage

\* What may be read next, after what.
LEMMA NextStatement ==
  ASSUME PageInv, page.todo # <<>>
  PROVE  LET r == Head(page.todo) IN
         \/ /\ page.kind = "summary" /\ r = "match" /\ Tail(page.todo) = <<"games">>
            /\ DOMAIN page.seen = {}
         \/ /\ page.kind = "summary" /\ r = "games" /\ Tail(page.todo) = <<>>
            /\ DOMAIN page.seen = {"match"}
         \/ /\ page.kind = "games" /\ r = "games" /\ Tail(page.todo) = <<"game", "moves">>
            /\ DOMAIN page.seen = {}
         \/ /\ page.kind = "games" /\ r = "game" /\ Tail(page.todo) = <<"moves">>
            /\ DOMAIN page.seen = {"games"}
         \/ /\ page.kind = "games" /\ r = "moves" /\ Tail(page.todo) = <<>>
            /\ DOMAIN page.seen = {"games", "game"}
         \/ /\ page.kind = "replay" /\ r = "game" /\ Tail(page.todo) = <<"moves">>
            /\ DOMAIN page.seen = {}
         \/ /\ page.kind = "replay" /\ r = "moves" /\ Tail(page.todo) = <<>>
            /\ DOMAIN page.seen = {"game"}
         \/ /\ page.kind = "logs" /\ r = "log" /\ Tail(page.todo) = <<>>
            /\ DOMAIN page.seen = {}
         \/ /\ page.kind = "practice" /\ r = "match" /\ Tail(page.todo) = <<>>
            /\ DOMAIN page.seen = {}
<1>1. Progress /\ page.todo # <<>>
  BY DEF PageInv
<1> QED
  BY <1>1, Statements, Zenon DEF Progress, At
LEMMA ReadPage == RowsInv /\ PageInv /\ ReadNext => PageInv'
<1> SUFFICES ASSUME RowsInv, PageInv, ReadNext PROVE PageInv'
  OBVIOUS
<1> DEFINE r == Head(page.todo)
<1>1. /\ page'.kind = page.kind /\ page'.game = page.game /\ DOMAIN page' = DOMAIN NoPage
      /\ page'.todo = IF page.kind = "games" /\ games = <<>> THEN <<>> ELSE Tail(page.todo)
      /\ DOMAIN page'.seen = DOMAIN page.seen \union {r}
      /\ page'.seen[r] = Select(r)
      /\ \A x \in DOMAIN page.seen : x # r => page'.seen[x] = page.seen[x]
  BY ReadFields, Zenon
<1>2. /\ page.todo # <<>> /\ UNCHANGED games /\ UNCHANGED moves /\ UNCHANGED match
      /\ UNCHANGED log /\ UNCHANGED dropped /\ UNCHANGED text
  BY DEF ReadNext, matchRowsVars, rowVars
<1>3. \/ /\ page.kind = "summary" /\ r = "match" /\ Tail(page.todo) = <<"games">>
         /\ DOMAIN page.seen = {}
      \/ /\ page.kind = "summary" /\ r = "games" /\ Tail(page.todo) = <<>>
         /\ DOMAIN page.seen = {"match"}
      \/ /\ page.kind = "games" /\ r = "games" /\ Tail(page.todo) = <<"game", "moves">>
         /\ DOMAIN page.seen = {}
      \/ /\ page.kind = "games" /\ r = "game" /\ Tail(page.todo) = <<"moves">>
         /\ DOMAIN page.seen = {"games"}
      \/ /\ page.kind = "games" /\ r = "moves" /\ Tail(page.todo) = <<>>
         /\ DOMAIN page.seen = {"games", "game"}
      \/ /\ page.kind = "replay" /\ r = "game" /\ Tail(page.todo) = <<"moves">>
         /\ DOMAIN page.seen = {}
      \/ /\ page.kind = "replay" /\ r = "moves" /\ Tail(page.todo) = <<>>
         /\ DOMAIN page.seen = {"game"}
      \/ /\ page.kind = "logs" /\ r = "log" /\ Tail(page.todo) = <<>>
         /\ DOMAIN page.seen = {}
      \/ /\ page.kind = "practice" /\ r = "match" /\ Tail(page.todo) = <<>>
         /\ DOMAIN page.seen = {}
  BY <1>2, NextStatement, Zenon
<1> HIDE DEF r
<1>4. r \notin DOMAIN page.seen
  BY <1>3
<1>5. \A x \in DOMAIN page.seen : page'.seen[x] = page.seen[x]
  BY <1>1, <1>4, Zenon
<1>6. /\ games \in Seq(GameRec) /\ match \in MatchRec
      /\ \A g \in DOMAIN games : games[g] \in GameRec /\ games[g].first = First(g)
      /\ games # <<>> => 1 \in DOMAIN games
  <2>1. games \in Seq(GameRec) /\ match \in MatchRec
    BY DEF RowsInv, RowsTypeOK, GameRec, MatchRec
  <2>2. \A g \in 1..Len(games) : games[g].first = First(g)
    BY DEF RowsInv, GamesInv
  <2> QED
    BY <2>1, <2>2
\* The games page of a match with a game.
<1>7. page.kind = "games" /\ "games" \in DOMAIN page.seen =>
        /\ page.game = 1 /\ page.seen.games # <<>> /\ games # <<>>
  BY <1>2, Zenon DEF PageInv, SeenGames, Has
<1>8. Progress'
  <2>1. CASE page.kind = "games" /\ games = <<>>
    <3>1. page'.kind = "games" /\ page'.todo = <<>> /\ r = "games" /\ DOMAIN page'.seen = {"games"}
      BY <1>1, <1>3, <1>7, <2>1
    <3>2. page'.seen.games = <<>>
      BY <1>1, <2>1, <3>1 DEF Select
    <3> QED
      BY <3>1, <3>2 DEF Progress, At
  <2>2. CASE ~(page.kind = "games" /\ games = <<>>)
    <3>1. page'.kind = page.kind /\ page'.todo = Tail(page.todo)
          /\ DOMAIN page'.seen = DOMAIN page.seen \union {r}
      BY <1>1, <2>2
    <3> QED
      BY <1>3, <3>1 DEF Progress, At
  <2> QED
    BY <2>1, <2>2
<1>9. SeenMatch'
  <2>1. CASE r = "match"
    <3>1. page'.seen.match = match /\ DOMAIN page'.seen = {"match"}
      BY <1>1, <1>3, <2>1 DEF Select
    <3> QED
      BY <1>2, <1>6, <3>1 DEF SeenMatch, Has
  <2>2. CASE r # "match" /\ "match" \in DOMAIN page.seen
    <3>1. r = "games" /\ page'.seen.match = page.seen.match /\ DOMAIN page'.seen = {"match", "games"}
      BY <1>1, <1>3, <1>5, <2>2
    <3>2. page'.seen.games = games
      BY <1>1, <3>1 DEF Select
    <3> QED
      BY <1>2, <2>2, <3>1, <3>2 DEF PageInv, SeenMatch, Has
  <2>3. CASE r # "match" /\ "match" \notin DOMAIN page.seen
    BY <1>1, <2>3 DEF SeenMatch, Has
  <2> QED
    BY <2>1, <2>2, <2>3
<1>10. SeenGame'
  <2>1. page.kind = "replay" \/ r = "game" \/ "game" \in DOMAIN page.seen => page.game \in DOMAIN games
    <3>1. CASE page.kind = "replay" \/ "game" \in DOMAIN page.seen
      BY <3>1, Zenon DEF PageInv, SeenGame, Has
    <3>2. CASE page.kind = "games" /\ r = "game"
      <4>1. page.game = 1 /\ games # <<>>
        BY <1>3, <1>7, <3>2
      <4> QED
        BY <1>6, <4>1
    <3> QED
      BY <1>3, <3>1, <3>2
  <2>2. CASE r = "game"
    <3>1. page'.seen.game = games[page.game] /\ "moves" \notin DOMAIN page'.seen
          /\ page.game \in DOMAIN games
      BY <1>1, <1>3, <2>1, <2>2 DEF Select
    <3>2. page'.seen.game \in GameRec /\ page'.seen.game.first = First(page.game)
      BY <1>6, <3>1
    <3> QED
      BY <1>1, <1>2, <3>1, <3>2, Zenon DEF SeenGame, Has
  <2>3. CASE r = "moves"
    <3>1. /\ page'.seen.moves = moves[page.game] /\ "game" \in DOMAIN page.seen
          /\ page'.seen.game = page.seen.game
      BY <1>1, <1>3, <1>5, <2>3 DEF Select
    <3>2. ~dropped => \E n \in 0..Cells, l \in BOOLEAN : moves[page.game] = Played(page.game, n, l)
      <4> SUFFICES ASSUME ~dropped
                   PROVE  \E n \in 0..Cells, l \in BOOLEAN : moves[page.game] = Played(page.game, n, l)
        OBVIOUS
      <4>0. turn \in 0..Cells /\ lost \in BOOLEAN
        BY Zenon DEF RowsInv, RowsTypeOK
      <4>1. page.game \in 1..Len(games) /\ games[page.game] \in GameRec
        <5>1. page.game \in DOMAIN games
          BY <1>3, <2>1, <2>3, <3>1
        <5> QED
          BY <1>6, <5>1
      <4>2. games[page.game].count \in 0..Cells
        BY <4>1 DEF GameRec
      <4>3. \/ \E l \in BOOLEAN : moves[page.game] = Played(page.game, games[page.game].count, l)
            \/ moves[page.game] = Played(page.game, turn, lost)
        BY <4>1, Zenon DEF RowsInv, MovesInv
      <4> QED
        BY <4>0, <4>2, <4>3, Zenon
    <3>3. page.seen.game \in GameRec /\ page.seen.game.first = First(page.game)
          /\ page.game \in DOMAIN games
          /\ (page.seen.game.result # "" => games[page.game] = page.seen.game)
      BY <3>1, Zenon DEF PageInv, SeenGame, Has
    <3> QED
      BY <1>1, <1>2, <3>1, <3>2, <3>3, Zenon DEF SeenGame, Has
  <2>4. CASE r # "game" /\ r # "moves"
    <3>1. "game" \notin DOMAIN page'.seen /\ "moves" \notin DOMAIN page'.seen
      BY <1>1, <1>3, <2>4
    <3> QED
      BY <1>1, <1>2, <2>1, <3>1, Zenon DEF SeenGame, Has
  <2> QED
    BY <2>2, <2>3, <2>4
<1>11. SeenGames'
  <2> SUFFICES ASSUME page.kind = "games" PROVE SeenGames'
    BY <1>1, Zenon DEF SeenGames
  <2>1. page.game = 1
    BY Zenon DEF PageInv, SeenGames
  <2>2. CASE r = "games"
    <3>1. page'.seen.games = games /\ "game" \notin DOMAIN page'.seen
          /\ (games = <<>> => page'.todo = <<>>)
      BY <1>1, <1>3, <2>2 DEF Select
    <3> QED
      BY <1>1, <1>2, <1>6, <2>1, <3>1, Zenon DEF SeenGames, Has
  <2>3. CASE r # "games"
    <3>1. "games" \in DOMAIN page.seen /\ page'.seen.games = page.seen.games
      BY <1>3, <1>5, <2>3
    <3>2. /\ page.seen.games \in Seq(GameRec) /\ page.seen.games # <<>> /\ games # <<>>
          /\ page.seen.games[1].result # "" =>
               /\ games[1] = page.seen.games[1]
               /\ "game" \in DOMAIN page.seen => page.seen.game = page.seen.games[1]
      BY <1>7, <3>1, Zenon DEF PageInv, SeenGames, Has
    <3>3. page.seen.games[1].result # "" /\ "game" \in DOMAIN page'.seen =>
            page'.seen.game = page.seen.games[1]
      <4>1. CASE r = "game"
        BY <1>1, <2>1, <3>2, <4>1 DEF Select
      <4>2. CASE r = "moves"
        <5>1. "game" \in DOMAIN page.seen /\ page'.seen.game = page.seen.game
          BY <1>3, <1>5, <4>2
        <5> QED
          BY <3>2, <5>1, Zenon
      <4> QED
        BY <1>3, <2>3, <4>1, <4>2
    <3> QED
      BY <1>1, <1>2, <2>1, <3>1, <3>2, <3>3, Zenon DEF SeenGames, Has
  <2> QED
    BY <2>2, <2>3
<1>12. SeenLog'
  <2>1. CASE r = "log"
    <3>1. page'.seen.log = [status |-> log, text |-> text]
      BY <1>1, <2>1 DEF Select
    <3>2. page'.seen.log.status = log /\ page'.seen.log.text = text
      BY <3>1
    <3> QED
      BY <1>2, <3>2, Zenon DEF SeenLog, Has
  <2>2. CASE r # "log"
    <3>1. "log" \notin DOMAIN page'.seen
      BY <1>1, <1>3, <2>2
    <3> QED
      BY <3>1, Zenon DEF SeenLog, Has
  <2> QED
    BY <2>1, <2>2
<1>13. SeenList'
  <2>1. CASE page.kind = "summary" /\ r = "games"
    <3>1. page'.seen.games = games
      BY <1>1, <2>1 DEF Select
    <3>2. \A g \in 1..(Len(games) - 1) : games[g].result # ""
      BY DEF RowsInv, GamesInv, Closed
    <3> QED
      BY <1>6, <3>1, <3>2, Zenon DEF SeenList, GameRec
  <2>2. CASE ~(page.kind = "summary" /\ r = "games")
    <3>1. ~(page'.kind = "summary" /\ "games" \in DOMAIN page'.seen)
      BY <1>1, <1>3, <2>2
    <3> QED
      BY <3>1, Zenon DEF SeenList, Has
  <2> QED
    BY <2>1, <2>2
<1> QED
  <2>1. page'.game \in {1, 2} /\ DOMAIN page' = DOMAIN NoPage
    BY <1>1, Zenon DEF PageInv
  <2>2. DOMAIN NoPage' = DOMAIN NoPage
    BY DEF NoPage
  <2> QED
    BY <2>1, <2>2, <1>8, <1>9, <1>10, <1>11, <1>12, <1>13, Zenon DEF PageInv
-----------------------------------------------------------------------------
(* The inductive invariant of the pages, and what follows from it          *)

LEMMA PagesBegin == SiteInit => PagesInv
<1> SUFFICES ASSUME SiteInit PROVE PagesInv
  OBVIOUS
<1>1. RowsInit /\ page = NoPage /\ text = NoLog /\ load \in {"sign_in", "match"}
  BY DEF SiteInit
<1>2. log = "none"
  BY <1>1 DEF RowsInit
<1> QED
  BY <1>1, <1>2, RowsBegin, NoPageMade DEF PagesInv, TextInv

\* A step leaves the rows alone, or it is one of the worker, or the process dies.
LEMMA SiteMoves ==
  SiteNext =>
    \/ /\ UNCHANGED matchRowsVars /\ UNCHANGED text /\ UNCHANGED load
       /\ \/ UNCHANGED page
          \/ ReadNext
          \/ \E k \in Kind, i \in SessionId, g \in {1, 2} : Get(k, i, g)
          \/ page' = NoPage
    \/ WriteRows /\ UNCHANGED text /\ UNCHANGED page /\ UNCHANGED load
    \/ /\ RenderLog /\ UNCHANGED page /\ UNCHANGED load
       /\ IF log' = log THEN UNCHANGED text
          ELSE \E ls \in Lines, bs \in Blocks :
                 text' = [lines |-> ls, blocks |-> bs, shown |-> RenderExecutionLog(ls, bs)]
    \/ Restart
<1> SUFFICES ASSUME SiteNext
             PROVE  \/ /\ UNCHANGED matchRowsVars /\ UNCHANGED text /\ UNCHANGED load
                       /\ \/ UNCHANGED page
                          \/ ReadNext
                          \/ \E k \in Kind, i \in SessionId, g \in {1, 2} : Get(k, i, g)
                          \/ page' = NoPage
                    \/ WriteRows /\ UNCHANGED text /\ UNCHANGED page /\ UNCHANGED load
                    \/ /\ RenderLog /\ UNCHANGED page /\ UNCHANGED load
                       /\ IF log' = log THEN UNCHANGED text
                          ELSE \E ls \in Lines, bs \in Blocks :
                                 text' = [lines |-> ls, blocks |-> bs,
                                          shown |-> RenderExecutionLog(ls, bs)]
                    \/ Restart
  OBVIOUS
<1>1. CASE AccountStep
  BY <1>1 DEF AccountStep
<1>2. CASE \E k \in Kind, i \in SessionId, g \in {1, 2} : Get(k, i, g)
  BY <1>2 DEF Get
<1>3. CASE ReadNext
  BY <1>3 DEF ReadNext
<1>4. CASE Respond
  BY <1>4 DEF Respond
<1>5. CASE WorkerStep
  BY <1>5 DEF WorkerStep
<1> QED
  BY <1>1, <1>2, <1>3, <1>4, <1>5 DEF SiteNext

LEMMA WriteRowsRows == RowsInv /\ WriteRows => RowsInv' /\ UNCHANGED log
<1> SUFFICES ASSUME RowsInv, WriteRows PROVE RowsInv' /\ UNCHANGED log
  OBVIOUS
<1>1. RowsInv'
  BY CreateGameRows, TurnRows, FinishGameRows, ReturnRows, SettleRows DEF WriteRows
<1>2. UNCHANGED log
  BY DEF WriteRows, CreateGame, Turn, FinishGame, Return, ReturnError, Settle, rowVars
<1> QED
  BY <1>1, <1>2

\* Every step keeps the invariant, and nothing final changes in it.
LEMMA PagesStay == PagesInv /\ [SiteNext]_siteVars => PagesInv' /\ Frozen
<1> SUFFICES ASSUME PagesInv, [SiteNext]_siteVars PROVE PagesInv' /\ Frozen
  OBVIOUS
<1>0. RowsInv /\ PageInv /\ TextInv /\ load \in {"sign_in", "match"}
  BY DEF PagesInv
<1>1. page' = NoPage => PageInv'
  <2>1. (page = NoPage => PageInv)'
    BY NoPageMade, PTL
  <2>2. NoPage' = NoPage
    BY DEF NoPage
  <2> QED
    BY <2>1, <2>2
<1>2. CASE UNCHANGED matchRowsVars /\ UNCHANGED text /\ UNCHANGED load
  <2>1. RowsInv' /\ Frozen
    BY <1>0, <1>2, SameRows, NothingWritten
  <2>2. TextInv'
    <3>1. log' = log /\ text' = text
      BY <1>2 DEF matchRowsVars, rowVars
    <3> QED
      BY <1>0, <3>1 DEF TextInv
  <2>3. PageInv'
    <3>1. CASE UNCHANGED page
      BY <1>0, <1>2, <2>1, <3>1, PageStays
    <3>2. CASE ReadNext
      BY <1>0, <3>2, ReadPage
    <3>3. CASE \E k \in Kind, i \in SessionId, g \in {1, 2} : Get(k, i, g)
      BY <3>3, GetPage
    <3> QED
      <4>1. \/ UNCHANGED page
            \/ ReadNext
            \/ \E k \in Kind, i \in SessionId, g \in {1, 2} : Get(k, i, g)
            \/ page' = NoPage
        BY <1>2, SiteMoves DEF siteVars, Restart, WriteRows, RenderLog
      <4> QED
        BY <1>1, <3>1, <3>2, <3>3, <4>1
  <2> QED
    BY <1>0, <1>2, <2>1, <2>2, <2>3 DEF PagesInv
<1>3. CASE WriteRows /\ UNCHANGED text /\ UNCHANGED page /\ UNCHANGED load
  <2>1. RowsInv' /\ UNCHANGED log /\ Frozen
    BY <1>0, <1>3, WriteRowsRows, RowsFrozen
  <2>2. TextInv'
    BY <1>0, <1>3, <2>1 DEF TextInv
  <2>3. PageInv'
    BY <1>0, <1>3, <2>1, PageStays
  <2> QED
    BY <1>0, <1>3, <2>1, <2>2, <2>3 DEF PagesInv
<1>4. CASE /\ RenderLog /\ UNCHANGED page /\ UNCHANGED load
           /\ IF log' = log THEN UNCHANGED text
              ELSE \E ls \in Lines, bs \in Blocks :
                     text' = [lines |-> ls, blocks |-> bs, shown |-> RenderExecutionLog(ls, bs)]
  <2>1. RowsInv' /\ Frozen /\ log = "none"
    BY <1>0, <1>4, RenderRows, LogFrozen
  <2>2. TextInv'
    <3>1. CASE log' = log
      BY <1>0, <1>4, <3>1 DEF TextInv
    <3>2. CASE log' # log
      <4>1. PICK ls \in Lines, bs \in Blocks :
              text' = [lines |-> ls, blocks |-> bs, shown |-> RenderExecutionLog(ls, bs)]
        BY <1>4, <3>2
      <4>2. text'.lines = ls /\ text'.blocks = bs /\ text'.shown = RenderExecutionLog(ls, bs)
        BY <4>1
      <4> QED
        BY <2>1, <3>2, <4>2 DEF TextInv
    <3> QED
      BY <3>1, <3>2
  <2>3. PageInv'
    BY <1>0, <1>4, <2>1, PageStays
  <2> QED
    BY <1>0, <1>4, <2>1, <2>2, <2>3 DEF PagesInv
<1>5. CASE Restart
  <2>1. /\ stage' = "done" /\ UNCHANGED <<rowVars, turn, lost, verdict, dropped>>
        /\ page' = NoPage /\ UNCHANGED text /\ UNCHANGED load
    BY <1>5 DEF Restart
  <2>2. UNCHANGED games /\ UNCHANGED moves /\ UNCHANGED match /\ UNCHANGED log /\ UNCHANGED dropped
    BY <2>1 DEF rowVars
  <2>3. RowsInv'
    BY <1>0, <2>1, DeadRows
  <2>4. TextInv' /\ Frozen
    BY <1>0, <2>1, <2>2 DEF TextInv, Frozen
  <2> QED
    BY <1>0, <1>1, <2>1, <2>3, <2>4 DEF PagesInv
<1>6. CASE UNCHANGED siteVars
  BY <1>2, <1>6 DEF siteVars
<1> QED
  BY <1>2, <1>3, <1>4, <1>5, <1>6, SiteMoves

\* What the rows of a match, a page being made and the log have to do with each
\* other, whatever comes between two reads of the page.
THEOREM PagesInductive == SiteSpec => []PagesInv
<1> QED
  BY PagesBegin, PagesStay, PTL DEF SiteSpec

\* The rows are final: no step of the worker, of an account or of a restart
\* takes back the status of a match, a finished game with its moves, or a log.
THEOREM RowsFinal == SiteSpec => [][Frozen]_siteVars
<1> QED
  BY PagesInductive, PagesStay, PTL DEF SiteSpec

\* SiteTypeOK: a log of Lines and Blocks shows no more pieces than it has.
THEOREM SiteTyped == SiteSpec => []SiteTypeOK
<1>1. SInv /\ PagesInv => SiteTypeOK
  <2> SUFFICES ASSUME SInv, PagesInv PROVE SiteTypeOK
    OBVIOUS
  <2>1. SessionsTypeOK /\ RowsTypeOK /\ load \in {"sign_in", "match"}
    BY DEF SInv, PagesInv, RowsInv
  <2>2. /\ page.kind \in Kind \union {"none"} /\ page.game \in {1, 2}
        /\ page.todo \in Seq(Read) /\ DOMAIN page.seen \subseteq Read
    <3>1. Progress /\ page.game \in {1, 2}
      BY DEF PagesInv, PageInv
    <3>2. /\ <<>> \in Seq(Read) /\ <<"match", "games">> \in Seq(Read) /\ <<"games">> \in Seq(Read)
          /\ <<"games", "game", "moves">> \in Seq(Read) /\ <<"game", "moves">> \in Seq(Read)
          /\ <<"moves">> \in Seq(Read) /\ <<"log">> \in Seq(Read) /\ <<"match">> \in Seq(Read)
      BY DEF Read
    <3>3. page.kind \in Kind \union {"none"} /\ DOMAIN page.seen \subseteq Read
      BY <3>1 DEF Progress, At, Kind, Read
    <3>4. page.todo \in Seq(Read)
      BY <3>1, <3>2, Zenon DEF Progress, At
    <3> QED
      BY <3>1, <3>3, <3>4
  <2>3. text.shown.pieces <= Len(text.lines) + Len(text.blocks)
    <3>1. CASE log = "none"
      <4>1. /\ text.lines = <<>> /\ text.blocks = <<>> /\ text.shown.pieces = 0
        BY <3>1 DEF PagesInv, TextInv, NoLog, NoText
      <4>2. Len(text.lines) = 0 /\ Len(text.blocks) = 0
        BY <4>1
      <4> QED
        BY <4>1, <4>2
    <3>2. CASE log # "none"
      <4>1. /\ text.lines \in Seq(Nat \ {0}) /\ text.blocks \in Seq(Nat)
            /\ text.shown = RenderExecutionLog(text.lines, text.blocks)
        BY <3>2, SiteAssumption DEF PagesInv, TextInv
      <4>2. LogText(text.shown, text.lines, text.blocks)
        BY <4>1, LogsWhole
      <4> QED
        BY <4>2 DEF LogText
    <3> QED
      BY <3>1, <3>2
  <2> QED
    BY <2>1, <2>2, <2>3 DEF SiteTypeOK
<1> QED
  BY <1>1, Inductive, PagesInductive, PTL
-----------------------------------------------------------------------------
(* What the pages say                                                      *)

\* The label of a finished game is that of its result.
LEMMA Labels ==
  \A q \in GameRec :
    /\ ResultLabel(q.result) # "Failed" <=> q.result # ""
    /\ ResultLabel(q.result) = "Black wins" <=> q.result = "player_a_win"
    /\ ResultLabel(q.result) = "White wins" <=> q.result = "player_b_win"
    /\ ResultLabel(q.result) = "Draw" <=> q.result = "draw"
<1> SUFFICES ASSUME NEW q \in GameRec
             PROVE  /\ ResultLabel(q.result) # "Failed" <=> q.result # ""
                    /\ ResultLabel(q.result) = "Black wins" <=> q.result = "player_a_win"
                    /\ ResultLabel(q.result) = "White wins" <=> q.result = "player_b_win"
                    /\ ResultLabel(q.result) = "Draw" <=> q.result = "draw"
  OBVIOUS
<1>1. q.result \in {"player_a_win", "player_b_win", "draw", ""}
  BY DEF GameRec, Result
<1> QED
  BY <1>1 DEF ResultLabel

\* The first k rows of a game are k.
LEMMA CountRows ==
  ASSUME NEW g, NEW n \in Nat, NEW k \in Nat
  PROVE  Cardinality({MoveRow(g, n, i) : i \in 1..k}) = k
<1> DEFINE S == {MoveRow(g, n, i) : i \in 1..k}
           f == [i \in 1..k |-> MoveRow(g, n, i)]
<1>1. \A i, j \in 1..k : MoveRow(g, n, i) = MoveRow(g, n, j) => i = j
  BY DEF MoveRow
<1>2. f \in Bijection(1..k, S)
  <2>1. f \in [1..k -> S] /\ \A i \in 1..k : f[i] = MoveRow(g, n, i)
    OBVIOUS
  <2>2. \A x \in S : \E i \in 1..k : f[i] = x
    BY <2>1
  <2>3. \A i, j \in 1..k : f[i] = f[j] => i = j
    BY <1>1, <2>1
  <2> HIDE DEF f, S
  <2>4. f \in Injection(1..k, S)
    BY <2>1, <2>3 DEF Injection, IsInjective
  <2>5. f \in Surjection(1..k, S)
    BY <2>1, <2>2 DEF Surjection
  <2> QED
    BY <2>4, <2>5 DEF Bijection
<1>3. ExistsBijection(1..k, S)
  BY <1>2 DEF ExistsBijection
<1> QED
  BY <1>3, FS_CountingElements

\* The rows of a game, in their order.
LEMMA PlayedInOrder ==
  ASSUME NEW g, NEW n \in Nat, NEW l \in BOOLEAN
  PROVE  InOrder(Played(g, n, l)) = [i \in 1..Last(n, l) |-> MoveRow(g, n, i)]
<1> DEFINE m == Last(n, l)
           ms == Played(g, n, l)
           Upto(x) == {y \in ms : y.seq <= x.seq}
<1>1. m \in Nat
  BY DEF Last
<1> HIDE DEF m
<1>2. ms = {MoveRow(g, n, i) : i \in 1..m}
  BY DEF Played, m
<1> HIDE DEF ms
<1>3. Cardinality(ms) = m
  BY <1>1, <1>2, CountRows
<1>4. ASSUME NEW i \in 1..m PROVE Cardinality(Upto(MoveRow(g, n, i))) = i
  <2>1. \A j \in 1..m : MoveRow(g, n, j).seq = j
    BY DEF MoveRow
  <2>2. Upto(MoveRow(g, n, i)) = {MoveRow(g, n, j) : j \in 1..i}
    <3>1. \A j \in 1..m : j <= i <=> j \in 1..i
      BY <1>1
    <3>2. \A j \in 1..i : j \in 1..m
      BY <1>1
    <3> QED
      BY <1>2, <2>1, <3>1, <3>2
  <2> QED
    BY <2>2, CountRows
<1>5. ASSUME NEW i \in 1..m
      PROVE  (CHOOSE x \in ms : Cardinality(Upto(x)) = i) = MoveRow(g, n, i)
  <2>1. MoveRow(g, n, i) \in ms /\ Cardinality(Upto(MoveRow(g, n, i))) = i
    BY <1>2, <1>4
  <2>2. \A x \in ms : Cardinality(Upto(x)) = i => x = MoveRow(g, n, i)
    BY <1>2, <1>4
  <2> QED
    BY <2>1, <2>2
<1>6. InOrder(ms) = [i \in 1..m |-> CHOOSE x \in ms : Cardinality(Upto(x)) = i]
  BY <1>3 DEF InOrder
<1>7. InOrder(ms) = [i \in 1..m |-> MoveRow(g, n, i)]
  BY <1>5, <1>6
<1> QED
  BY <1>7 DEF m, ms

\* The view of a game with these rows.
LEMMA Viewed ==
  ASSUME NEW g, NEW q \in GameRec, q.first = First(g), NEW n \in Nat, NEW l \in BOOLEAN
  PROVE  LET view == GameView(q, Played(g, n, l)) IN
         /\ view.label = ResultLabel(q.result)
         /\ DOMAIN view.moves = 1..Last(n, l) /\ Len(view.moves) = Last(n, l)
         /\ \A i \in 1..Last(n, l) :
              /\ view.moves[i].mark = IF i % 2 = 1 THEN "B" ELSE "W"
              /\ view.moves[i].accepted <=> i <= n
<1> DEFINE m == Last(n, l)
           Mark(i) == IF Mover(g, i - 1) = First(g) THEN "B" ELSE "W"
           ms == [i \in 1..m |-> [mark |-> Mark(i), accepted |-> i <= n]]
           view == GameView(q, Played(g, n, l))
<1>1. m \in Nat
  BY DEF Last
<1>2. view.label = ResultLabel(q.result)
  BY DEF GameView
<1>3. view.moves = ms
  <2> DEFINE rows == InOrder(Played(g, n, l))
  <2>1. rows = [i \in 1..m |-> MoveRow(g, n, i)]
    BY PlayedInOrder
  <2>2. view.moves = [i \in DOMAIN rows |-> [mark     |-> IF rows[i].agent = q.first THEN "B" ELSE "W",
                                             accepted |-> rows[i].accepted]]
    BY DEF GameView
  <2> HIDE DEF rows, view, m
  <2>3. DOMAIN rows = 1..m
        /\ \A i \in 1..m : rows[i].agent = Mover(g, i - 1) /\ rows[i].accepted = (i <= n)
    BY <2>1 DEF MoveRow
  <2> QED
    BY <2>2, <2>3
<1>4. \A i \in 1..m : Mark(i) = IF i % 2 = 1 THEN "B" ELSE "W"
  <2> SUFFICES ASSUME NEW i \in 1..m PROVE Mark(i) = IF i % 2 = 1 THEN "B" ELSE "W"
    OBVIOUS
  <2>1. (i - 1) % 2 = 0 <=> i % 2 = 1
    BY <1>1
  <2>2. First(g) \in Agent /\ Other(First(g)) # First(g)
    BY Agents
  <2> QED
    BY <2>1, <2>2 DEF Mover
<1> HIDE DEF m, Mark
<1>5. DOMAIN ms = 1..m /\ Len(ms) = m
  BY <1>1
<1>6. \A i \in 1..m : ms[i].mark = Mark(i) /\ (ms[i].accepted <=> i <= n)
  OBVIOUS
<1> HIDE DEF ms, view
<1>7. \A i \in 1..m : /\ view.moves[i].mark = IF i % 2 = 1 THEN "B" ELSE "W"
                      /\ view.moves[i].accepted <=> i <= n
  BY <1>3, <1>4, <1>6
<1>8. DOMAIN view.moves = 1..m /\ Len(view.moves) = m
  BY <1>3, <1>5
<1> QED
  BY <1>2, <1>7, <1>8 DEF view, m

\* The games of a summary, and who has won how many of them.
LEMMA SummaryGames ==
  ASSUME RowsInv, NEW rows, rows = [g \in DOMAIN games |-> GameRow(games[g])]
  PROVE  /\ Len(rows) = Len(games) /\ DOMAIN rows = 1..Len(games)
         /\ \A g \in 1..Len(games) : rows[g].label # "Failed" <=> Closed(g)
         /\ \A a \in Agent : WonBy(rows, a) = Wins(a)
<1>1. games \in Seq(GameRec)
  BY DEF RowsInv, RowsTypeOK, GameRec
<1>2. /\ Len(games) \in Nat /\ DOMAIN games = 1..Len(games)
      /\ \A g \in 1..Len(games) : games[g] \in GameRec
  BY <1>1
<1>3. DOMAIN rows = 1..Len(games) /\ \A g \in 1..Len(games) : rows[g] = GameRow(games[g])
  BY <1>2
<1>4. Len(rows) = Len(games)
  <2>1. rows = [g \in 1..Len(games) |-> GameRow(games[g])]
    BY <1>2
  <2> QED
    BY <1>2, <2>1
<1>5. \A g \in 1..Len(games) : /\ rows[g].label = ResultLabel(games[g].result)
                               /\ rows[g].black = games[g].first
                               /\ rows[g].white = Other(games[g].first)
  BY <1>3 DEF GameRow
<1>6. \A g \in 1..Len(games) : rows[g].label # "Failed" <=> Closed(g)
  BY <1>2, <1>5, Labels DEF Closed
<1>7. ASSUME NEW a \in Agent PROVE WonBy(rows, a) = Wins(a)
  <2>1. ASSUME NEW g \in 1..Len(games)
        PROVE  (\/ rows[g].label = "Black wins" /\ rows[g].black = a
                \/ rows[g].label = "White wins" /\ rows[g].white = a)
               <=> games[g].result = WinFor(g, a)
    <3>1. /\ rows[g].label = "Black wins" <=> games[g].result = "player_a_win"
          /\ rows[g].label = "White wins" <=> games[g].result = "player_b_win"
      BY <1>2, <1>5, Labels
    <3>2. games[g].first \in Agent
      BY <1>2 DEF GameRec
    <3>3. a # games[g].first <=> a = Other(games[g].first)
      BY <3>2, SiteAssumption DEF Agent, Other
    <3> QED
      BY <1>5, <3>1, <3>3 DEF WinFor
  <2>2. {g \in DOMAIN rows : \/ rows[g].label = "Black wins" /\ rows[g].black = a
                             \/ rows[g].label = "White wins" /\ rows[g].white = a}
        = {g \in 1..Game : games[g].result = WinFor(g, a)}
    BY <1>3, <2>1 DEF Game
  <2> QED
    BY <2>2 DEF WonBy, Wins
<1> QED
  BY <1>3, <1>4, <1>6, <1>7

LEMMA WinsNat == ASSUME RowsInv, NEW a PROVE Wins(a) \in Nat
<1>1. Len(games) \in Nat
  <2>1. games \in Seq(GameRec)
    BY DEF RowsInv, RowsTypeOK, GameRec
  <2> QED
    BY <2>1
<1>2. IsFiniteSet(1..Game)
  BY <1>1, Counting DEF Game
<1> QED
  BY <1>2, FS_Subset, FS_CardinalityType DEF Wins

LEMMA SummaryTrue == PagesInv => SummaryAgrees
<1> SUFFICES ASSUME PagesInv, Made("summary") PROVE SummaryAgrees
  BY DEF SummaryAgrees
<1> DEFINE o == MatchOutcome(page.seen.match)
           rows == [g \in DOMAIN page.seen.games |-> GameRow(page.seen.games[g])]
<1>1. Has("match") /\ Has("games")
  BY DEF PagesInv, PageInv, Progress, At, Made, Has
<1>2. /\ page.seen.match \in MatchRec
      /\ page.seen.match.status # "running" => match = page.seen.match /\ page.seen.games = games
  BY <1>1, Zenon DEF PagesInv, PageInv, SeenMatch
<1>3. page.seen.match.status \in {"running", "completed", "failed"}
  BY <1>2 DEF MatchRec
<1>4. CASE page.seen.match.status = "running"
  <2>1. o = ""
    BY <1>4 DEF MatchOutcome
  <2>2. /\ page.seen.games \in Seq(GameRec)
        /\ \A g \in 1..(Len(page.seen.games) - 1) : page.seen.games[g].result # ""
    <3>1. page.kind = "summary" /\ SeenList
      BY DEF PagesInv, PageInv, Made
    <3> QED
      BY <1>1, <3>1, Zenon DEF SeenList
  <2>3. /\ Len(page.seen.games) \in Nat
        /\ DOMAIN page.seen.games = 1..Len(page.seen.games)
        /\ \A g \in 1..Len(page.seen.games) : page.seen.games[g] \in GameRec
    <3> DEFINE gs == page.seen.games
    <3>1. gs \in Seq(GameRec)
      BY <2>2
    <3> HIDE DEF gs
    <3>2. Len(gs) \in Nat /\ DOMAIN gs = 1..Len(gs) /\ \A g \in 1..Len(gs) : gs[g] \in GameRec
      BY <3>1
    <3> QED
      BY <3>2 DEF gs
  <2>4. /\ Len(rows) = Len(page.seen.games)
        /\ \A g \in 1..Len(rows) : rows[g].label = ResultLabel(page.seen.games[g].result)
    <3>1. rows = [g \in 1..Len(page.seen.games) |-> GameRow(page.seen.games[g])]
      BY <2>3
    <3> HIDE DEF rows
    <3>2. Len(rows) = Len(page.seen.games)
      BY <2>3, <3>1
    <3> QED
      BY <3>1, <3>2 DEF GameRow
  <2> HIDE DEF o, rows
  <2>5. \A g \in 1..(Len(rows) - 1) : rows[g].label # "Failed"
    <3> TAKE g \in 1..(Len(rows) - 1)
    <3>1. g \in 1..Len(rows) /\ g \in 1..(Len(page.seen.games) - 1)
      BY <2>3, <2>4
    <3>2. page.seen.games[g] \in GameRec /\ page.seen.games[g].result # ""
      BY <2>2, <2>3, <2>4, <3>1
    <3> QED
      BY <2>4, <3>1, <3>2, Labels
  <2>6. o \notin {"win", "loss", "draw"}
    BY <2>1
  <2> QED
    BY <2>5, <2>6 DEF SummaryAgrees, o, rows
<1>5. CASE page.seen.match.status # "running"
  <2>1. match = page.seen.match /\ page.seen.games = games /\ RowsInv
    BY <1>2, <1>5 DEF PagesInv
  <2>2. rows = [g \in DOMAIN games |-> GameRow(games[g])]
    BY <2>1
  <2> HIDE DEF rows
  <2>3. /\ Len(rows) = Len(games)
        /\ \A g \in 1..Len(games) : rows[g].label # "Failed" <=> Closed(g)
        /\ \A a \in Agent : WonBy(rows, a) = Wins(a)
    BY <2>1, <2>2, SummaryGames
  <2>4. Wins(A) \in Nat /\ Wins(B) \in Nat
    BY <2>1, WinsNat
  <2>5. CASE match.status = "failed"
    <3>1. o = "failed"
      BY <2>1, <2>5 DEF MatchOutcome
    <3> HIDE DEF o
    <3>2. \A g \in 1..(Len(rows) - 1) : rows[g].label # "Failed"
      <4>1. games \in Seq(GameRec)
        BY <2>1 DEF RowsInv, RowsTypeOK, GameRec
      <4>2. \A g \in 1..(Len(games) - 1) : Closed(g) /\ g \in 1..Len(games)
        BY <2>1, <4>1 DEF RowsInv, GamesInv
      <4> QED
        BY <2>3, <4>2
    <3>3. o \notin {"win", "loss", "draw"}
      BY <3>1
    <3> QED
      BY <3>2, <3>3 DEF SummaryAgrees, o, rows
  <2>6. CASE match.status = "completed"
    <3>1. /\ verdict \in Agent \union {"draw"}
          /\ match.winner = IF verdict \in Agent THEN verdict ELSE "null"
          /\ Len(games) = 2 /\ Closed(1) /\ Closed(2) /\ MayReturn(verdict)
      BY <2>1, <2>6 DEF RowsInv, OutcomeInv
    <3>2. Len(rows) = 2 /\ \A g \in 1..2 : rows[g].label # "Failed"
      BY <2>3, <3>1
    <3>3. "draw" \notin Agent /\ "null" \notin Agent /\ A # B
      BY SiteAssumption DEF Agent
    <3>4. o = IF match.winner = "null" THEN "draw" ELSE IF match.winner = A THEN "win" ELSE "loss"
      BY <2>1, <2>6 DEF MatchOutcome
    <3> HIDE DEF o
    <3>5. WonBy(rows, A) = Wins(A) /\ WonBy(rows, B) = Wins(B)
      BY <2>3 DEF Agent
    <3>6. /\ verdict = "draw" => o = "draw" /\ Wins(A) = Wins(B)
          /\ verdict = A => o = "win" /\ Wins(A) >= Wins(B)
          /\ verdict = B => o = "loss" /\ Wins(B) >= Wins(A)
      BY <3>1, <3>3, <3>4 DEF MayReturn, Agent, Other
    <3>7. verdict \in {A, B, "draw"}
      BY <3>1 DEF Agent
    <3>8. /\ o = "win" => Wins(A) >= Wins(B)
          /\ o = "loss" => Wins(B) >= Wins(A)
          /\ o = "draw" => Wins(A) = Wins(B)
          /\ o # "failed" /\ o # ""
      BY <3>6, <3>7
    <3> QED
      BY <3>2, <3>5, <3>8 DEF SummaryAgrees, o, rows
  <2> QED
    BY <1>3, <1>5, <2>1, <2>5, <2>6
<1> QED
  BY <1>4, <1>5

LEMMA ListTrue == PagesInv => ListAgrees
<1> SUFFICES ASSUME PagesInv, Made("practice")
             PROVE  PracticeOutcome(page.seen.match) \in {"-", PracticeOutcome(match)}
  BY DEF ListAgrees
<1>1. Has("match")
  BY DEF PagesInv, PageInv, Progress, At, Made, Has
<1>2. page.seen.match.status # "running" => match = page.seen.match
  BY <1>1, Zenon DEF PagesInv, PageInv, SeenMatch
<1>3. page.seen.match.status = "running" => PracticeOutcome(page.seen.match) = "-"
  BY DEF PracticeOutcome
<1> QED
  BY <1>2, <1>3, Zenon

LEMMA LogsTrue == PagesInv => LogsAgree
<1> SUFFICES ASSUME PagesInv, Made("logs"), page.seen.log.status # "none" PROVE LogsAgree
  BY DEF LogsAgree
<1> DEFINE t == page.seen.log.text
<1>1. Has("log")
  BY DEF PagesInv, PageInv, Progress, At, Made, Has
<1>2. page.seen.log.status = log /\ t = text /\ log # "none"
  BY <1>1, Zenon DEF PagesInv, PageInv, SeenLog
<1>3. /\ t.lines \in Seq(Nat \ {0}) /\ t.blocks \in Seq(Nat)
      /\ t.shown = RenderExecutionLog(t.lines, t.blocks)
  BY <1>2, SiteAssumption DEF PagesInv, TextInv
<1>4. LogText(t.shown, t.lines, t.blocks)
  BY <1>3, LogsWhole
<1>5. log = match.status /\ (~dropped => match.status # "running")
  BY <1>2 DEF PagesInv, RowsInv, OutcomeInv
<1> HIDE DEF t
<1> QED
  BY <1>2, <1>4, <1>5 DEF LogsAgree, LogText, t

\* The view of a finished game explains its result.
LEMMA ViewExplains ==
  ASSUME NEW g, NEW q \in GameRec, q.first = First(g), NEW l \in BOOLEAN,
         q.result \in Ends(g, q.count, l)
  PROVE  ViewAgrees(GameRow(q), GameView(q, Played(g, q.count, l)))
<1> DEFINE n == q.count
           m == Last(n, l)
           view == GameView(q, Played(g, n, l))
           last == view.moves[Len(view.moves)]
<1>0. n \in Nat /\ Cells \in Nat \ {0}
  <2>1. Cells \in Nat \ {0}
    BY SiteAssumption
  <2>2. n \in 0..Cells
    BY DEF GameRec
  <2> QED
    BY <2>1, <2>2
<1>1. /\ view.label = ResultLabel(q.result)
      /\ DOMAIN view.moves = 1..m /\ Len(view.moves) = m
      /\ \A i \in 1..m : /\ view.moves[i].mark = IF i % 2 = 1 THEN "B" ELSE "W"
                         /\ view.moves[i].accepted <=> i <= n
  BY <1>0, Viewed
<1>2. GameRow(q).moves = n
  BY DEF GameRow
<1> HIDE DEF view
<1>3. First(g) \in Agent /\ Other(First(g)) # First(g) /\ Other(Other(First(g))) = First(g)
  BY Agents
<1>4. /\ view.label = "Black wins" <=> q.result = "player_a_win"
      /\ view.label = "White wins" <=> q.result = "player_b_win"
      /\ view.label = "Draw" <=> q.result = "draw"
  BY <1>1, Labels
\* Who may win, by the number of moves.
<1>5. CASE l
  <2>1. m = n + 1 /\ m \in 1..m
    BY <1>0, <1>5 DEF Last
  <2>2. q.result = Win(g, Other(Mover(g, n)))
    BY <1>5 DEF Ends
  <2>3. last.mark = (IF m % 2 = 1 THEN "B" ELSE "W") /\ ~last.accepted
    <3>1. ~(m <= n)
      BY <1>0, <2>1
    <3> QED
      BY <1>1, <2>1, <3>1
  <2>4. m % 2 = 1 <=> n % 2 = 0
    BY <1>0, <2>1
  <2>5. IF m % 2 = 1 THEN view.label = "White wins" ELSE view.label = "Black wins"
    BY <1>3, <1>4, <2>2, <2>4 DEF Win, Mover
  <2>6. Cardinality({i \in DOMAIN view.moves : view.moves[i].accepted}) = n
    <3>1. {i \in DOMAIN view.moves : view.moves[i].accepted} = 1..n
      <4>1. \A i : i \in 1..n <=> i \in 1..m /\ i <= n
        BY <1>0, <2>1
      <4> QED
        BY <1>1, <4>1
    <3> QED
      BY <1>0, <3>1, Counting
  <2>7. view.moves # <<>>
    BY <1>1, <2>1
  <2>8. view.label = IF last.mark = "B" THEN "White wins" ELSE "Black wins"
    BY <2>3, <2>5
  <2> HIDE DEF m
  <2>9. ViewAgrees(GameRow(q), view)
    BY <1>1, <1>2, <2>3, <2>6, <2>7, <2>8 DEF ViewAgrees
  <2> QED
    BY <2>9 DEF view
<1>6. CASE ~l
  <2>1. m = n
    BY <1>6 DEF Last
  <2>2. \/ q.result = "draw" /\ n = Cells
        \/ n > 0 /\ q.result = Win(g, Mover(g, n - 1))
    BY <1>6 DEF Ends
  <2>3. m \in 1..m
    BY <1>0, <2>1, <2>2
  <2>4. last.mark = (IF m % 2 = 1 THEN "B" ELSE "W") /\ last.accepted
    BY <1>0, <1>1, <2>1, <2>3
  <2>5. (n - 1) % 2 = 0 <=> m % 2 = 1
    BY <1>0, <2>1
  <2>6. view.label \in {"Draw", IF m % 2 = 1 THEN "Black wins" ELSE "White wins"}
    <3>1. CASE q.result = "draw"
      BY <1>4, <3>1
    <3>2. CASE q.result = Win(g, Mover(g, n - 1))
      BY <1>3, <1>4, <2>5, <3>2 DEF Win, Mover
    <3> QED
      BY <2>2, <3>1, <3>2
  <2>7. Cardinality({i \in DOMAIN view.moves : view.moves[i].accepted}) = n
    <3>1. {i \in DOMAIN view.moves : view.moves[i].accepted} = 1..n
      <4>1. \A i : i \in 1..n <=> i \in 1..m /\ i <= n
        BY <1>0, <2>1
      <4> QED
        BY <1>1, <4>1
    <3> QED
      BY <1>0, <3>1, Counting
  <2>8. view.moves # <<>>
    BY <1>1, <2>3
  <2>9. view.label \in {"Draw", IF last.mark = "B" THEN "Black wins" ELSE "White wins"}
    BY <2>4, <2>6
  <2> HIDE DEF m
  <2>10. ViewAgrees(GameRow(q), view)
    BY <1>1, <1>2, <2>4, <2>7, <2>8, <2>9 DEF ViewAgrees
  <2> QED
    BY <2>10 DEF view
<1> QED
  BY <1>5, <1>6

LEMMA GamesTrue == PagesInv => GamesAgree
<1> SUFFICES ASSUME PagesInv PROVE GamesAgree
  OBVIOUS
<1>0. Progress /\ SeenGame /\ SeenGames /\ RowsInv
  BY DEF PagesInv, PageInv
<1>1. ASSUME Made("replay") \/ (Made("games") /\ page.seen.games # <<>>)
      PROVE  /\ Has("game") /\ Has("moves")
             /\ page.game \in DOMAIN games
             /\ page.seen.game \in GameRec /\ page.seen.game.first = First(page.game)
  <2>1. Has("game") /\ Has("moves")
    <3>1. CASE Made("replay")
      BY <1>0, <3>1 DEF Progress, At, Made, Has
    <3>2. CASE Made("games") /\ page.seen.games # <<>>
      BY <1>0, <3>2 DEF Progress, At, Made, Has
    <3> QED
      BY <1>1, <3>1, <3>2
  <2> QED
    BY <1>0, <2>1, Zenon DEF SeenGame
<1>2. ASSUME Made("replay") \/ (Made("games") /\ page.seen.games # <<>>), ~dropped
      PROVE  ViewAgrees(GameRow(page.seen.game), GameView(page.seen.game, page.seen.moves))
  <2> DEFINE q == page.seen.game
             g == page.game
  <2>1. /\ Has("game") /\ Has("moves") /\ g \in DOMAIN games
        /\ q \in GameRec /\ q.first = First(g)
    BY <1>1, <1>2
  <2>2. CASE q.result # ""
    <3>1. games[g] = q /\ page.seen.moves = moves[g]
      BY <1>0, <2>1, <2>2, Zenon DEF SeenGame
    <3>2. g \in 1..Len(games) /\ Closed(g)
      <4>1. games \in Seq(GameRec)
        BY <1>0 DEF RowsInv, RowsTypeOK, GameRec
      <4>2. DOMAIN games = 1..Len(games)
        BY <4>1
      <4> QED
        BY <2>1, <2>2, <3>1, <4>2, Zenon DEF Closed
    <3>3. PICK l \in BOOLEAN : /\ moves[g] = Played(g, games[g].count, l)
                               /\ games[g].result \in Ends(g, games[g].count, l)
      BY <1>0, <1>2, <3>2, Zenon DEF RowsInv, MovesInv
    <3> HIDE DEF q, g
    <3>4. ViewAgrees(GameRow(q), GameView(q, Played(g, q.count, l)))
      BY <2>1, <3>1, <3>3, ViewExplains
    <3> QED
      BY <3>1, <3>3, <3>4 DEF q, g
  <2>3. CASE q.result = ""
    <3>1. PICK n \in 0..Cells, l \in BOOLEAN : page.seen.moves = Played(g, n, l)
      BY <1>0, <1>2, <2>1, Zenon DEF SeenGame
    <3> DEFINE view == GameView(q, Played(g, n, l))
    <3>2. n \in Nat
      BY SiteAssumption
    <3> HIDE DEF q, g
    <3>3. /\ view.label = ResultLabel(q.result)
          /\ DOMAIN view.moves = 1..Last(n, l)
          /\ \A i \in 1..Last(n, l) : view.moves[i].mark = IF i % 2 = 1 THEN "B" ELSE "W"
      BY <2>1, <3>2, Viewed
    <3>4. view.label = "Failed"
      BY <2>1, <2>3, <3>3, Labels
    <3> HIDE DEF view
    <3>5. ViewAgrees(GameRow(q), view)
      BY <3>3, <3>4 DEF ViewAgrees
    <3> QED
      BY <3>1, <3>5 DEF q, g, view
  <2> QED
    BY <2>2, <2>3
<1>3. ASSUME Made("games"), page.seen.games # <<>>
      PROVE  \/ page.seen.games[1].result = ""
             \/ GameRow(page.seen.games[1]) = GameRow(page.seen.game)
  <2>1. Has("game") /\ Has("games")
    BY <1>0, <1>3 DEF Progress, At, Made, Has
  <2>2. page.seen.games[1].result # "" => page.seen.game = page.seen.games[1]
    BY <1>0, <1>3, <2>1, Zenon DEF SeenGames, Made
  <2> QED
    BY <2>2, Zenon
<1> QED
  BY <1>2, <1>3, Zenon DEF GamesAgree

\* PagesAgree: what a page says of outcomes, finished games, the log and the list
\* fits together, for every size of the board, log and limit, whatever the worker
\* writes between its reads.
THEOREM PagesTrue == SiteSpec => []PagesAgree
<1>1. PagesInv => PagesAgree
  BY SummaryTrue, GamesTrue, LogsTrue, ListTrue DEF PagesAgree
<1> QED
  BY <1>1, PagesInductive, PTL
=============================================================================
