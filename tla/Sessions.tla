------------------------------ MODULE Sessions ------------------------------
(***************************************************************************)
(* Accounts, sign-in and sessions: auth.Service with its map of failures   *)
(* in memory, and the users and sessions rows, which outlive the process.  *)
(*                                                                         *)
(* The map is behind a mutex and every statement is a step (MatchQueue),   *)
(* but SignIn is several of either: isLocked, the lookup with the check of *)
(* the password, recordFailure or clearFailures, CreateSession. Time is    *)
(* counted in ticks: a lock and a session have so many of them left.       *)
(***************************************************************************)
EXTENDS Integers, FiniteSets

CONSTANTS
  Email,      \* the addresses people sign up and in with
  Handler,    \* the sign-ins that may be under way at a time
  SessionId,  \* the session ids there can be: uuid.NewString() repeats none
  Threshold,  \* 5 in the code
  LockFor,    \* 30 seconds in the code
  TTL,        \* config.SessionTTL
  CountCap    \* bound: up to where failures are counted

ASSUME SessionsAssumption ==
  /\ IsFiniteSet(Handler)
  /\ {Threshold, LockFor, TTL} \subseteq Nat \ {0}
  /\ CountCap \in Nat /\ CountCap >= Threshold

VARIABLES
  users,     \* emails with a users row
  sessions,  \* [SessionId -> its row: the user, and the ticks until it expires]
  failures,  \* [Email -> failureState: Count, and the ticks until LockedTil]
  cookies,   \* the session ids that browsers hold
  login,     \* [Handler -> where SignIn is, for which email]
  tally      \* history: [Email -> failures recorded since it was last locked,
             \* unlocked or cleared]

sessionsVars == <<users, sessions, cookies, failures, login, tally>>

Unused == [state |-> "unused"]   \* not issued yet
Gone   == [state |-> "gone"]     \* the row was deleted
SessionRow(e, left) == [state |-> "row", user |-> e, left |-> left]
NoFailures == [count |-> 0, locked |-> 0]
Idle == [pc |-> "idle"]

SessionsTypeOK ==
  /\ users \subseteq Email
  /\ sessions \in [SessionId -> {Unused, Gone} \union {SessionRow(e, n) : e \in Email, n \in 0..TTL}]
  /\ cookies \subseteq SessionId
  /\ failures \in [Email -> [count : 0..CountCap, locked : 0..LockFor]]
  /\ login \in [Handler -> {Idle} \union
                 [pc : {"verify", "record", "clear", "session"}, email : Email]]
  /\ tally \in [Email -> Nat]

SessionsInit(signedUp) ==
  /\ users = signedUp
  /\ sessions = [i \in SessionId |-> Unused] /\ cookies = {}
  /\ failures = [e \in Email |-> NoFailures]
  /\ login = [h \in Handler |-> Idle]
  /\ tally = [e \in Email |-> 0]

Locked(e) == failures[e].locked > 0

\* SELECT ... WHERE expires_at > datetime('now')
Live(i) == sessions[i].state = "row" /\ sessions[i].left > 0

-----------------------------------------------------------------------------
(* SignUp and SignIn                                                       *)

\* An address that is taken is refused by UNIQUE.
SignUp(e) == /\ e \notin users
             /\ users' = users \union {e}
             /\ UNCHANGED <<sessions, cookies, failures, login, tally>>

Started(h, e) == /\ login[h] = Idle
                 /\ login' = [login EXCEPT ![h] = [pc |-> "verify", email |-> e]]
                 /\ UNCHANGED <<users, sessions, cookies, failures, tally>>

\* Slip: the lock is looked at after the password.
BeginUnchecked(h, e) == Started(h, e)

\* isLocked. A locked address is answered like a wrong password.
Begin(h, e) == ~Locked(e) /\ Started(h, e)

Go(h, label) == login' = [login EXCEPT ![h].pc = label]

\* UserByEmail and verifyPassword: an unknown address and a failing lookup
\* count as a wrong password.
Verify(h) == /\ login[h].pc = "verify"
             /\ \/ login[h].email \in users /\ Go(h, "clear")
                \/ Go(h, "record")
             /\ UNCHANGED <<users, sessions, cookies, failures, tally>>

Counted(f) == IF f.count < CountCap THEN f.count + 1 ELSE CountCap

\* Slip: only the failure that reaches the threshold locks.
BumpedOnce(f) == [count  |-> Counted(f),
                  locked |-> IF Counted(f) = Threshold /\ f.count < Threshold
                             THEN LockFor ELSE f.locked]
\* Slip: a lock is extended, not set anew.
BumpedMore(f) == [count  |-> Counted(f),
                  locked |-> IF Counted(f) >= Threshold THEN f.locked + LockFor ELSE f.locked]

\* The count is not reset when a lock runs out.
Bumped(f) == [count  |-> Counted(f),
              locked |-> IF Counted(f) >= Threshold THEN LockFor ELSE f.locked]

RecordFailure(h) ==
  LET e == login[h].email IN
  /\ login[h].pc = "record"
  /\ failures' = [failures EXCEPT ![e] = Bumped(@)]
  /\ tally' = [tally EXCEPT ![e] = IF ~Locked(e) /\ failures'[e].locked > 0 THEN 0 ELSE @ + 1]
  /\ login' = [login EXCEPT ![h] = Idle]
  /\ UNCHANGED <<users, sessions, cookies>>

ClearFailures(h) ==
  LET e == login[h].email IN
  /\ login[h].pc = "clear"
  /\ failures' = [failures EXCEPT ![e] = NoFailures]
  /\ tally' = [tally EXCEPT ![e] = 0]
  /\ Go(h, "session")
  /\ UNCHANGED <<users, sessions, cookies>>

\* SetSessionCookie follows. An INSERT that fails is an error for the user,
\* whose failures are cleared.
CreateSession(h) ==
  /\ login[h].pc = "session"
  /\ \/ \E i \in SessionId : /\ sessions[i] = Unused
                             /\ sessions' = [sessions EXCEPT ![i] = SessionRow(login[h].email, TTL)]
                             /\ cookies' = cookies \union {i}
     \/ UNCHANGED <<sessions, cookies>>
  /\ login' = [login EXCEPT ![h] = Idle]
  /\ UNCHANGED <<users, failures, tally>>

-----------------------------------------------------------------------------
(* SignOut, time, and the start of a process                               *)

\* The session has passed RequireLogin. The error of its DELETE is discarded:
\* the browser forgets the session, whose row may stay until it expires.
SignOut(i) == /\ i \in cookies /\ Live(i)
              /\ \/ sessions' = [sessions EXCEPT ![i] = Gone]
                 \/ UNCHANGED sessions
              /\ cookies' = cookies \ {i}
              /\ UNCHANGED <<users, failures, login, tally>>

Less(n) == IF n > 0 THEN n - 1 ELSE 0

Tick == /\ \/ \E e \in Email : Locked(e)
           \/ \E i \in SessionId : Live(i)
        /\ failures' = [e \in Email |-> [failures[e] EXCEPT !.locked = Less(@)]]
        /\ sessions' = [i \in SessionId |->
                          IF Live(i) THEN [sessions[i] EXCEPT !.left = Less(@)] ELSE sessions[i]]
        /\ tally' = [e \in Email |-> IF Locked(e) /\ failures'[e].locked = 0 THEN 0 ELSE tally[e]]
        /\ UNCHANGED <<users, cookies, login>>

\* Slip: the clean-up takes a session in its last tick for an expired one.
EndsSoon(row) == row.state = "row" /\ row.left <= 1
Expired(row) == row.state = "row" /\ row.left = 0

\* A new process: the failures were in memory, and Store.Init deletes the
\* sessions that have expired. It is the only place that does.
StartProcess ==
  /\ failures' = [e \in Email |-> NoFailures]
  /\ tally' = [e \in Email |-> 0]
  /\ login' = [h \in Handler |-> Idle]
  /\ sessions' = [i \in SessionId |-> IF Expired(sessions[i]) THEN Gone ELSE sessions[i]]
  /\ UNCHANGED <<users, cookies>>

SignInStep == \E h \in Handler : \/ \E e \in Email : Begin(h, e)
                                 \/ Verify(h) \/ RecordFailure(h)
                                 \/ ClearFailures(h) \/ CreateSession(h)

-----------------------------------------------------------------------------
(* Properties                                                              *)

\* Sign-ins that looked at the lock before it was set still record their
\* failures, but no others do: an address takes fewer than Threshold failures
\* before it is locked, and each time it is locked fewer than there are
\* sign-ins under way. A lock that runs out takes a single failure to return.
Throttled ==
  \A e \in Email : tally[e] < IF Locked(e) THEN Cardinality(Handler) ELSE Threshold

\* A session whose row was deleted or has expired never counts again, a new one
\* is that of a user whose password was verified, and neither a restart nor
\* what others do ends one before its time: its own sign-out may, and where the
\* DELETE of that fails it lasts until it expires.
SessionsSurvive ==
  [][\A i \in SessionId :
       /\ Live(i)' => \/ Live(i) /\ sessions'[i].user = sessions[i].user
                      \/ /\ sessions[i] = Unused
                         /\ \E h \in Handler : /\ login[h].pc = "session"
                                               /\ login[h].email = sessions'[i].user
       /\ Live(i) /\ ~Live(i)' => SignOut(i) \/ Tick]_sessionsVars
=============================================================================
