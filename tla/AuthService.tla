-------------------------------- MODULE AuthService -------------------------------
(***********************************************************************************)
(* AuthService: the user database, kept in memory and saved to one file after     *)
(* every change, and the sessions, kept in memory only.  A call that touches the  *)
(* users holds their write lock to its end, saving included; a login also holds   *)
(* that of the sessions while it saves.  Each action is what a call does between  *)
(* two of its awaits; the machine may crash between any two.                       *)
(*                                                                                 *)
(* Left out: validate_session and has_capability, which change nothing, and uids, *)
(* capabilities and the enabled flag, which no call changes.                       *)
(***********************************************************************************)
EXTENDS Naturals

CONSTANTS
  Tasks,                       \* concurrent callers
  Names, Admin,                \* the user names; the one that cannot be deleted
  Passwords,
  max_failed_attempts, lockout_duration, session_timeout,    \* AuthConfig
  MaxCalls, MaxTime,           \* bounds: calls on the users, ticks of the clock
  Nobody, NotLocked, Torn      \* no task; locked_until = None; an unreadable file

ASSUME AdminAssumption == Admin \in Names
ASSUME NobodyAssumption == Nobody \notin Tasks
ASSUME NotLockedAssumption == NotLocked \notin Nat
ASSUME ConfigAssumption ==
  /\ max_failed_attempts \in Nat \ {0}
  /\ lockout_duration \in Nat /\ session_timeout \in Nat
  /\ MaxCalls \in Nat /\ MaxTime \in Nat

VARIABLES
  users,                       \* name -> user record
  sessions,                    \* token -> session
  U, S,                        \* who holds the write locks of users and sessions
  disk,                        \* what the database file holds, or Torn
  up,                          \* the service runs
  now,
  calls,                       \* calls on the users so far; a login's token is its number
  pc, call,                    \* per task: where its call is, and the call
  data,                        \* per task: what it serialized
  guesses,                     \* history: wrong passwords that logins answered since the
                               \* count began
  promised,                    \* history: name -> password that was last acknowledged
  deleted                      \* history: names whose deletion was acknowledged

memory == <<users, sessions, U, S>>
history == <<guesses, promised, deleted>>
vars == <<memory, disk, up, now, calls, pc, call, data, history>>

NewUser(password) ==
  [password |-> password, failed_attempts |-> 0, locked_until |-> NotLocked]

With(f, n, v) == [m \in DOMAIN f \cup {n} |-> IF m = n THEN v ELSE f[m]]

Without(f, names) == [n \in DOMAIN f \ names |-> f[n]]

-----------------------------------------------------------------------------------
\* new_with_clock has created and saved a database with the admin user.
Init ==
  /\ \E p \in Passwords : users = [n \in {Admin} |-> NewUser(p)] /\ promised = [n \in {Admin} |-> p]
  /\ sessions = <<>>
  /\ U = Nobody /\ S = Nobody
  /\ disk = users
  /\ up = TRUE
  /\ now = 0
  /\ calls = 0
  /\ pc = [t \in Tasks |-> "idle"]
  /\ call = [t \in Tasks |-> Nobody]
  /\ data = [t \in Tasks |-> Nobody]
  /\ guesses = [n \in Names |-> 0]
  /\ deleted = {}

\* self.users.write().await is granted.
LockUsers(t) ==
  /\ up
  /\ pc[t] = "idle"
  /\ U = Nobody /\ U' = t
  /\ calls < MaxCalls /\ calls' = calls + 1

Goto(t, place) == pc' = [pc EXCEPT ![t] = place]

Calls(t, c) == call' = [call EXCEPT ![t] = c]

ForgetGuesses(n) == guesses' = [guesses EXCEPT ![n] = 0]

\* The call returns: its guards are dropped.
Return(t) ==
  /\ Goto(t, "idle")
  /\ call' = [call EXCEPT ![t] = Nobody]
  /\ data' = [data EXCEPT ![t] = Nobody]
  /\ U' = Nobody
  /\ S' = IF S = t THEN Nobody ELSE S

-----------------------------------------------------------------------------------
Locked(user) == user.locked_until # NotLocked /\ now < user.locked_until

\* A lockout that is over is cleared.
Cleared(user) ==
  IF user.locked_until = NotLocked THEN user
  ELSE [user EXCEPT !.locked_until = NotLocked, !.failed_attempts = 0]

\* Mutation: one wrong password more before the lockout.
CountGuess_OffByOne(user) ==
  LET n == user.failed_attempts + 1
  IN  [user EXCEPT !.failed_attempts = n,
                   !.locked_until = IF n > max_failed_attempts THEN now + lockout_duration ELSE @]

CountGuess(user) ==
  LET n == user.failed_attempts + 1
  IN  [user EXCEPT !.failed_attempts = n,
                   !.locked_until = IF n >= max_failed_attempts THEN now + lockout_duration ELSE @]

\* authenticate with a wrong password, up to the save.
AuthenticateWrong(t, n, p) ==
  /\ LockUsers(t)
  /\ n \in DOMAIN users /\ ~ Locked(users[n]) /\ users[n].password # p
  /\ users' = [users EXCEPT ![n] = CountGuess(Cleared(@))]
  /\ Calls(t, [kind |-> "wrong", name |-> n])
  /\ Goto(t, "save")
  /\ IF users[n].locked_until = NotLocked THEN UNCHANGED guesses ELSE ForgetGuesses(n)
  /\ UNCHANGED <<sessions, S, disk, up, now, data, promised, deleted>>

\* authenticate with the right one, up to the lock of the sessions ...
AuthenticateRight(t, n, p) ==
  /\ LockUsers(t)
  /\ n \in DOMAIN users /\ ~ Locked(users[n]) /\ users[n].password = p
  /\ users' = [users EXCEPT ![n] = [Cleared(@) EXCEPT !.failed_attempts = 0]]
  /\ Calls(t, [kind |-> "login", name |-> n, token |-> calls + 1,
               expires_at |-> now + session_timeout])
  /\ Goto(t, "session")
  /\ ForgetGuesses(n)
  /\ UNCHANGED <<sessions, S, disk, up, now, data, promised, deleted>>

\* ... which it keeps: the session is stored before the database is saved.
StoreSession(t) ==
  /\ pc[t] = "session"
  /\ S = Nobody /\ S' = t
  /\ sessions' = With(sessions, call[t].token,
                      [username |-> call[t].name, expires_at |-> call[t].expires_at])
  /\ Goto(t, "save")
  /\ UNCHANGED <<users, U, disk, up, now, calls, call, data, history>>

create_user(t, n, p) ==
  /\ LockUsers(t)
  /\ n \notin DOMAIN users
  /\ users' = With(users, n, NewUser(p))
  /\ Calls(t, [kind |-> "set", name |-> n, password |-> p])
  /\ Goto(t, "save")
  /\ promised' = Without(promised, {n})
  /\ deleted' = deleted \ {n}
  /\ ForgetGuesses(n)
  /\ UNCHANGED <<sessions, S, disk, up, now, data>>

\* Mutation: the lock is not kept while the database is saved.
change_password_Unlocked(t, n, old, p) ==
  /\ up /\ pc[t] = "idle" /\ U = Nobody
  /\ calls < MaxCalls /\ calls' = calls + 1
  /\ n \in DOMAIN users /\ users[n].password = old
  /\ users' = [users EXCEPT ![n].password = p]
  /\ Calls(t, [kind |-> "set", name |-> n, password |-> p])
  /\ Goto(t, "save")
  /\ promised' = Without(promised, {n})
  /\ UNCHANGED <<sessions, U, S, disk, up, now, data, guesses, deleted>>

\* The lockout does not matter here ...
change_password(t, n, old, p) ==
  /\ LockUsers(t)
  /\ n \in DOMAIN users /\ users[n].password = old
  /\ users' = [users EXCEPT ![n].password = p]
  /\ Calls(t, [kind |-> "set", name |-> n, password |-> p])
  /\ Goto(t, "save")
  /\ promised' = Without(promised, {n})
  /\ UNCHANGED <<sessions, S, disk, up, now, data, guesses, deleted>>

\* ... nor to a wrong old password, which is answered at once: the count of failed
\* logins is not touched and nothing is saved.
RefuseChange(t, n, old) ==
  /\ up /\ pc[t] = "idle" /\ U = Nobody
  /\ calls < MaxCalls /\ calls' = calls + 1
  /\ n \in DOMAIN users /\ users[n].password # old
  /\ UNCHANGED <<memory, disk, up, now, pc, call, data, history>>

delete_user(t, n) ==
  /\ LockUsers(t)
  /\ n # Admin /\ n \in DOMAIN users
  /\ users' = Without(users, {n})
  /\ Calls(t, [kind |-> "delete", name |-> n])
  /\ Goto(t, "save")
  /\ promised' = Without(promised, {n})
  /\ ForgetGuesses(n)
  /\ UNCHANGED <<sessions, S, disk, up, now, data, deleted>>

-----------------------------------------------------------------------------------
\* save_database: the users are serialized and the file is truncated ...
Truncate(t) ==
  /\ pc[t] = "save"
  /\ data' = [data EXCEPT ![t] = users]
  /\ disk' = Torn
  /\ Goto(t, "write")
  /\ UNCHANGED <<memory, up, now, calls, call, history>>

\* ... and written.
Written(t) == pc[t] = "write" /\ disk' = data[t]

\* Either step can fail: the call returns the error and memory keeps the change.
SaveFails(t) ==
  /\ pc[t] \in {"save", "write"}
  /\ Return(t)
  /\ UNCHANGED <<users, sessions, disk, up, now, calls, history>>

\* "Invalid username or password"
AnswerWrong(t) ==
  /\ Written(t)
  /\ call[t].kind = "wrong"
  /\ guesses' = [guesses EXCEPT ![call[t].name] = @ + 1]
  /\ Return(t)
  /\ UNCHANGED <<users, sessions, up, now, calls, promised, deleted>>

AnswerLogin(t) ==
  /\ Written(t)
  /\ call[t].kind = "login"
  /\ Return(t)
  /\ UNCHANGED <<users, sessions, up, now, calls, history>>

AnswerSet(t) ==
  /\ Written(t)
  /\ call[t].kind = "set"
  /\ promised' = With(promised, call[t].name, call[t].password)
  /\ Return(t)
  /\ UNCHANGED <<users, sessions, up, now, calls, guesses, deleted>>

\* delete_user goes on to purge the sessions, users still locked.
DeleteWritten(t) ==
  /\ Written(t)
  /\ call[t].kind = "delete"
  /\ Goto(t, "purge")
  /\ UNCHANGED <<memory, up, now, calls, call, data, history>>

\* Mutation: delete_user answers without purging the sessions.
Purge_Forgotten(t) ==
  /\ pc[t] = "purge" /\ S = Nobody
  /\ deleted' = deleted \cup {call[t].name}
  /\ Return(t)
  /\ UNCHANGED <<users, sessions, disk, up, now, calls, guesses, promised>>

Purge(t) ==
  /\ pc[t] = "purge" /\ S = Nobody
  /\ sessions' = Without(sessions, {k \in DOMAIN sessions : sessions[k].username = call[t].name})
  /\ deleted' = deleted \cup {call[t].name}
  /\ Return(t)
  /\ UNCHANGED <<users, disk, up, now, calls, guesses, promised>>

-----------------------------------------------------------------------------------
SessionsOnly == UNCHANGED <<users, U, S, disk, up, now, calls, pc, call, data, history>>

logout(token) ==
  /\ up /\ S = Nobody
  /\ token \in DOMAIN sessions
  /\ sessions' = Without(sessions, {token})
  /\ SessionsOnly

cleanup_sessions ==
  /\ up /\ S = Nobody
  /\ sessions' = Without(sessions, {k \in DOMAIN sessions : sessions[k].expires_at <= now})
  /\ SessionsOnly

Tick ==
  /\ now < MaxTime /\ now' = now + 1
  /\ UNCHANGED <<memory, disk, up, calls, pc, call, data, history>>

\* The process ends; only the file is left.
Crash ==
  /\ up /\ up' = FALSE
  /\ users' = <<>> /\ sessions' = <<>>
  /\ U' = Nobody /\ S' = Nobody
  /\ pc' = [t \in Tasks |-> "idle"]
  /\ call' = [t \in Tasks |-> Nobody]
  /\ data' = [t \in Tasks |-> Nobody]
  /\ UNCHANGED <<disk, now, calls, history>>

\* new_with_clock loads the file; if it cannot be read the service does not start.
Restart ==
  /\ ~ up /\ up' = TRUE
  /\ disk # Torn
  /\ users' = disk
  /\ UNCHANGED <<sessions, U, S, disk, now, calls, pc, call, data, history>>

-----------------------------------------------------------------------------------
UserCall(t) ==
  \E n \in Names :
    \/ delete_user(t, n)
    \/ \E p \in Passwords :
         AuthenticateWrong(t, n, p) \/ AuthenticateRight(t, n, p) \/ create_user(t, n, p)
    \/ \E old, p \in Passwords : change_password(t, n, old, p)
    \/ \E old \in Passwords : RefuseChange(t, n, old)

CallStep(t) ==
  \/ StoreSession(t) \/ Truncate(t) \/ SaveFails(t)
  \/ AnswerWrong(t) \/ AnswerLogin(t) \/ AnswerSet(t)
  \/ DeleteWritten(t) \/ Purge(t)

Next ==
  \/ \E t \in Tasks : UserCall(t) \/ CallStep(t)
  \/ \E token \in DOMAIN sessions : logout(token)
  \/ cleanup_sessions \/ Tick
  \/ Crash \/ Restart

Spec == Init /\ [][Next]_vars

-----------------------------------------------------------------------------------
(***********************************************************************************)
(* Properties.                                                                     *)
(***********************************************************************************)
User == [password : Passwords, failed_attempts : Nat, locked_until : Nat \cup {NotLocked}]

IsDatabase(db) == DOMAIN db \subseteq Names /\ \A n \in DOMAIN db : db[n] \in User

\* Type invariant.  Whoever is in a call on the users holds their lock.
TypeOK ==
  /\ IsDatabase(users)
  /\ disk # Torn => IsDatabase(disk)
  /\ \A k \in DOMAIN sessions : sessions[k] \in [username : Names, expires_at : Nat]
  /\ pc \in [Tasks -> {"idle", "session", "save", "write", "purge"}]
  /\ DOMAIN call = Tasks /\ DOMAIN data = Tasks
  /\ \A t \in Tasks : pc[t] # "idle" <=> U = t
  /\ now \in Nat
  /\ S # Nobody => S = U
  /\ guesses \in [Names -> Nat]
  /\ \A n \in DOMAIN promised : n \in Names /\ promised[n] \in Passwords
  /\ deleted \subseteq Names

\* "Maximum failed login attempts before lockout" (auth/mod.rs:55): however calls
\* interleave, saves fail and the machine crashes and restarts, authenticate answers no
\* more than max_failed_attempts wrong passwords of a user before the right one is given
\* or a lockout has run its time.  The bound is on logins only: change_password tells
\* wrong old passwords too, without counting them, and also while the user is locked out.
FailedLoginsBounded == \A n \in Names : guesses[n] <= max_failed_attempts

\* "Remove any active sessions for this user" (auth/mod.rs:414) and more: a deletion
\* that was acknowledged is final; the user is in no database and has no session, until
\* it is created again.
DeletionIsFinal ==
  \A n \in deleted :
    /\ n \notin DOMAIN users
    /\ disk # Torn => n \notin DOMAIN disk
    /\ \A k \in DOMAIN sessions : sessions[k].username # n

\* A password that was acknowledged is the one in memory and in the file, across
\* failing saves of other calls and across restarts.
PromisesKept ==
  \A n \in DOMAIN promised :
    /\ up => n \in DOMAIN users /\ users[n].password = promised[n]
    /\ disk # Torn => n \in DOMAIN disk /\ disk[n].password = promised[n]

\* "User database persistence" (auth/mod.rs:7): after a crash the service can start.  The
\* code does not keep this, as the file is overwritten in place; no run checks it.
RestartPossible == ~ up => disk # Torn
===================================================================================
