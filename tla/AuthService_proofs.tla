---------------------------- MODULE AuthService_proofs ----------------------------
(***********************************************************************************)
(* The properties of AuthService for every set of callers, names and passwords    *)
(* and every configuration.                                                        *)
(***********************************************************************************)
EXTENDS AuthService, TLAPS

\* The call under way in a place it can be, and what it found when it locked the users.
Places == [login  |-> {"session", "save", "write"},
           wrong  |-> {"save", "write"},
           set    |-> {"save", "write"},
           delete |-> {"save", "write", "purge"}]

CallOK(t) ==
  /\ call[t].kind \in {"login", "wrong", "set", "delete"}
  /\ pc[t] \in Places[call[t].kind]
  /\ call[t].name \in Names
  /\ call[t].kind = "delete" => call[t].name \notin DOMAIN users
  /\ call[t].kind # "delete" => call[t].name \in DOMAIN users
  /\ call[t].kind = "login" => call[t].expires_at \in Nat
  /\ call[t].kind = "set" => users[call[t].name].password = call[t].password
  /\ call[t].kind = "wrong" =>
       guesses[call[t].name] < users[call[t].name].failed_attempts

CallInv == \A t \in Tasks : pc[t] # "idle" => CallOK(t)

\* What is being written is what memory holds, because the lock is kept.
FileInv ==
  /\ ~ up => U = Nobody
  /\ \A t \in Tasks : pc[t] = "write" => data[t] = users /\ disk = Torn
  /\ \A t \in Tasks : pc[t] = "purge" => disk = users

\* A user whose lockout has not begun has wrong passwords left, and no fewer were counted
\* than answered.
Counted(db, g) ==
  \A n \in Names :
    IF n \in DOMAIN db
    THEN /\ g[n] <= db[n].failed_attempts
         /\ db[n].failed_attempts <= max_failed_attempts
         /\ db[n].locked_until = NotLocked => db[n].failed_attempts < max_failed_attempts
    ELSE g[n] = 0

CountInv ==
  /\ FailedLoginsBounded
  /\ up => Counted(users, guesses)
  /\ disk # Torn => Counted(disk, guesses)

IInv == TypeOK /\ CallInv /\ FileInv /\ CountInv /\ DeletionIsFinal /\ PromisesKept

-----------------------------------------------------------------------------------
LEMMA InvInit == Init => IInv
<1> SUFFICES ASSUME Init PROVE IInv
  OBVIOUS
<1> USE AdminAssumption, NobodyAssumption, ConfigAssumption DEF Init
<1>1. IsDatabase(users)
  BY DEF IsDatabase, User, NewUser
<1>2. TypeOK
  BY <1>1 DEF TypeOK
<1>3. CallInv /\ FileInv
  BY DEF CallInv, FileInv
<1>4. Counted(users, guesses)
  BY DEF Counted, NewUser
<1>5. CountInv
  BY <1>4 DEF CountInv, FailedLoginsBounded
<1>6. DeletionIsFinal
  BY DEF DeletionIsFinal
<1>7. PromisesKept
  BY DEF PromisesKept, NewUser
<1> QED BY <1>2, <1>3, <1>5, <1>6, <1>7 DEF IInv

\* A call keeps the lock of the users until it returns.
LEMMA ReturnFacts ==
  ASSUME IInv, NEW t \in Tasks, pc[t] # "idle", Return(t), UNCHANGED up
  PROVE  /\ \A u \in Tasks : pc'[u] = "idle"
         /\ U = t /\ U' = Nobody /\ S' = Nobody /\ up
         /\ pc' \in [Tasks -> {"idle", "session", "save", "write", "purge"}]
         /\ DOMAIN call' = Tasks /\ DOMAIN data' = Tasks
         /\ CallInv' /\ FileInv'
<1>1. U = t /\ up
  BY NobodyAssumption DEF IInv, TypeOK, FileInv
<1>2. /\ \A u \in Tasks : pc'[u] = "idle"
      /\ U' = Nobody /\ S' = Nobody
      /\ pc' \in [Tasks -> {"idle", "session", "save", "write", "purge"}]
      /\ DOMAIN call' = Tasks /\ DOMAIN data' = Tasks
  BY <1>1 DEF IInv, TypeOK, Return, Goto
<1> QED BY <1>1, <1>2 DEF CallInv, FileInv

\* A call that goes on is still the only one.
LEMMA GoesOnFacts ==
  ASSUME IInv, NEW t \in Tasks, pc[t] # "idle", NEW place \in {"save", "write", "purge"},
         Goto(t, place), UNCHANGED <<U, up>>
  PROVE  /\ U = t /\ up /\ CallOK(t)
         /\ pc' \in [Tasks -> {"idle", "session", "save", "write", "purge"}]
         /\ pc'[t] = place
         /\ \A u \in Tasks : pc'[u] # "idle" <=> u = t
BY NobodyAssumption DEF IInv, TypeOK, FileInv, CallInv, Goto

\* The file holds what memory holds once it is written.
LEMMA WrittenFacts ==
  ASSUME IInv, NEW t \in Tasks, Written(t)
  PROVE  /\ pc[t] = "write" /\ disk' = users /\ disk = Torn /\ up
         /\ IsDatabase(users) /\ CallOK(t) /\ Counted(users, guesses)
BY NobodyAssumption DEF IInv, TypeOK, FileInv, CallInv, CountInv, Written

\* What is left to show when a call starts: it is the only one, and saves nothing yet.
LEMMA StartFacts ==
  ASSUME TypeOK, NEW t \in Tasks, LockUsers(t), NEW place \in {"session", "save"},
         NEW c, Goto(t, place), Calls(t, c), UNCHANGED <<S, disk, up, data>>
  PROVE  /\ U' = t /\ S' = Nobody /\ up /\ up' /\ FileInv'
         /\ pc' \in [Tasks -> {"idle", "session", "save", "write", "purge"}]
         /\ \A u \in Tasks : pc'[u] # "idle" <=> u = t
         /\ pc'[t] = place /\ call'[t] = c
         /\ DOMAIN call' = Tasks
BY NobodyAssumption DEF TypeOK, LockUsers, Goto, Calls, FileInv

LEMMA ClearedFacts ==
  ASSUME NEW user \in User
  PROVE  /\ Cleared(user) \in User
         /\ Cleared(user).password = user.password
BY DEF User, Cleared

LEMMA CountFacts ==
  ASSUME NEW user \in User, now \in Nat
  PROVE  /\ CountGuess(user) \in User
         /\ CountGuess(user).password = user.password
         /\ CountGuess(user).failed_attempts = user.failed_attempts + 1
         /\ CountGuess(user).locked_until = NotLocked => 
              user.failed_attempts + 1 < max_failed_attempts
<1> DEFINE n == user.failed_attempts + 1
           until == IF n >= max_failed_attempts THEN now + lockout_duration ELSE user.locked_until
<1>1. n \in Nat /\ until \in Nat \cup {NotLocked}
  BY ConfigAssumption DEF User
<1>2. CountGuess(user) = [user EXCEPT !.failed_attempts = n, !.locked_until = until]
  BY DEF CountGuess
<1>3. /\ CountGuess(user).failed_attempts = n /\ CountGuess(user).locked_until = until
      /\ CountGuess(user).password = user.password /\ CountGuess(user) \in User
  BY <1>1, <1>2 DEF User
<1> QED BY <1>1, <1>3, ConfigAssumption, NotLockedAssumption DEF User

\* Forgetting wrong passwords keeps a database in order.
LEMMA FewerCounted ==
  ASSUME NEW db, IsDatabase(db), NEW g \in [Names -> Nat], NEW h \in [Names -> Nat],
         \A n \in Names : h[n] <= g[n], Counted(db, g)
  PROVE  Counted(db, h)
<1> SUFFICES ASSUME NEW n \in Names
             PROVE  IF n \in DOMAIN db
                    THEN /\ h[n] <= db[n].failed_attempts
                         /\ db[n].failed_attempts <= max_failed_attempts
                         /\ db[n].locked_until = NotLocked =>
                              db[n].failed_attempts < max_failed_attempts
                    ELSE h[n] = 0
  BY DEF Counted
<1>1. g[n] \in Nat /\ h[n] \in Nat /\ h[n] <= g[n]
  OBVIOUS
<1>2. n \in DOMAIN db => db[n].failed_attempts \in Nat
  BY DEF IsDatabase, User
<1> QED BY <1>1, <1>2 DEF Counted

\* So do the bounds and the file when a call only forgets some.
LEMMA ForgetFacts ==
  ASSUME TypeOK, CountInv, NEW n \in Names, UNCHANGED disk,
         guesses' = guesses \/ ForgetGuesses(n)
  PROVE  /\ guesses' \in [Names -> Nat]
         /\ \A m \in Names : guesses'[m] <= guesses[m]
         /\ \A m \in Names \ {n} : guesses'[m] = guesses[m]
         /\ FailedLoginsBounded'
         /\ disk' # Torn => Counted(disk', guesses')
         /\ up => Counted(users, guesses')
<1>1. /\ guesses \in [Names -> Nat] /\ guesses' \in [Names -> Nat]
      /\ \A m \in Names \ {n} : guesses'[m] = guesses[m]
      /\ \A m \in Names : guesses'[m] <= guesses[m]
  BY DEF TypeOK, ForgetGuesses
<1>2. FailedLoginsBounded'
  BY <1>1, ConfigAssumption DEF FailedLoginsBounded, CountInv
<1>3. disk # Torn => Counted(disk, guesses')
  BY <1>1, FewerCounted DEF TypeOK, CountInv
<1>4. up => Counted(users, guesses')
  BY <1>1, FewerCounted DEF TypeOK, CountInv
<1> QED BY <1>1, <1>2, <1>3, <1>4

-----------------------------------------------------------------------------------
LEMMA WrongStep ==
  ASSUME IInv, NEW t \in Tasks, NEW n \in Names, NEW p \in Passwords, AuthenticateWrong(t, n, p)
  PROVE  IInv'
<1> DEFINE c == [kind |-> "wrong", name |-> n]
<1> USE DEF IInv, AuthenticateWrong
<1>1. n \in DOMAIN users /\ users[n] \in User /\ now \in Nat
  BY DEF TypeOK, IsDatabase
<1>2. /\ U' = t /\ S' = Nobody /\ up /\ up' /\ FileInv'
      /\ pc' \in [Tasks -> {"idle", "session", "save", "write", "purge"}]
      /\ \A u \in Tasks : pc'[u] # "idle" <=> u = t
      /\ pc'[t] = "save" /\ call'[t] = c /\ DOMAIN call' = Tasks
  BY StartFacts
<1> DEFINE old == Cleared(users[n])
           new == CountGuess(old)
<1>3. /\ old \in User /\ old.password = users[n].password
      /\ new \in User /\ new.password = users[n].password
      /\ new.failed_attempts = old.failed_attempts + 1
      /\ new.locked_until = NotLocked => old.failed_attempts + 1 < max_failed_attempts
  BY <1>1, ClearedFacts, CountFacts
<1>4. /\ guesses' \in [Names -> Nat] /\ guesses'[n] <= old.failed_attempts
      /\ \A m \in Names \ {n} : guesses'[m] = guesses[m]
      /\ \A m \in Names : guesses'[m] <= guesses[m]
      /\ old.failed_attempts < max_failed_attempts
  <2>1. guesses \in [Names -> Nat] /\ Counted(users, guesses)
    BY <1>2 DEF TypeOK, CountInv
  <2>2. CASE users[n].locked_until = NotLocked
    <3>1. old = users[n] /\ guesses' = guesses
      BY <2>2 DEF Cleared
    <3> QED BY <1>1, <2>1, <2>2, <3>1 DEF Counted
  <2>3. CASE users[n].locked_until # NotLocked
    <3>1. old.failed_attempts = 0 /\ guesses' = [guesses EXCEPT ![n] = 0]
      BY <1>1, <2>3 DEF Cleared, ForgetGuesses, User
    <3> QED BY <2>1, <3>1, ConfigAssumption
  <2> QED BY <2>2, <2>3
<1>5. DOMAIN users' = DOMAIN users /\ users'[n] = new /\ \A m \in DOMAIN users \ {n} : users'[m] = users[m]
  BY <1>1
<1> HIDE DEF old, new
<1>6. TypeOK'
  BY <1>2, <1>3, <1>4, <1>5 DEF TypeOK, IsDatabase
<1>7. CallInv'
  <2>1. guesses'[n] < users'[n].failed_attempts
    BY <1>3, <1>4, <1>5 DEF User
  <2>2. call'[t].kind = "wrong" /\ call'[t].name = n /\ pc'[t] \in Places["wrong"]
    BY <1>2 DEF Places
  <2> QED BY <1>1, <1>2, <1>5, <2>1, <2>2 DEF CallInv, CallOK
<1>8. CountInv'
  <2>1. FailedLoginsBounded' /\ (disk' # Torn => Counted(disk', guesses'))
    BY ForgetFacts
  <2>2. ASSUME NEW m \in Names, m \in DOMAIN users'
        PROVE  /\ guesses'[m] <= users'[m].failed_attempts
               /\ users'[m].failed_attempts <= max_failed_attempts
               /\ users'[m].locked_until = NotLocked =>
                    users'[m].failed_attempts < max_failed_attempts
    <3>1. CASE m = n
      BY <2>2, <3>1, <1>3, <1>4, <1>5, ConfigAssumption DEF User
    <3>2. CASE m # n
      BY <2>2, <3>2, <1>2, <1>4, <1>5 DEF CountInv, Counted
    <3> QED BY <3>1, <3>2
  <2>3. ASSUME NEW m \in Names, m \notin DOMAIN users'
        PROVE  guesses'[m] = 0
    BY <2>3, <1>2, <1>4, <1>5 DEF CountInv, Counted
  <2> QED BY <2>1, <2>2, <2>3 DEF CountInv, Counted
<1>9. DeletionIsFinal' /\ PromisesKept'
  <2>1. DeletionIsFinal'
    BY <1>2, <1>3, <1>5 DEF DeletionIsFinal
  <2>2. PromisesKept'
    BY <1>2, <1>3, <1>5 DEF PromisesKept
  <2> QED BY <2>1, <2>2
<1> QED BY <1>2, <1>6, <1>7, <1>8, <1>9

LEMMA RightStep ==
  ASSUME IInv, NEW t \in Tasks, NEW n \in Names, NEW p \in Passwords, AuthenticateRight(t, n, p)
  PROVE  IInv'
<1> DEFINE c == [kind |-> "login", name |-> n, token |-> calls + 1,
                  expires_at |-> now + session_timeout]
           new == [Cleared(users[n]) EXCEPT !.failed_attempts = 0]
<1> USE DEF IInv, AuthenticateRight
<1>1. n \in DOMAIN users /\ users[n] \in User
  BY DEF TypeOK, IsDatabase
<1>2. /\ U' = t /\ S' = Nobody /\ up /\ up' /\ FileInv'
      /\ pc' \in [Tasks -> {"idle", "session", "save", "write", "purge"}]
      /\ \A u \in Tasks : pc'[u] # "idle" <=> u = t
      /\ pc'[t] = "session" /\ call'[t] = c /\ DOMAIN call' = Tasks
  BY StartFacts
<1>3. new \in User /\ new.password = users[n].password /\ new.failed_attempts = 0
  BY <1>1, ClearedFacts DEF User
<1>4. DOMAIN users' = DOMAIN users /\ users'[n] = new /\ \A m \in DOMAIN users \ {n} : users'[m] = users[m]
  BY <1>1
<1>5. guesses \in [Names -> Nat] /\ guesses' = [guesses EXCEPT ![n] = 0]
  BY DEF TypeOK, ForgetGuesses
<1> HIDE DEF new
<1>6. TypeOK'
  BY <1>2, <1>3, <1>4, <1>5 DEF TypeOK, IsDatabase
<1>7. CallInv'
  <2>1. /\ call'[t].kind = "login" /\ call'[t].name = n /\ pc'[t] \in Places["login"]
        /\ call'[t].expires_at = now + session_timeout
    BY <1>2 DEF Places
  <2>2. now + session_timeout \in Nat
    BY ConfigAssumption DEF TypeOK
  <2> QED BY <1>1, <1>2, <1>4, <2>1, <2>2 DEF CallInv, CallOK
<1>8. CountInv'
  <2>1. FailedLoginsBounded' /\ (disk' # Torn => Counted(disk', guesses'))
    BY ForgetFacts
  <2>2. ASSUME NEW m \in Names, m \in DOMAIN users'
        PROVE  /\ guesses'[m] <= users'[m].failed_attempts
               /\ users'[m].failed_attempts <= max_failed_attempts
               /\ users'[m].locked_until = NotLocked =>
                    users'[m].failed_attempts < max_failed_attempts
    <3>1. CASE m = n
      BY <2>2, <3>1, <1>3, <1>4, <1>5, ConfigAssumption
    <3>2. CASE m # n
      BY <2>2, <3>2, <1>2, <1>4, <1>5 DEF CountInv, Counted
    <3> QED BY <3>1, <3>2
  <2>3. ASSUME NEW m \in Names, m \notin DOMAIN users'
        PROVE  guesses'[m] = 0
    BY <2>3, <1>1, <1>2, <1>4, <1>5 DEF CountInv, Counted
  <2> QED BY <2>1, <2>2, <2>3 DEF CountInv, Counted
<1>9. DeletionIsFinal' /\ PromisesKept'
  <2>1. DeletionIsFinal'
    BY <1>2, <1>3, <1>4 DEF DeletionIsFinal
  <2>2. ASSUME NEW m \in DOMAIN promised'
        PROVE  /\ m \in DOMAIN users' /\ users'[m].password = promised'[m]
               /\ disk' # Torn => m \in DOMAIN disk' /\ disk'[m].password = promised'[m]
    BY ZenonT(30), <1>2, <1>3, <1>4, <2>2 DEF PromisesKept
  <2> QED BY <2>1, <2>2 DEF PromisesKept
<1> QED BY <1>2, <1>6, <1>7, <1>8, <1>9

LEMMA CreateStep ==
  ASSUME IInv, NEW t \in Tasks, NEW n \in Names, NEW p \in Passwords, create_user(t, n, p)
  PROVE  IInv'
<1> DEFINE c == [kind |-> "set", name |-> n, password |-> p]
<1> USE DEF IInv, create_user
<1>1. /\ U' = t /\ S' = Nobody /\ up /\ up' /\ FileInv'
      /\ pc' \in [Tasks -> {"idle", "session", "save", "write", "purge"}]
      /\ \A u \in Tasks : pc'[u] # "idle" <=> u = t
      /\ pc'[t] = "save" /\ call'[t] = c /\ DOMAIN call' = Tasks
  BY StartFacts
<1>2. NewUser(p) \in User /\ NewUser(p).password = p
      /\ NewUser(p).failed_attempts = 0
  BY DEF NewUser, User
<1>3. DOMAIN users' = DOMAIN users \cup {n} /\ users'[n] = NewUser(p)
      /\ \A m \in DOMAIN users : m # n /\ users'[m] = users[m]
  BY DEF With
<1>4. guesses \in [Names -> Nat] /\ guesses' = [guesses EXCEPT ![n] = 0]
  BY DEF TypeOK, ForgetGuesses
<1>5. DOMAIN promised' = DOMAIN promised \ {n} /\ \A m \in DOMAIN promised' : promised'[m] = promised[m]
  BY DEF Without
<1>6. TypeOK'
  BY <1>1, <1>2, <1>3, <1>4, <1>5 DEF TypeOK, IsDatabase
<1>7. CallInv'
  <2>1. call'[t].kind = "set" /\ call'[t].name = n /\ call'[t].password = p /\ pc'[t] \in Places["set"]
    BY <1>1 DEF Places
  <2> QED BY <1>1, <1>2, <1>3, <2>1 DEF CallInv, CallOK
<1>8. CountInv'
  <2>1. FailedLoginsBounded' /\ (disk' # Torn => Counted(disk', guesses'))
    BY ForgetFacts
  <2>2. ASSUME NEW m \in Names, m \in DOMAIN users'
        PROVE  /\ guesses'[m] <= users'[m].failed_attempts
               /\ users'[m].failed_attempts <= max_failed_attempts
               /\ users'[m].locked_until = NotLocked =>
                    users'[m].failed_attempts < max_failed_attempts
    <3>1. CASE m = n
      BY <2>2, <3>1, <1>2, <1>3, <1>4, ConfigAssumption
    <3>2. CASE m # n
      BY <2>2, <3>2, <1>1, <1>3, <1>4 DEF CountInv, Counted
    <3> QED BY <3>1, <3>2
  <2>3. ASSUME NEW m \in Names, m \notin DOMAIN users'
        PROVE  guesses'[m] = 0
    BY <2>3, <1>1, <1>3, <1>4 DEF CountInv, Counted
  <2> QED BY <2>1, <2>2, <2>3 DEF CountInv, Counted
<1>9. DeletionIsFinal' /\ PromisesKept'
  <2>1. DeletionIsFinal'
    BY <1>1, <1>3, <1>5 DEF DeletionIsFinal
  <2>2. PromisesKept'
    BY ZenonT(30), <1>1, <1>3, <1>5 DEF PromisesKept
  <2> QED BY <2>1, <2>2
<1> QED BY <1>1, <1>6, <1>7, <1>8, <1>9

LEMMA PasswordStep ==
  ASSUME IInv, NEW t \in Tasks, NEW n \in Names, NEW old \in Passwords, NEW p \in Passwords,
         change_password(t, n, old, p)
  PROVE  IInv'
<1> DEFINE c == [kind |-> "set", name |-> n, password |-> p]
           new == [users[n] EXCEPT !.password = p]
<1> USE DEF IInv, change_password
<1>1. n \in DOMAIN users /\ users[n] \in User
  BY DEF TypeOK, IsDatabase
<1>2. /\ U' = t /\ S' = Nobody /\ up /\ up' /\ FileInv'
      /\ pc' \in [Tasks -> {"idle", "session", "save", "write", "purge"}]
      /\ \A u \in Tasks : pc'[u] # "idle" <=> u = t
      /\ pc'[t] = "save" /\ call'[t] = c /\ DOMAIN call' = Tasks
  BY StartFacts
<1>3. /\ new \in User /\ new.password = p
      /\ new.failed_attempts = users[n].failed_attempts
      /\ new.locked_until = users[n].locked_until
  BY <1>1 DEF User
<1>4. DOMAIN users' = DOMAIN users /\ users'[n] = new /\ \A m \in DOMAIN users \ {n} : users'[m] = users[m]
  BY <1>1
<1>5. DOMAIN promised' = DOMAIN promised \ {n} /\ \A m \in DOMAIN promised' : promised'[m] = promised[m]
  BY DEF Without
<1> HIDE DEF new
<1>6. TypeOK'
  BY <1>2, <1>3, <1>4, <1>5 DEF TypeOK, IsDatabase
<1>7. CallInv'
  <2>1. call'[t].kind = "set" /\ call'[t].name = n /\ call'[t].password = p /\ pc'[t] \in Places["set"]
    BY <1>2 DEF Places
  <2> QED BY <1>1, <1>2, <1>3, <1>4, <2>1 DEF CallInv, CallOK
<1>8. CountInv'
  BY <1>2, <1>3, <1>4 DEF CountInv, Counted, FailedLoginsBounded
<1>9. DeletionIsFinal' /\ PromisesKept'
  <2>1. DeletionIsFinal'
    BY <1>2, <1>4, <1>5 DEF DeletionIsFinal
  <2>2. PromisesKept'
    BY <1>2, <1>4, <1>5 DEF PromisesKept
  <2> QED BY <2>1, <2>2
<1> QED BY <1>2, <1>6, <1>7, <1>8, <1>9

LEMMA DeleteStep ==
  ASSUME IInv, NEW t \in Tasks, NEW n \in Names, delete_user(t, n)
  PROVE  IInv'
<1> DEFINE c == [kind |-> "delete", name |-> n]
<1> USE DEF IInv, delete_user
<1>1. /\ U' = t /\ S' = Nobody /\ up /\ up' /\ FileInv'
      /\ pc' \in [Tasks -> {"idle", "session", "save", "write", "purge"}]
      /\ \A u \in Tasks : pc'[u] # "idle" <=> u = t
      /\ pc'[t] = "save" /\ call'[t] = c /\ DOMAIN call' = Tasks
  BY StartFacts
<1>2. DOMAIN users' = DOMAIN users \ {n} /\ \A m \in DOMAIN users' : users'[m] = users[m]
  BY DEF Without
<1>3. guesses \in [Names -> Nat] /\ guesses' = [guesses EXCEPT ![n] = 0]
  BY DEF TypeOK, ForgetGuesses
<1>4. DOMAIN promised' = DOMAIN promised \ {n} /\ \A m \in DOMAIN promised' : promised'[m] = promised[m]
  BY DEF Without
<1>5. TypeOK'
  BY <1>1, <1>2, <1>3, <1>4 DEF TypeOK, IsDatabase
<1>6. CallInv'
  <2>1. call'[t].kind = "delete" /\ call'[t].name = n /\ pc'[t] \in Places["delete"]
    BY <1>1 DEF Places
  <2> QED BY <1>1, <1>2, <2>1 DEF CallInv, CallOK
<1>7. CountInv'
  <2>1. FailedLoginsBounded' /\ (disk' # Torn => Counted(disk', guesses'))
    BY ForgetFacts
  <2>2. ASSUME NEW m \in Names, m \in DOMAIN users'
        PROVE  /\ guesses'[m] <= users'[m].failed_attempts
               /\ users'[m].failed_attempts <= max_failed_attempts
               /\ users'[m].locked_until = NotLocked =>
                    users'[m].failed_attempts < max_failed_attempts
    BY <2>2, <1>1, <1>2, <1>3 DEF CountInv, Counted
  <2>3. ASSUME NEW m \in Names, m \notin DOMAIN users'
        PROVE  guesses'[m] = 0
    BY <2>3, <1>1, <1>2, <1>3 DEF CountInv, Counted
  <2> QED BY <2>1, <2>2, <2>3 DEF CountInv, Counted
<1>8. DeletionIsFinal' /\ PromisesKept'
  <2>1. DeletionIsFinal'
    BY <1>1, <1>2, <1>4 DEF DeletionIsFinal
  <2>2. PromisesKept'
    BY <1>1, <1>2, <1>4 DEF PromisesKept
  <2> QED BY <2>1, <2>2
<1> QED BY <1>1, <1>5, <1>6, <1>7, <1>8

-----------------------------------------------------------------------------------
LEMMA WithFacts ==
  ASSUME NEW f, NEW n, NEW v, NEW k \in DOMAIN With(f, n, v)
  PROVE  With(f, n, v)[k] = v \/ (k \in DOMAIN f /\ With(f, n, v)[k] = f[k])
<1>1. k \in DOMAIN f \cup {n} /\ With(f, n, v)[k] = IF k = n THEN v ELSE f[k]
  BY DEF With
<1> QED BY <1>1

LEMMA SessionStep ==
  ASSUME IInv, NEW t \in Tasks, StoreSession(t)
  PROVE  IInv'
<1> USE DEF IInv, StoreSession, history
<1> DEFINE session == [username |-> call[t].name, expires_at |-> call[t].expires_at]
<1>1. /\ U = t /\ up /\ CallOK(t)
      /\ pc' \in [Tasks -> {"idle", "session", "save", "write", "purge"}]
      /\ pc'[t] = "save"
      /\ \A u \in Tasks : pc'[u] # "idle" <=> u = t
  BY GoesOnFacts
<1>2. /\ call[t].kind = "login"
      /\ call[t].name \in Names /\ call[t].name \in DOMAIN users /\ call[t].name \notin deleted
      /\ call[t].expires_at \in Nat
  BY <1>1 DEF CallOK, DeletionIsFinal, Places
<1>3. session \in [username : Names, expires_at : Nat] /\ session.username = call[t].name
  BY <1>2
<1>4. \A k \in DOMAIN sessions' :
        sessions'[k] = session \/ (k \in DOMAIN sessions /\ sessions'[k] = sessions[k])
  <2>1. sessions' = With(sessions, call[t].token, session)
    OBVIOUS
  <2> HIDE DEF session, StoreSession
  <2> QED BY <2>1, WithFacts
<1> HIDE DEF session
<1>5. TypeOK'
  <2>1. \A k \in DOMAIN sessions' : sessions'[k] \in [username : Names, expires_at : Nat]
    BY <1>3, <1>4 DEF TypeOK
  <2> QED BY <1>1, <2>1 DEF TypeOK
<1>6. CallInv'
  <2>1. pc'[t] \in Places[call[t].kind]
    BY <1>1, <1>2 DEF Places
  <2> QED BY <1>1, <2>1 DEF CallInv, CallOK
<1>7. FileInv'
  BY <1>1, NobodyAssumption DEF FileInv
<1>8. CountInv' /\ PromisesKept'
  BY DEF CountInv, Counted, FailedLoginsBounded, PromisesKept
<1>9. DeletionIsFinal'
  <2> SUFFICES ASSUME NEW m \in deleted
               PROVE  /\ m \notin DOMAIN users
                      /\ disk # Torn => m \notin DOMAIN disk
                      /\ \A k \in DOMAIN sessions' : sessions'[k].username # m
    BY DEF DeletionIsFinal
  <2> QED BY <1>2, <1>3, <1>4 DEF DeletionIsFinal
<1> QED BY <1>5, <1>6, <1>7, <1>8, <1>9

LEMMA TruncateStep ==
  ASSUME IInv, NEW t \in Tasks, Truncate(t)
  PROVE  IInv'
<1> USE DEF IInv, Truncate, memory, history
<1>1. /\ U = t /\ up /\ CallOK(t)
      /\ pc' \in [Tasks -> {"idle", "session", "save", "write", "purge"}]
      /\ pc'[t] = "write"
      /\ \A u \in Tasks : pc'[u] # "idle" <=> u = t
  BY GoesOnFacts
<1>2. TypeOK'
  BY <1>1 DEF TypeOK, memory, history
<1>3. CallInv'
  <2>1. pc'[t] \in Places[call[t].kind]
    BY <1>1 DEF Places, CallOK
  <2> QED BY <1>1, <2>1 DEF CallInv, CallOK, memory, history
<1>4. FileInv'
  BY <1>1 DEF FileInv, memory, TypeOK
<1>5. CountInv' /\ DeletionIsFinal' /\ PromisesKept'
  BY DEF CountInv, Counted, FailedLoginsBounded, DeletionIsFinal, PromisesKept, memory, history
<1> QED BY <1>2, <1>3, <1>4, <1>5

LEMMA FailStep ==
  ASSUME IInv, NEW t \in Tasks, SaveFails(t)
  PROVE  IInv'
<1> USE DEF IInv, SaveFails
<1>1. /\ \A u \in Tasks : pc'[u] = "idle"
      /\ U' = Nobody /\ S' = Nobody
      /\ pc' \in [Tasks -> {"idle", "session", "save", "write", "purge"}]
      /\ DOMAIN call' = Tasks /\ DOMAIN data' = Tasks
      /\ CallInv' /\ FileInv'
  BY ReturnFacts
<1>2. TypeOK'
  BY <1>1, NobodyAssumption DEF TypeOK, history
<1>3. CountInv' /\ DeletionIsFinal' /\ PromisesKept'
  BY DEF CountInv, Counted, FailedLoginsBounded, DeletionIsFinal, PromisesKept, history
<1> QED BY <1>1, <1>2, <1>3

LEMMA AnswerStep ==
  ASSUME IInv, NEW t \in Tasks, AnswerWrong(t) \/ AnswerLogin(t) \/ AnswerSet(t)
  PROVE  IInv'
<1> USE DEF IInv
<1>1. /\ pc[t] = "write" /\ disk' = users /\ up
      /\ IsDatabase(users) /\ CallOK(t) /\ Counted(users, guesses)
      /\ Return(t) /\ UNCHANGED <<users, sessions, up, now, deleted>>
  BY WrittenFacts DEF AnswerWrong, AnswerLogin, AnswerSet, history
<1>2. /\ \A u \in Tasks : pc'[u] = "idle"
      /\ U' = Nobody /\ S' = Nobody
      /\ pc' \in [Tasks -> {"idle", "session", "save", "write", "purge"}]
      /\ DOMAIN call' = Tasks /\ DOMAIN data' = Tasks
      /\ CallInv' /\ FileInv'
  BY <1>1, ReturnFacts
<1>3. call[t].name \in Names /\ guesses \in [Names -> Nat]
  BY <1>1 DEF CallOK, TypeOK
<1>4. guesses' \in [Names -> Nat] /\ Counted(users, guesses')
  <2>1. CASE AnswerWrong(t)
    <3>1. guesses' = [guesses EXCEPT ![call[t].name] = @ + 1]
      BY <2>1 DEF AnswerWrong
    <3>2. /\ call[t].name \in DOMAIN users
          /\ guesses[call[t].name] < users[call[t].name].failed_attempts
          /\ users[call[t].name].failed_attempts \in Nat
      BY <1>1, <2>1 DEF AnswerWrong, CallOK, IsDatabase, User
    <3>3. guesses'[call[t].name] <= users[call[t].name].failed_attempts
      BY <1>3, <3>1, <3>2
    <3>4. \A m \in Names \ {call[t].name} : guesses'[m] = guesses[m]
      BY <1>3, <3>1
    <3> QED BY <1>1, <1>3, <3>1, <3>2, <3>3, <3>4 DEF Counted
  <2>2. CASE UNCHANGED guesses
    BY <1>1, <1>3, <2>2
  <2> QED BY <2>1, <2>2 DEF AnswerLogin, AnswerSet, history
<1>5. FailedLoginsBounded'
  <2> SUFFICES ASSUME NEW m \in Names PROVE guesses'[m] <= max_failed_attempts
    BY DEF FailedLoginsBounded
  <2>1. CASE m \in DOMAIN users
    BY <1>1, <1>4, <2>1, ConfigAssumption DEF Counted, IsDatabase, User
  <2>2. CASE m \notin DOMAIN users
    BY <1>4, <2>2, ConfigAssumption DEF Counted
  <2> QED BY <2>1, <2>2
<1>6. \A m \in DOMAIN promised' :
        m \in DOMAIN users /\ users[m].password = promised'[m]
  <2>1. CASE AnswerSet(t)
    BY <1>1, <2>1 DEF AnswerSet, With, CallOK, PromisesKept
  <2>2. CASE UNCHANGED promised
    BY <1>1, <2>2 DEF PromisesKept
  <2> QED BY <2>1, <2>2 DEF AnswerWrong, AnswerLogin, history
<1>7. TypeOK'
  BY <1>1, <1>2, <1>4, <1>6, NobodyAssumption DEF TypeOK, IsDatabase, User
<1>8. CountInv' /\ PromisesKept'
  BY <1>1, <1>4, <1>5, <1>6 DEF CountInv, PromisesKept
<1>9. DeletionIsFinal'
  BY <1>1 DEF DeletionIsFinal
<1> QED BY <1>2, <1>7, <1>8, <1>9

LEMMA DeleteWrittenStep ==
  ASSUME IInv, NEW t \in Tasks, DeleteWritten(t)
  PROVE  IInv'
<1> USE DEF IInv, DeleteWritten, memory, history
<1>1. /\ pc[t] = "write" /\ disk' = users /\ up
      /\ IsDatabase(users) /\ CallOK(t) /\ Counted(users, guesses)
  BY WrittenFacts
<1>2. /\ U = t /\ pc' \in [Tasks -> {"idle", "session", "save", "write", "purge"}]
      /\ pc'[t] = "purge"
      /\ \A u \in Tasks : pc'[u] # "idle" <=> u = t
  BY <1>1, GoesOnFacts
<1>3. TypeOK'
  BY <1>1, <1>2 DEF TypeOK
<1>4. CallInv'
  <2>1. pc'[t] \in Places[call[t].kind]
    BY <1>2 DEF Places
  <2> QED BY <1>1, <1>2, <2>1 DEF CallInv, CallOK
<1>5. FileInv'
  BY <1>1, <1>2 DEF FileInv
<1>6. CountInv' /\ PromisesKept'
  BY <1>1 DEF CountInv, Counted, FailedLoginsBounded, PromisesKept
<1>7. DeletionIsFinal'
  BY <1>1 DEF DeletionIsFinal
<1> QED BY <1>3, <1>4, <1>5, <1>6, <1>7

LEMMA PurgeStep ==
  ASSUME IInv, NEW t \in Tasks, Purge(t)
  PROVE  IInv'
<1> USE DEF IInv, Purge
<1>1. /\ \A u \in Tasks : pc'[u] = "idle"
      /\ U' = Nobody /\ S' = Nobody /\ up
      /\ pc' \in [Tasks -> {"idle", "session", "save", "write", "purge"}]
      /\ DOMAIN call' = Tasks /\ DOMAIN data' = Tasks
      /\ CallInv' /\ FileInv'
  BY ReturnFacts
<1>2. /\ call[t].name \in Names /\ call[t].name \notin DOMAIN users /\ disk = users
  BY DEF CallInv, CallOK, Places, FileInv
<1>3. \A k \in DOMAIN sessions' :
        k \in DOMAIN sessions /\ sessions'[k] = sessions[k] /\ sessions[k].username # call[t].name
  BY DEF Without
<1>4. TypeOK'
  BY <1>1, <1>2, <1>3, NobodyAssumption DEF TypeOK
<1>5. CountInv' /\ PromisesKept'
  BY DEF CountInv, Counted, FailedLoginsBounded, PromisesKept
<1>6. DeletionIsFinal'
  BY <1>2, <1>3 DEF DeletionIsFinal
<1> QED BY <1>1, <1>4, <1>5, <1>6

\* logout and cleanup_sessions only remove sessions.
LEMMA SessionsStep ==
  ASSUME IInv, SessionsOnly,
         NEW gone, sessions' = Without(sessions, gone)
  PROVE  IInv'
<1> USE DEF IInv, SessionsOnly, history
<1>1. \A k \in DOMAIN sessions' : k \in DOMAIN sessions /\ sessions'[k] = sessions[k]
  BY DEF Without
<1>2. TypeOK'
  BY <1>1 DEF TypeOK
<1>3. CallInv' /\ FileInv'
  BY DEF CallInv, CallOK, FileInv
<1>4. CountInv' /\ PromisesKept'
  BY DEF CountInv, Counted, FailedLoginsBounded, PromisesKept
<1>5. DeletionIsFinal'
  BY <1>1 DEF DeletionIsFinal
<1> QED BY <1>2, <1>3, <1>4, <1>5

LEMMA CrashStep ==
  ASSUME IInv, Crash
  PROVE  IInv'
<1> USE DEF IInv, Crash, history
<1>1. TypeOK'
  BY NobodyAssumption DEF TypeOK, IsDatabase
<1>2. CallInv' /\ FileInv'
  BY DEF CallInv, FileInv
<1>3. CountInv' /\ PromisesKept'
  BY DEF CountInv, Counted, FailedLoginsBounded, PromisesKept
<1>4. DeletionIsFinal'
  BY DEF DeletionIsFinal
<1> QED BY <1>1, <1>2, <1>3, <1>4

LEMMA RestartStep ==
  ASSUME IInv, Restart
  PROVE  IInv'
<1> USE DEF IInv, Restart, history
<1>1. \A t \in Tasks : pc[t] = "idle"
  BY NobodyAssumption DEF TypeOK, FileInv
<1>2. TypeOK'
  BY DEF TypeOK, IsDatabase
<1>3. CallInv' /\ FileInv'
  BY <1>1 DEF CallInv, FileInv
<1>4. CountInv' /\ PromisesKept'
  BY DEF CountInv, Counted, FailedLoginsBounded, PromisesKept
<1>5. DeletionIsFinal'
  BY DEF DeletionIsFinal
<1> QED BY <1>2, <1>3, <1>4, <1>5

LEMMA TickStep ==
  ASSUME IInv,
         \/ Tick \/ UNCHANGED vars
         \/ \E t \in Tasks, n \in Names, old \in Passwords : RefuseChange(t, n, old)
  PROVE  IInv'
<1> USE DEF IInv, Tick, RefuseChange, vars, memory, history
<1>1. TypeOK'
  BY DEF TypeOK, IsDatabase, User
<1>2. CallInv' /\ FileInv'
  BY DEF CallInv, CallOK, FileInv
<1>3. CountInv' /\ PromisesKept'
  BY DEF CountInv, Counted, FailedLoginsBounded, PromisesKept
<1>4. DeletionIsFinal'
  BY DEF DeletionIsFinal
<1> QED BY <1>1, <1>2, <1>3, <1>4

-----------------------------------------------------------------------------------
LEMMA InvNext == IInv /\ [Next]_vars => IInv'
<1> SUFFICES ASSUME IInv, [Next]_vars PROVE IInv'
  OBVIOUS
<1>1. ASSUME NEW t \in Tasks, UserCall(t) PROVE IInv'
  BY <1>1, DeleteStep, WrongStep, RightStep, CreateStep, PasswordStep, TickStep DEF UserCall
<1>2. ASSUME NEW t \in Tasks, CallStep(t) PROVE IInv'
  BY <1>2, SessionStep, TruncateStep, FailStep, AnswerStep, DeleteWrittenStep, PurgeStep DEF CallStep
<1>3. ASSUME NEW token \in DOMAIN sessions, logout(token) PROVE IInv'
  BY <1>3, SessionsStep DEF logout
<1>4. CASE cleanup_sessions
  BY <1>4, SessionsStep DEF cleanup_sessions
<1>5. CASE Tick \/ UNCHANGED vars
  BY <1>5, TickStep
<1>6. CASE Crash
  BY <1>6, CrashStep
<1>7. CASE Restart
  BY <1>7, RestartStep
<1> QED BY <1>1, <1>2, <1>3, <1>4, <1>5, <1>6, <1>7 DEF Next

LEMMA Invariant == Spec => []IInv
BY InvInit, InvNext, PTL DEF Spec

\* Types are kept, and whoever is in a call on the users holds their write lock.
THEOREM TypeCorrect == Spec => []TypeOK
<1>1. IInv => TypeOK
  BY DEF IInv
<1> QED BY <1>1, Invariant, PTL

\* However many callers there are, the wrong passwords of a user that authenticate answers
\* without the right one or a lockout in between never exceed max_failed_attempts
\* (logins only: change_password counts nothing).
THEOREM LockoutBoundsLogins == Spec => []FailedLoginsBounded
<1>1. IInv => FailedLoginsBounded
  BY DEF IInv, CountInv
<1> QED BY <1>1, Invariant, PTL

\* An acknowledged deletion leaves the user in no database and in no session, crashes
\* and failing saves included (delete_user).
THEOREM DeletedForGood == Spec => []DeletionIsFinal
<1>1. IInv => DeletionIsFinal
  BY DEF IInv
<1> QED BY <1>1, Invariant, PTL

\* An acknowledged password is in memory and in the file unless a call on the same user
\* replaced it (create_user, change_password, save_database).
THEOREM AcknowledgedIsKept == Spec => []PromisesKept
<1>1. IInv => PromisesKept
  BY DEF IInv
<1> QED BY <1>1, Invariant, PTL
===================================================================================
