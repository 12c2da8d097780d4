---------------------------- MODULE WebappSession ----------------------------
(***************************************************************************)
(* Users and the session of one browser: /register, /login and /logout     *)
(* (webapp/routes/login.js, logout.js), the accounts (modals/User.js) and  *)
(* isAuthenticatedCustomMiddleware (app.js), which pages and readings are  *)
(* behind.                                                                 *)
(*                                                                         *)
(* Sessions are in the memory of the web application and go when it ends,  *)
(* accounts are in its database.  Looking an account up and saving one are *)
(* asynchronous, and an error of the database is thrown in the callback,   *)
(* which ends the process.                                                 *)
(***************************************************************************)
EXTENDS Integers, FiniteSets

CONSTANTS
  Names, Passwords,
  NoLogin,     \* no login under way
  Accounts,    \* bound: how many are registered
  Faults       \* bound: errors of the database, and ends of the process

Credentials == [name : Names, password : Passwords]

VARIABLES
  up,          \* is the web application running?
  users,       \* the accounts that have been saved
  registering, \* those being saved
  login,       \* the credentials of the login under way
  isAuth,      \* is the session marked?
  faults

sessionVars == <<up, users, registering, login, isAuth, faults>>

\* The process ends: it forgets whom it knew and what was under way.
Die == up' = FALSE /\ isAuth' = FALSE /\ login' = NoLogin /\ registering' = {}

Fault == faults < Faults /\ faults' = faults + 1

-----------------------------------------------------------------------------
Init ==
  /\ up = TRUE /\ isAuth = FALSE
  /\ users = {} /\ registering = {} /\ login = NoLogin
  /\ faults = 0

\* createUser is started, and the browser answered before it is through.
Register(c) ==
  /\ up /\ Cardinality(users \cup registering) < Accounts
  /\ registering' = registering \cup {c}
  /\ UNCHANGED <<up, users, login, isAuth, faults>>

\* save calls back: no name need be unique.
UserSaved(c) ==
  /\ c \in registering
  /\ \/ /\ users' = users \cup {c} /\ registering' = registering \ {c}
        /\ UNCHANGED <<up, login, isAuth, faults>>
     \/ Fault /\ Die /\ UNCHANGED users

Login(c) ==
  /\ up /\ login = NoLogin
  /\ login' = c
  /\ UNCHANGED <<up, users, registering, isAuth, faults>>

\* getUserByUsername finds one of the accounts of that name, if there is any,
\* and comparePassword compares with its password.  Nothing that happens
\* between the two matters to either.  The session is marked, or the login
\* refused.
Accepted(given) == given \in users
Refused(given)  == {user \in users : user.name = given.name} # {given}

LoginEnds ==
  /\ login # NoLogin
  /\ \/ /\ \/ Accepted(login) /\ isAuth' = TRUE
           \/ Refused(login) /\ UNCHANGED isAuth
        /\ login' = NoLogin
        /\ UNCHANGED <<up, registering, faults>>
     \/ Fault /\ Die
  /\ UNCHANGED users

\* A login may be under way in another window of the browser.
Logout ==
  /\ up /\ isAuth /\ isAuth' = FALSE
  /\ UNCHANGED <<up, users, registering, login, faults>>

Kill == up /\ Fault /\ Die /\ UNCHANGED users

Restart ==
  /\ ~ up /\ up' = TRUE
  /\ UNCHANGED <<users, registering, login, isAuth, faults>>

\* isAuthenticatedCustomMiddleware.  Mutated: a session is enough, isAuth is
\* not looked at.
LoggedIn_AnySession == TRUE
LoggedIn == isAuth

Next == \/ \E c \in Credentials : Register(c) \/ UserSaved(c) \/ Login(c)
        \/ LoginEnds \/ Logout \/ Kill \/ Restart

=============================================================================
