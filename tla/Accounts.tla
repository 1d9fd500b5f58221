------------------------------ MODULE Accounts ------------------------------
(***************************************************************************)
(* Accounts and who is logged in: registration and login behind the rate   *)
(* limiter, tokens that expire, the cookie that carries them, logout, and  *)
(* the authentication of every other request (internal/service/auth.go,    *)
(* internal/handler/auth.go and middleware.go).                            *)
(*                                                                         *)
(* The module extends RateLimiter, whose keys are the addresses browsers   *)
(* send from.  The statements of a request interleave with those of        *)
(* others, and the answers to a browser arrive in any order or not at all. *)
(* A password stands for its bcrypt hash, and a token for its signed text. *)
(***************************************************************************)
EXTENDS RateLimiter, Sequences, FiniteSets

CONSTANTS
  Browsers,
  AddressOf,    \* the address of each browser; several may share one
  Credentials,  \* what is typed into the two forms: [email, password]
  Refused,      \* those of them that Register's rules refuse
  Requests,     \* slots for requests in progress
  TokenLife,    \* the 24 hours of a token
  MaxUsers      \* bound: accounts

ASSUME AccountsAssumptions ==
  /\ AddressOf \in [Browsers -> Keys]
  /\ \A c \in Credentials : c = [email |-> c.email, password |-> c.password]
  /\ Refused \subseteq Credentials
  /\ IsFiniteSet(Requests)
  /\ TokenLife \in Nat \ {0} /\ MaxUsers \in Nat

VARIABLES
  users,     \* the table users: the credentials of each account, by id
  cookie,    \* auth_token in each browser
  request,   \* what each request in progress knows, and its next step
  promised,  \* history: credentials whose registration was answered by "log in"
  checked,   \* history: passwords checked in the window, for logins from its key
  late       \* history: such logins, let through before it, that it found waiting

accountVars == << users, cookie, request, promised, checked, late >>

allVars == << vars, accountVars >>

Nothing == [email |-> "", password |-> ""]

\* The claims sub and exp; for checking only, what was typed, where and when.
NoToken == [user |-> 0, expires |-> 0, entered |-> Nothing, from |-> "", granted |-> 0]

Idle == [step |-> "idle", from |-> "", entered |-> Nothing, token |-> NoToken, user |-> 0]

AccountsInit ==
  /\ Init
  /\ users = << >>
  /\ cookie = [b \in Browsers |-> NoToken]
  /\ request = [r \in Requests |-> Idle]
  /\ promised = {}
  /\ checked = 0 /\ late = 0

Begin(r, q) == request[r] = Idle /\ request' = [request EXCEPT ![r] = q]
GoOn(r, q)  == request' = [request EXCEPT ![r] = q]
Answer(r)   == GoOn(r, Idle)

-----------------------------------------------------------------------------
\* GET /login and GET /register show a form, at the price of a submission.
ShowForm(k) == Allow(k) /\ UNCHANGED accountVars

Submitted(b, step, c) ==
  [Idle EXCEPT !.step = step, !.from = b, !.entered = c]

\* A route without the limiter.
SubmitUnlimited(r, b, step, c) ==
  /\ Begin(r, Submitted(b, step, c))
  /\ UNCHANGED << vars, users, cookie, promised, checked, late >>

\* RateLimit answers 429 to a form beyond the limit.
Submit(r, b, step, c) ==
  /\ request[r] = Idle
  /\ Allow(AddressOf[b])
  /\ IF answer'.allowed THEN Begin(r, Submitted(b, step, c)) ELSE UNCHANGED request
  /\ UNCHANGED << users, cookie, promised, checked, late >>

Ids(email) == {i \in DOMAIN users : users[i].email = email}

\* Inserts without the UNIQUE constraint of the table.
InsertUserAnyway(r) ==
  LET c == request[r].entered
  IN  /\ request[r].step = "register"
      /\ Answer(r)
      /\ IF c \in Refused
           THEN UNCHANGED << users, promised >>
           ELSE /\ Len(users) < MaxUsers
                /\ users' = Append(users, c)
                /\ promised' = promised \cup {c}
      /\ UNCHANGED << vars, cookie, checked, late >>

\* Register and userRepo.Create: nothing is looked up before the insert; the
\* UNIQUE constraint finds the address taken.
InsertUser(r) ==
  LET c == request[r].entered
  IN  /\ request[r].step = "register"
      /\ Answer(r)
      /\ IF c \in Refused \/ Ids(c.email) # {}
           THEN UNCHANGED << users, promised >>
           ELSE /\ Len(users) < MaxUsers
                /\ users' = Append(users, c)
                /\ promised' = promised \cup {c}
      /\ UNCHANGED << vars, cookie, checked, late >>

\* bcrypt.CompareHashAndPassword.
PasswordMatches(id, password) == users[id].password = password

\* generateJWT.
SignedToken(r, id) ==
  [user |-> id, expires |-> now + TokenLife,
   entered |-> request[r].entered, from |-> request[r].from, granted |-> now]

\* The logins from an address that wait for their password to be checked.
Waiting(k) == {r \in Requests : request[r].step = "login" /\ AddressOf[request[r].from] = k}

\* Login: GetByEmail, the comparison (with a dummy hash if there is no such
\* account) and the token.
CheckPassword(r) ==
  LET q == request[r]
      matches == {i \in Ids(q.entered.email) :
                    /\ \A j \in Ids(q.entered.email) : i <= j
                    /\ PasswordMatches(i, q.entered.password)}
  IN  /\ q.step = "login"
      /\ checked' = IF r \in Waiting(window.key) THEN checked + 1 ELSE checked
      /\ \/ matches = {} /\ Answer(r)
         \/ \E i \in matches : GoOn(r, [Idle EXCEPT !.step = "answer", !.from = q.from,
                                        !.token = SignedToken(r, i)])
      /\ UNCHANGED << vars, users, cookie, promised, late >>

\* HandleLogout needs neither a token nor the limiter.
Logout(r, b) ==
  /\ Begin(r, [Idle EXCEPT !.step = "answer", !.from = b])
  /\ UNCHANGED << vars, users, cookie, promised, checked, late >>

\* The browser gets the answer to a login, or to a logout, with its Set-Cookie.
SetCookie(r) ==
  LET q == request[r]
  IN  /\ q.step = "answer"
      /\ cookie' = [cookie EXCEPT ![q.from] = q.token]
      /\ Answer(r)
      /\ UNCHANGED << vars, users, promised, checked, late >>

\* Any other request: the browser sends the cookie it has.  It may keep one for
\* longer than the cookie's MaxAge, which counts from the answer and by the
\* browser's own clock.
Visit(r, b) ==
  /\ Begin(r, [Idle EXCEPT !.step = "authenticate", !.from = b, !.token = cookie[b]])
  /\ UNCHANGED << vars, users, cookie, promised, checked, late >>

\* Leaves the end of a token to the browser.
ValidSignature(token) == token # NoToken

\* ValidateToken.
ValidToken(token) == token # NoToken /\ now < token.expires

\* RequireAuth: the token, then GetUserByID.
Authenticate(r) ==
  LET q == request[r]
  IN  /\ q.step = "authenticate"
      /\ IF ValidToken(q.token) /\ q.token.user \in DOMAIN users
           THEN GoOn(r, [Idle EXCEPT !.step = "serve", !.from = q.from, !.user = q.token.user])
           ELSE Answer(r)
      /\ UNCHANGED << vars, users, cookie, promised, checked, late >>

\* The handler, for the user in the context of the request.
Serve(r) ==
  /\ request[r].step = "serve"
  /\ Answer(r)
  /\ UNCHANGED << vars, users, cookie, promised, checked, late >>

\* The connection breaks.
Abort(r) ==
  /\ request[r] # Idle
  /\ Answer(r)
  /\ UNCHANGED << vars, users, cookie, promised, checked, late >>

\* The observer's window on an address: every password checked from now on
\* counts, those of the logins that are waiting for it already included.
Observe(k) ==
  /\ OpenWindow(k)
  /\ checked' = 0
  /\ late' = Cardinality(Waiting(k))
  /\ UNCHANGED << users, cookie, request, promised >>

AccountsNext ==
  \/ \E k \in Keys : ShowForm(k) \/ Observe(k)
  \/ \E r \in Requests :
       \/ \E b \in Browsers :
            \/ \E c \in Credentials, step \in {"register", "login"} : Submit(r, b, step, c)
            \/ Logout(r, b) \/ Visit(r, b)
       \/ InsertUser(r) \/ CheckPassword(r) \/ SetCookie(r)
       \/ Authenticate(r) \/ Serve(r) \/ Abort(r)
  \/ (Tick \/ Cleanup) /\ UNCHANGED accountVars

AccountsSpec == AccountsInit /\ [][AccountsNext]_allVars

-----------------------------------------------------------------------------
Tokens == [user : DOMAIN users, expires : Nat, entered : Credentials,
           from : Browsers, granted : 0 .. now] \cup {NoToken}

\* Every token, in a cookie or on its way, names an account; no two accounts
\* have one e-mail address, and none has a password the rules refuse.
AccountsTypeOK ==
  /\ TypeOK
  /\ users \in Seq(Credentials \ Refused)
  /\ \A i, j \in DOMAIN users : users[i].email = users[j].email => i = j
  /\ cookie \in [Browsers -> Tokens]
  /\ \A r \in Requests : request[r].token \in Tokens /\ request[r].user \in 0 .. Len(users)
  /\ promised \subseteq Credentials
  /\ checked \in Nat /\ late \in Nat

\* handler/auth.go:63 sends a new user to the login page: from then on the
\* password that was chosen opens the account, whoever else registers or has
\* been registering the same address.
RegisteredMayLogIn ==
  [][\A r \in Requests :
       request[r].entered \in promised /\ CheckPassword(r)
       => request'[r].step = "answer"]_allVars

\* handler/middleware.go:43 "validates the JWT, loads the user from DB": a
\* request acts for a user only if this user's password was entered in the
\* same browser, less than 24 hours before, however the answers to logins and
\* logouts of the browser have overtaken each other.
ActsForWhoLoggedIn ==
  [][\A r \in Requests :
       LET t == request[r].token
       IN  request[r].step = "authenticate" /\ request'[r].step = "serve"
           => /\ users[request'[r].user] = t.entered
              /\ t.from = request[r].from
              /\ now - t.granted < TokenLife]_allVars

\* handler/routes.go:21, "Rate limiter for auth endpoints": from any instant on,
\* the passwords checked for an address are no more than the limiter's bound and
\* the logins that were let through before and were waiting at that instant, in
\* whatever order all of them get their turn.  The limiter bounds what is let
\* through and not what is done at one time: the second part has no bound but
\* the number of requests in progress.
ChecksAreBounded ==
  checked * Cost <= Capacity + Rate * (now - window.start) + late * Cost

=============================================================================
