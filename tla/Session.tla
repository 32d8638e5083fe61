------------------------------ MODULE Session ------------------------------
(***************************************************************************)
(* The session of one account.  AccountService keeps the token that is     *)
(* valid in the account's row and under account:<id> in Redis; JWTAuth     *)
(* compares the token of a request with the copy in Redis, and only if     *)
(* there is none with the row, from which it refills Redis.                *)
(*                                                                         *)
(* A token is its number, a password the number of its change.  Signature  *)
(* and expiry of a token are checked before anything here.                 *)
(***************************************************************************)
EXTENDS Naturals

CONSTANTS
    Requests,      \* API goroutines
    MaxTokens,     \* bound on the tokens issued
    MaxPasswords,  \* bound on the password changes
    Failures       \* Redis or MySQL may fail, and the API process crash

ASSUME BoundsTyped ==
    MaxTokens \in Nat /\ MaxPasswords \in Nat /\ Failures \in BOOLEAN

None == 0  \* the empty token of the row; nothing in Redis
Tokens == 1..MaxTokens
Operations == {"login", "change", "logout", "rename", "read"}
Steps == {"LoginStore", "LoginCache", "ChangeStore", "LogoutRead", "LogoutDel",
          "LogoutStore", "RenameStore", "RenameCache", "CheckGet", "CheckDb", "Refill"}
Idle == [at |-> "idle", op |-> "read", token |-> None]

VARIABLES
    dbToken,      \* accounts.token
    password,     \* accounts.password
    cacheToken,   \* account:<id>
    request,      \* request[r]: next step, operation, and the token it carries
    issued,       \* tokens generated so far
    issuedUnder,  \* history: the password a token was obtained with
    given,        \* tokens that clients have
    trouble       \* history: "some" once requests overlapped or failed half-way,
                  \* "login" while a login runs undisturbed after that, "none"
                  \* from its end

store == <<dbToken, password>>
tokenVars == <<issued, issuedUnder, given>>
vars == <<store, cacheToken, request, tokenVars, trouble>>

TypeOK ==
    /\ dbToken \in {None} \cup Tokens
    /\ password \in 0..MaxPasswords
    /\ cacheToken \in {None} \cup Tokens
    /\ request \in [Requests -> [at : {"idle"} \cup Steps, op : Operations,
                                 token : {None} \cup Tokens]]
    /\ issued \in 0..MaxTokens
    /\ issuedUnder \in [Tokens -> 0..MaxPasswords]
    /\ given \in SUBSET (1..issued)
    /\ trouble \in {"none", "login", "some"}

\* The account has just been registered.
Init ==
    /\ dbToken = None
    /\ password = 0
    /\ cacheToken = None
    /\ request = [r \in Requests |-> Idle]
    /\ issued = 0
    /\ issuedUnder = [t \in Tokens |-> 0]
    /\ given = {}
    /\ trouble = "none"

-----------------------------------------------------------------------------
At(r, step) == request[r].at = step
Goto(r, step) == request' = [request EXCEPT ![r].at = step]
Respond(r) == request' = [request EXCEPT ![r] = Idle]

Quiet == \A r \in Requests : request[r] = Idle

\* Requests that only read do not disturb each other.
Overlaps(r, op) ==
    \E q \in Requests \ {r} :
        request[q] # Idle /\ (op # "read" \/ request[q].op # "read")

Start(r, op, step, t) ==
    /\ request[r] = Idle
    /\ request' = [request EXCEPT ![r] = [at |-> step, op |-> op, token |-> t]]
    /\ trouble' = CASE Overlaps(r, op) -> "some"
                    [] ~Overlaps(r, op) /\ op = "login" /\ trouble = "some" -> "login"
                    [] OTHER -> trouble

\* Token n is generated for somebody who has given password p.
Issue(n, p) ==
    /\ issued' = IF n > issued THEN n ELSE issued
    /\ issuedUnder' = [issuedUnder EXCEPT ![n] = p]

-----------------------------------------------------------------------------
(* AccountService.Login.                                                   *)

\* The row is read, the password compared and the token generated.  A token is
\* made of the name and the second, so it may be the last one again.
StartLogin(r) ==
    /\ \E n \in {issued, issued + 1} \cap Tokens :
           Start(r, "login", "LoginStore", n) /\ Issue(n, password)
    /\ UNCHANGED <<store, cacheToken, given>>

LoginStore(r) ==
    /\ At(r, "LoginStore")
    /\ \/ dbToken' = request[r].token /\ Goto(r, "LoginCache") /\ UNCHANGED trouble
       \/ Failures /\ Respond(r) /\ trouble' = "some" /\ UNCHANGED dbToken
    /\ UNCHANGED <<password, cacheToken, tokenVars>>

\* As a bug: the client is sent the empty token.
LoginForgetsToken(r) ==
    /\ At(r, "LoginCache")
    /\ cacheToken' = request[r].token
    /\ given' = given \cup {None}
    /\ Respond(r)
    /\ UNCHANGED <<store, issued, issuedUnder, trouble>>

\* An error of Redis is logged, and the token handed out all the same.
LoginCache(r) ==
    /\ At(r, "LoginCache")
    /\ \/ /\ cacheToken' = request[r].token
          /\ trouble' = IF trouble = "login" THEN "none" ELSE trouble
       \/ Failures /\ UNCHANGED cacheToken /\ trouble' = "some"
    /\ given' = given \cup {request[r].token}
    /\ Respond(r)
    /\ UNCHANGED <<store, issued, issuedUnder>>

-----------------------------------------------------------------------------
(* AccountService.ChangePassword, which ends in Logout.                    *)

\* The row is read and the old password compared.
StartChange(r) ==
    /\ Start(r, "change", "ChangeStore", None)
    /\ UNCHANGED <<store, cacheToken, tokenVars>>

ChangeStore(r) ==
    /\ At(r, "ChangeStore")
    /\ \/ password < MaxPasswords /\ password' = password + 1 /\ Goto(r, "LogoutRead")
       \/ Failures /\ Respond(r) /\ UNCHANGED password
    /\ UNCHANGED <<dbToken, cacheToken, tokenVars, trouble>>

-----------------------------------------------------------------------------
(* AccountService.Logout.                                                  *)

\* Nobody is logged in: nothing is done.
LogoutRead(r) ==
    /\ At(r, "LogoutRead")
    /\ \/ dbToken = None /\ Respond(r) /\ UNCHANGED trouble
       \/ dbToken # None /\ Goto(r, "LogoutDel") /\ UNCHANGED trouble
       \/ Failures /\ Respond(r) /\ trouble' = "some"
    /\ UNCHANGED <<store, cacheToken, tokenVars>>

\* As a bug: the copy in Redis is left to its TTL.
LogoutKeepsCopy(r) ==
    /\ At(r, "LogoutDel")
    /\ Goto(r, "LogoutStore")
    /\ UNCHANGED <<store, cacheToken, tokenVars, trouble>>

LogoutDel(r) ==
    /\ At(r, "LogoutDel")
    /\ \/ cacheToken' = None /\ UNCHANGED trouble
       \/ Failures /\ UNCHANGED cacheToken /\ trouble' = "some"
    /\ Goto(r, "LogoutStore")
    /\ UNCHANGED <<store, tokenVars>>

LogoutStore(r) ==
    /\ At(r, "LogoutStore")
    /\ \/ dbToken' = None /\ UNCHANGED trouble
       \/ Failures /\ UNCHANGED dbToken /\ trouble' = "some"
    /\ Respond(r)
    /\ UNCHANGED <<password, cacheToken, tokenVars>>

-----------------------------------------------------------------------------
(* AccountService.Rename.                                                  *)

\* Name and token are changed in one transaction, unless the name is taken.
RenameStore(r) ==
    /\ At(r, "RenameStore")
    /\ \/ \E n \in {issued + 1} \cap Tokens :
              /\ Issue(n, issuedUnder[request[r].token])
              /\ dbToken' = n
              /\ request' = [request EXCEPT ![r] = [at |-> "RenameCache", op |-> "rename",
                                                     token |-> n]]
       \/ Respond(r) /\ UNCHANGED <<dbToken, issued, issuedUnder>>
    /\ UNCHANGED <<password, cacheToken, given, trouble>>

RenameCache(r) ==
    /\ At(r, "RenameCache")
    /\ \/ cacheToken' = request[r].token /\ UNCHANGED trouble
       \/ Failures /\ UNCHANGED cacheToken /\ trouble' = "some"
    /\ given' = given \cup {request[r].token}
    /\ Respond(r)
    /\ UNCHANGED <<store, issued, issuedUnder>>

-----------------------------------------------------------------------------
(* JWTAuth.                                                                *)

\* A request for op arrives with token t.
StartCheck(r, op, t) ==
    /\ t \in given
    /\ Start(r, op, "CheckGet", t)
    /\ UNCHANGED <<store, cacheToken, tokenVars>>

\* c.Next: the handler of the operation runs.
Accept(r) ==
    CASE request[r].op = "logout" -> Goto(r, "LogoutRead")
      [] request[r].op = "rename" -> Goto(r, "RenameStore")
      [] OTHER -> Respond(r)

\* A miss and an error alike lead to MySQL.
CheckGet(r) ==
    /\ At(r, "CheckGet")
    /\ \/ cacheToken # None /\ cacheToken = request[r].token /\ Accept(r)
       \/ cacheToken \notin {None, request[r].token} /\ Respond(r)
       \/ (cacheToken = None \/ Failures) /\ Goto(r, "CheckDb")
    /\ UNCHANGED <<store, cacheToken, tokenVars, trouble>>

\* As a bug: it is enough that somebody is logged in.
CheckDbAny(r) ==
    /\ At(r, "CheckDb")
    /\ IF dbToken # None THEN Goto(r, "Refill") ELSE Respond(r)
    /\ UNCHANGED <<store, cacheToken, tokenVars, trouble>>

CheckDb(r) ==
    /\ At(r, "CheckDb")
    /\ \/ dbToken = request[r].token /\ Goto(r, "Refill")
       \/ (dbToken # request[r].token \/ Failures) /\ Respond(r)
    /\ UNCHANGED <<store, cacheToken, tokenVars, trouble>>

Refill(r) ==
    /\ At(r, "Refill")
    /\ cacheToken' = request[r].token \/ (Failures /\ UNCHANGED cacheToken)
    /\ Accept(r)
    /\ UNCHANGED <<store, tokenVars, trouble>>

-----------------------------------------------------------------------------
\* The TTL of 24 hours, which only SETs renew.
Expire ==
    /\ cacheToken # None
    /\ cacheToken' = None
    /\ UNCHANGED <<store, request, tokenVars, trouble>>

\* r has written one of the two copies of the token, or the password, and is to
\* write the rest.
HalfDone(r) ==
    \/ request[r].at \in {"LoginCache", "RenameCache"}
    \/ request[r].op = "change" /\ request[r].at # "ChangeStore"

ApiCrash ==
    /\ Failures
    /\ trouble' = IF trouble = "login" \/ \E r \in Requests : HalfDone(r)
                  THEN "some" ELSE trouble
    /\ request' = [r \in Requests |-> Idle]
    /\ UNCHANGED <<store, cacheToken, tokenVars>>

\* A request under way goes on.
RequestStep(r) ==
    \/ LoginStore(r)
    \/ LoginCache(r)
    \/ ChangeStore(r)
    \/ LogoutRead(r)
    \/ LogoutDel(r)
    \/ LogoutStore(r)
    \/ RenameStore(r)
    \/ RenameCache(r)
    \/ CheckGet(r)
    \/ CheckDb(r)
    \/ Refill(r)

Next ==
    \/ \E r \in Requests :
          \/ StartLogin(r)
          \/ StartChange(r)
          \/ \E op \in {"logout", "rename", "read"}, t \in Tokens : StartCheck(r, op, t)
          \/ RequestStep(r)
    \/ Expire
    \/ ApiCrash

Spec == Init /\ [][Next]_vars

\* Goroutines go on, and TTLs run out.
FairSpec == Spec /\ (\A r \in Requests : WF_vars(RequestStep(r))) /\ WF_vars(Expire)

-----------------------------------------------------------------------------
(* Properties.                                                             *)

\* As long as no two requests of the account overlap and none fails half-way -
\* and again from the first undisturbed login after such an event - only the token
\* of the row is accepted, and it was obtained with the present password: Login,
\* Rename, Logout and ChangePassword each leave row and Redis in agreement,
\* whatever expires meanwhile and however a refill comes in between.
SessionConsistent ==
    Quiet /\ trouble = "none" =>
        /\ cacheToken \in {None, dbToken}
        /\ dbToken # None => issuedUnder[dbToken] = password

\* A token that has ceased to be the one of the row for good is eventually refused
\* for good, whatever overlapped, failed or crashed: a stale copy in Redis is
\* never renewed by the requests that use it.
RevokedEventually ==
    \A t \in Tokens : <>[](dbToken # t) => <>[](cacheToken # t)
=============================================================================
