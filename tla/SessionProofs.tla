--------------------------- MODULE SessionProofs ---------------------------
(* Theorems about Session, for any number of requests, tokens and passwords. *)
EXTENDS Session, TLAPS

Records == [at : {"idle"} \cup Steps, op : Operations, token : {None} \cup Tokens]

LoginSteps == {"LoginStore", "LoginCache"}
LogoutSteps == {"LogoutRead", "LogoutDel", "LogoutStore"}
RenameSteps == {"RenameStore", "RenameCache"}
CheckSteps == {"CheckGet", "CheckDb", "Refill"}

\* Which operation takes which step, and which steps have a token at hand.
Coherent(q) ==
    /\ q.at = "idle" => q = Idle
    /\ q.at \in LoginSteps => q.op = "login"
    /\ q.at \in LogoutSteps => q.op \in {"logout", "change"}
    /\ q.at \in RenameSteps => q.op = "rename"
    /\ q.at \in CheckSteps => q.op \in {"logout", "rename", "read"}
    /\ q.at = "ChangeStore" => q.op = "change"
    /\ q.at \in LoginSteps \cup RenameSteps \cup CheckSteps => q.token # None

\* The type invariant made inductive: no token is used before it is issued.
Typed ==
    /\ TypeOK
    /\ \A r \in Requests : Coherent(request[r]) /\ request[r].token <= issued

Changing(r) == request[r].op = "change" /\ request[r].at \in LogoutSteps
Caching(r) == request[r].at \in {"LoginCache", "RenameCache"}

\* Undisturbed, only readers share the account.
Alone ==
    /\ trouble # "some" => \A p, q \in Requests :
          p # q /\ request[p] # Idle /\ request[q] # Idle =>
             request[p].op = "read" /\ request[q].op = "read"
    /\ trouble = "login" => \E r \in Requests : request[r].at \in LoginSteps

\* What a request that writes knows of the row, undisturbed.
Writers ==
    trouble # "some" => \A r \in Requests :
        /\ request[r].at = "LoginStore" => issuedUnder[request[r].token] = password
        /\ request[r].at = "LoginCache" =>
              dbToken = request[r].token /\ issuedUnder[dbToken] = password
        /\ request[r].at = "RenameCache" => dbToken = request[r].token

\* Row and Redis agree except between the two writes of one operation.
Agree ==
    trouble = "none" =>
        /\ (\A r \in Requests : ~Caching(r)) => cacheToken \in {None, dbToken}
        /\ (\A r \in Requests : ~Changing(r)) /\ dbToken # None =>
              issuedUnder[dbToken] = password
        /\ \A r \in Requests :
              /\ request[r].at \in {"Refill", "RenameStore"} => dbToken = request[r].token
              /\ request[r].at = "LogoutStore" => cacheToken = None

SessionInv == Alone /\ Writers /\ Agree

-----------------------------------------------------------------------------
(* What the steps do to the request that takes them.                       *)

\* Goto changes where r is and nothing else.
LEMMA GotoEffect ==
    ASSUME Typed, NEW r \in Requests, NEW step \in Steps, Goto(r, step)
    PROVE  /\ request' \in [Requests -> Records]
           /\ request'[r] = [at |-> step, op |-> request[r].op, token |-> request[r].token]
           /\ request'[r].at = step /\ request'[r].op = request[r].op
           /\ request'[r].token = request[r].token
           /\ \A q \in Requests \ {r} : request'[q] = request[q]
<1>1. request \in [Requests -> Records]  BY DEF Typed, TypeOK, Records
<1>2. [request[r] EXCEPT !.at = step]
         = [at |-> step, op |-> request[r].op, token |-> request[r].token]
  BY <1>1 DEF Records
<1>3. [at |-> step, op |-> request[r].op, token |-> request[r].token] \in Records
  BY <1>1 DEF Records
<1> QED  BY <1>1, <1>2, <1>3 DEF Goto

\* Respond ends r.
LEMMA RespondEffect ==
    ASSUME Typed, NEW r \in Requests, Respond(r)
    PROVE  /\ request' \in [Requests -> Records]
           /\ request'[r] = Idle
           /\ \A q \in Requests \ {r} : request'[q] = request[q]
<1>1. request \in [Requests -> Records]  BY DEF Typed, TypeOK, Records
<1>2. Idle \in Records  BY DEF Idle, Records, Operations
<1> QED  BY <1>1, <1>2 DEF Respond

\* Start begins r.
LEMMA StartEffect ==
    ASSUME Typed, NEW r \in Requests, NEW op \in Operations, NEW step \in Steps,
           NEW t \in {None} \cup Tokens, Start(r, op, step, t)
    PROVE  /\ request[r] = Idle
           /\ request' \in [Requests -> Records]
           /\ request'[r] = [at |-> step, op |-> op, token |-> t]
           /\ \A q \in Requests \ {r} : request'[q] = request[q]
           /\ trouble' \in {"none", "login", "some"}
           /\ trouble' # "some" => ~Overlaps(r, op)
           /\ trouble' = "none" => trouble = "none"
           /\ trouble' = "login" => op = "login" \/ trouble = "login"
<1>1. request \in [Requests -> Records]  BY DEF Typed, TypeOK, Records
<1>2. [at |-> step, op |-> op, token |-> t] \in Records  BY DEF Records
<1>3. trouble \in {"none", "login", "some"}  BY DEF Typed, TypeOK
<1> QED  BY <1>1, <1>2, <1>3 DEF Start

\* Accept lets the operation of r go on.
LEMMA AcceptEffect ==
    ASSUME Typed, NEW r \in Requests, Accept(r), request[r].at \in CheckSteps
    PROVE  /\ request' \in [Requests -> Records]
           /\ \A q \in Requests \ {r} : request'[q] = request[q]
           /\ \/ /\ request[r].op = "logout"
                 /\ request'[r] = [at |-> "LogoutRead", op |-> "logout", token |-> request[r].token]
              \/ /\ request[r].op = "rename"
                 /\ request'[r] = [at |-> "RenameStore", op |-> "rename", token |-> request[r].token]
              \/ request'[r] = Idle
<1>1. "LogoutRead" \in Steps /\ "RenameStore" \in Steps  BY DEF Steps
<1>2. CASE request[r].op = "logout"
  <2>1. Goto(r, "LogoutRead")  BY <1>2 DEF Accept
  <2> QED  BY <1>1, <1>2, <2>1, GotoEffect
<1>3. CASE request[r].op = "rename"
  <2>1. Goto(r, "RenameStore")  BY <1>3 DEF Accept
  <2> QED  BY <1>1, <1>3, <2>1, GotoEffect
<1>4. CASE request[r].op \notin {"logout", "rename"}
  <2>1. Respond(r)  BY <1>4 DEF Accept
  <2> QED  BY <2>1, RespondEffect
<1> QED  BY <1>2, <1>3, <1>4

-----------------------------------------------------------------------------
(* Type correctness.                                                       *)

\* A token is issued to a request that has none yet.
LEMMA IssueTyped ==
    ASSUME Typed, NEW n \in Tokens, n <= issued + 1, NEW p \in 0..MaxPasswords, Issue(n, p)
    PROVE  /\ issued' \in 0..MaxTokens /\ issued <= issued' /\ n <= issued'
           /\ issuedUnder' \in [Tokens -> 0..MaxPasswords]
BY BoundsTyped DEF Typed, TypeOK, Issue, Tokens

\* It is enough to look at the request that moves.
LEMMA RequestTyped ==
    ASSUME Typed, NEW r \in Requests, request' \in [Requests -> Records],
           \A q \in Requests \ {r} : request'[q] = request[q],
           Coherent(request'[r]), request'[r].token <= issued',
           issued' \in Nat, issued <= issued'
    PROVE  \A q \in Requests : Coherent(request'[q]) /\ request'[q].token <= issued'
<1> SUFFICES ASSUME NEW q \in Requests, q # r
             PROVE  Coherent(request'[q]) /\ request'[q].token <= issued'
  OBVIOUS
<1>1. request[q].token \in Nat /\ issued \in Nat
  BY BoundsTyped DEF Typed, TypeOK, Tokens, None
<1> QED  BY <1>1 DEF Typed

\* A request that starts, and one that goes on, preserve Typed.
LEMMA RequestStepTyped ==
    ASSUME Typed, NEW r \in Requests,
           \/ StartLogin(r)
           \/ StartChange(r)
           \/ \E op \in {"logout", "rename", "read"}, t \in Tokens : StartCheck(r, op, t)
           \/ RequestStep(r)
    PROVE  Typed'
<1> USE DEF None
<1>0. /\ issued \in Nat /\ MaxTokens \in Nat /\ issued <= MaxTokens
      /\ request[r] \in Records /\ request[r].token \in {0} \cup Tokens
      /\ Coherent(request[r]) /\ request[r].token <= issued
      /\ trouble \in {"none", "login", "some"}
      /\ password \in 0..MaxPasswords /\ MaxPasswords \in Nat
      /\ dbToken \in {0} \cup Tokens /\ cacheToken \in {0} \cup Tokens
      /\ given \in SUBSET (1..issued) /\ issuedUnder \in [Tokens -> 0..MaxPasswords]
  BY BoundsTyped DEF Typed, TypeOK, Records
<1> DEFINE Rest == /\ dbToken' \in {0} \cup Tokens
                   /\ password' \in 0..MaxPasswords
                   /\ cacheToken' \in {0} \cup Tokens
                   /\ issued' \in 0..MaxTokens /\ issued <= issued'
                   /\ issuedUnder' \in [Tokens -> 0..MaxPasswords]
                   /\ given' \in SUBSET (1..issued')
                   /\ trouble' \in {"none", "login", "some"}
           Moved == /\ request' \in [Requests -> Records]
                    /\ \A q \in Requests \ {r} : request'[q] = request[q]
                    /\ Coherent(request'[r]) /\ request'[r].token <= issued'
<1>1. Rest /\ Moved => Typed'
  <2> SUFFICES ASSUME Rest, Moved PROVE Typed'
    OBVIOUS
  <2>1. issued' \in Nat  BY <1>0
  <2>2. \A q \in Requests : Coherent(request'[q]) /\ request'[q].token <= issued'
    BY <2>1, RequestTyped
  <2> QED  BY <2>2 DEF Typed, TypeOK, Records
<1>2. Coherent(Idle) /\ Idle.token <= issued  BY <1>0 DEF Coherent, Idle, LoginSteps,
      LogoutSteps, RenameSteps, CheckSteps
<1>3. ASSUME Respond(r), issued' = issued PROVE Moved
  BY <1>2, <1>3, RespondEffect
<1>4. ASSUME NEW step \in Steps, Goto(r, step), issued' = issued,
             Coherent([at |-> step, op |-> request[r].op, token |-> request[r].token])
      PROVE  Moved
  BY <1>0, <1>4, GotoEffect
<1>5. CASE StartLogin(r)
  <2>1. PICK n \in {issued, issued + 1} \cap Tokens :
           Start(r, "login", "LoginStore", n) /\ Issue(n, password)
    BY <1>5 DEF StartLogin
  <2>2. n <= issued + 1 /\ n # 0 /\ n \in Nat  BY <1>0, <2>1 DEF Tokens
  <2>3. /\ issued' \in 0..MaxTokens /\ issued <= issued' /\ n <= issued'
        /\ issuedUnder' \in [Tokens -> 0..MaxPasswords]
    BY <1>0, <2>1, <2>2, IssueTyped
  <2>4. "LoginStore" \in Steps /\ "login" \in Operations  BY DEF Steps, Operations
  <2>5. Coherent([at |-> "LoginStore", op |-> "login", token |-> n])
    BY <2>2 DEF Coherent, LoginSteps, LogoutSteps, RenameSteps, CheckSteps
  <2>6. /\ request' \in [Requests -> Records]
        /\ request'[r] = [at |-> "LoginStore", op |-> "login", token |-> n]
        /\ \A q \in Requests \ {r} : request'[q] = request[q]
        /\ trouble' \in {"none", "login", "some"}
    <3>1. Start(r, "login", "LoginStore", n) /\ n \in {None} \cup Tokens  BY <2>1
    <3> QED  BY <2>4, <3>1, StartEffect
  <2>8. Moved  BY <2>3, <2>5, <2>6
  <2>7. given' \in SUBSET (1..issued')  BY <1>0, <1>5, <2>3 DEF StartLogin
  <2> QED  BY <1>0, <1>1, <1>5, <2>3, <2>6, <2>7, <2>8 DEF StartLogin, store
<1>6. CASE StartChange(r)
  <2>1. "ChangeStore" \in Steps /\ "change" \in Operations  BY DEF Steps, Operations
  <2>2. Coherent([at |-> "ChangeStore", op |-> "change", token |-> 0])
    BY DEF Coherent, LoginSteps, LogoutSteps, RenameSteps, CheckSteps
  <2>3. Moved /\ trouble' \in {"none", "login", "some"}
    BY <1>0, <1>6, <2>1, <2>2, StartEffect DEF StartChange, tokenVars
  <2> QED  BY <1>0, <1>1, <1>6, <2>3 DEF StartChange, store, tokenVars
<1>7. ASSUME NEW op \in {"logout", "rename", "read"}, NEW t \in Tokens, StartCheck(r, op, t)
      PROVE  Typed'
  <2>1. "CheckGet" \in Steps /\ op \in Operations  BY DEF Steps, Operations
  <2>2. t <= issued /\ t # 0  BY <1>0, <1>7 DEF StartCheck
  <2>3. Coherent([at |-> "CheckGet", op |-> op, token |-> t])
    BY <2>2 DEF Coherent, LoginSteps, LogoutSteps, RenameSteps, CheckSteps
  <2>4. Moved /\ trouble' \in {"none", "login", "some"}
    BY <1>0, <1>7, <2>1, <2>2, <2>3, StartEffect DEF StartCheck, tokenVars
  <2> QED  BY <1>0, <1>1, <1>7, <2>4 DEF StartCheck, store, tokenVars
<1>8. CASE LoginStore(r) \/ LoginCache(r)
  <2>1. "LoginCache" \in Steps  BY DEF Steps
  <2>2. request[r].token \in 1..issued  BY <1>0, <1>8 DEF LoginStore, LoginCache, At, Coherent,
        LoginSteps, Tokens
  <2>3. request[r].at = "LoginStore" =>
          Coherent([at |-> "LoginCache", op |-> request[r].op, token |-> request[r].token])
    BY <1>0 DEF Coherent, LoginSteps, LogoutSteps, RenameSteps, CheckSteps
  <2>4. Moved  BY <1>3, <1>4, <1>8, <2>1, <2>3 DEF LoginStore, LoginCache, At, tokenVars
  <2> QED  BY <1>0, <1>1, <1>8, <2>2, <2>4 DEF LoginStore, LoginCache, store, tokenVars
<1>9. CASE ChangeStore(r)
  <2>1. "LogoutRead" \in Steps  BY DEF Steps
  <2>2. Coherent([at |-> "LogoutRead", op |-> request[r].op, token |-> request[r].token])
    BY <1>0, <1>9 DEF ChangeStore, At, Coherent, LoginSteps, LogoutSteps, RenameSteps, CheckSteps
  <2>3. Moved  BY <1>3, <1>4, <1>9, <2>1, <2>2 DEF ChangeStore, tokenVars
  <2> QED  BY <1>0, <1>1, <1>9, <2>3 DEF ChangeStore, tokenVars
<1>10. CASE LogoutRead(r) \/ LogoutDel(r) \/ LogoutStore(r)
  <2>1. "LogoutDel" \in Steps /\ "LogoutStore" \in Steps  BY DEF Steps
  <2>2. \A step \in {"LogoutDel", "LogoutStore"} :
          Coherent([at |-> step, op |-> request[r].op, token |-> request[r].token])
    BY <1>0, <1>10 DEF LogoutRead, LogoutDel, LogoutStore, At, Coherent, LoginSteps,
       LogoutSteps, RenameSteps, CheckSteps
  <2>3. Moved  BY <1>3, <1>4, <1>10, <2>1, <2>2 DEF LogoutRead, LogoutDel, LogoutStore, tokenVars
  <2>4. UNCHANGED <<password, issued, issuedUnder, given>>
    BY <1>10 DEF LogoutRead, LogoutDel, LogoutStore, store, tokenVars
  <2>5. dbToken' \in {0} \cup Tokens /\ cacheToken' \in {0} \cup Tokens
    BY <1>0, <1>10 DEF LogoutRead, LogoutDel, LogoutStore, store
  <2>6. trouble' \in {"none", "login", "some"}
    BY <1>0, <1>10 DEF LogoutRead, LogoutDel, LogoutStore
  <2> QED  BY <1>0, <1>1, <2>3, <2>4, <2>5, <2>6
<1>11. CASE RenameStore(r)
  <2>1. CASE Respond(r) /\ UNCHANGED <<dbToken, issued, issuedUnder>>
    BY <1>0, <1>1, <1>3, <1>11, <2>1 DEF RenameStore
  <2>2. ASSUME NEW n \in {issued + 1} \cap Tokens,
               Issue(n, issuedUnder[request[r].token]),
               dbToken' = n,
               request' = [request EXCEPT ![r] = [at |-> "RenameCache", op |-> "rename",
                                                  token |-> n]]
        PROVE  Typed'
    <3>1. request[r].token \in Tokens  BY <1>0, <1>11 DEF RenameStore, At, Coherent, RenameSteps
    <3>2. issuedUnder[request[r].token] \in 0..MaxPasswords  BY <1>0, <3>1
    <3>3. /\ issued' \in 0..MaxTokens /\ issued <= issued' /\ n <= issued'
          /\ issuedUnder' \in [Tokens -> 0..MaxPasswords]
      BY <1>0, <2>2, <3>2, IssueTyped
    <3>4. request \in [Requests -> Records]  BY DEF Typed, TypeOK, Records
    <3>5. [at |-> "RenameCache", op |-> "rename", token |-> n] \in Records
      BY <1>0 DEF Records, Steps, Operations
    <3>6. n # 0 /\ Coherent([at |-> "RenameCache", op |-> "rename", token |-> n])
      BY <1>0, <1>11, <2>2 DEF RenameStore, At, Coherent, LoginSteps, LogoutSteps, RenameSteps,
         CheckSteps
    <3>7. Moved  BY <2>2, <3>3, <3>4, <3>5, <3>6
    <3>8. given' \in SUBSET (1..issued')  BY <1>0, <1>11, <3>3 DEF RenameStore
    <3> QED  BY <1>0, <1>1, <1>11, <2>2, <3>3, <3>7, <3>8 DEF RenameStore
  <2> QED  BY <1>11, <2>1, <2>2 DEF RenameStore
<1>12. CASE RenameCache(r)
  <2>1. request[r].token \in 1..issued  BY <1>0, <1>12 DEF RenameCache, At, Coherent,
        RenameSteps, Tokens
  <2>2. Moved  BY <1>3, <1>12 DEF RenameCache
  <2>3. UNCHANGED <<dbToken, password, issued, issuedUnder>>
    BY <1>12 DEF RenameCache, store
  <2>4. cacheToken' \in {0} \cup Tokens /\ given' \in SUBSET (1..issued)
    BY <1>0, <1>12, <2>1 DEF RenameCache
  <2>5. trouble' \in {"none", "login", "some"}  BY <1>0, <1>12 DEF RenameCache
  <2> QED  BY <1>0, <1>1, <2>2, <2>3, <2>4, <2>5
<1>13. ASSUME Accept(r), issued' = issued, request[r].at \in CheckSteps PROVE Moved
  <2>1. \A step \in {"LogoutRead", "RenameStore"} : \A op \in {"logout", "rename"} :
          (step = "LogoutRead" <=> op = "logout") =>
             Coherent([at |-> step, op |-> op, token |-> request[r].token])
    BY <1>0, <1>13 DEF Coherent, LoginSteps, LogoutSteps, RenameSteps, CheckSteps
  <2> QED  BY <1>0, <1>2, <1>13, <2>1, AcceptEffect
<1>14. CASE CheckGet(r) \/ CheckDb(r)
  <2>1. "CheckDb" \in Steps /\ "Refill" \in Steps  BY DEF Steps
  <2>2. request[r].at \in CheckSteps  BY <1>14 DEF CheckGet, CheckDb, At, CheckSteps
  <2>3. \A step \in {"CheckDb", "Refill"} :
          Coherent([at |-> step, op |-> request[r].op, token |-> request[r].token])
    BY <1>0, <2>2 DEF Coherent, LoginSteps, LogoutSteps, RenameSteps, CheckSteps
  <2>4. Moved  BY <1>3, <1>4, <1>13, <1>14, <2>1, <2>2, <2>3 DEF CheckGet, CheckDb, tokenVars
  <2>5. UNCHANGED <<dbToken, password, cacheToken, issued, issuedUnder, given, trouble>>
    BY <1>14 DEF CheckGet, CheckDb, store, tokenVars
  <2> QED  BY <1>0, <1>1, <2>4, <2>5
<1>15. CASE Refill(r)
  <2>1. Moved  BY <1>13, <1>15 DEF Refill, At, CheckSteps, tokenVars
  <2> QED  BY <1>0, <1>1, <1>15, <2>1 DEF Refill, store, tokenVars
<1> QED
  BY <1>5, <1>6, <1>7, <1>8, <1>9, <1>10, <1>11, <1>12, <1>14, <1>15 DEF RequestStep

\* Typed is inductive.
LEMMA TypedAlways == Spec => []Typed
<1>0. Coherent(Idle)
  BY DEF Coherent, Idle, LoginSteps, LogoutSteps, RenameSteps, CheckSteps
<1>1. Init => Typed
  BY <1>0, BoundsTyped DEF Init, Typed, TypeOK, Idle, Operations, None
<1>2. Typed /\ [Next]_vars => Typed'
  <2> SUFFICES ASSUME Typed, [Next]_vars PROVE Typed'
    OBVIOUS
  <2>1. CASE Expire
    BY <2>1 DEF Expire, Typed, TypeOK, store, tokenVars, None
  <2>2. CASE ApiCrash
    <3>1. Idle \in Records  BY DEF Idle, Records, Operations
    <3>2. request' \in [Requests -> Records] /\ trouble' \in {"none", "login", "some"}
      BY <2>2, <3>1 DEF ApiCrash, Typed, TypeOK
    <3>3. 0 <= issued  BY BoundsTyped DEF Typed, TypeOK
    <3>4. \A r \in Requests : Coherent(request'[r]) /\ request'[r].token <= issued
      BY <1>0, <2>2, <3>3 DEF ApiCrash, Idle, None
    <3> QED  BY <2>2, <3>2, <3>4 DEF ApiCrash, Typed, TypeOK, Records, store, tokenVars
  <2>3. CASE UNCHANGED vars
    BY <2>3 DEF Typed, TypeOK, vars, store, tokenVars
  <2> QED  BY <2>1, <2>2, <2>3, RequestStepTyped DEF Next
<1> QED  BY <1>1, <1>2, PTL DEF Spec

\* Every reachable state is typed: no client has a token that was never issued.
THEOREM TypeCorrect == Spec => []TypeOK
<1>1. Typed => TypeOK  BY DEF Typed
<1> QED  BY <1>1, TypedAlways, PTL

-----------------------------------------------------------------------------
(* Consistency of the session.                                             *)

\* Undisturbed, a request that writes is alone and a reader has only readers
\* beside it.
LEMMA Beside ==
    ASSUME Typed, Alone, trouble # "some", NEW r \in Requests, request[r].at # "idle"
    PROVE  /\ request[r].op # "read" => \A q \in Requests \ {r} : request[q] = Idle
           /\ \A q \in Requests \ {r} : request[q].at \in CheckSteps \cup {"idle"}
           /\ trouble = "login" => request[r].at \in LoginSteps
<1>1. request[r] # Idle  BY DEF Idle
<1>2. \A q \in Requests \ {r} :
         request[q] = Idle \/ (request[q].op = "read" /\ request[r].op = "read")
  BY <1>1 DEF Alone
<1>3. ASSUME NEW q \in Requests \ {r} PROVE request[q].at \in CheckSteps \cup {"idle"}
  <2>1. request[q] \in Records /\ Coherent(request[q])  BY DEF Typed, TypeOK, Records
  <2>2. CASE request[q] = Idle  BY <2>2 DEF Idle
  <2>3. CASE request[q].op = "read"
    BY <2>1, <2>3 DEF Records, Steps, Coherent, LoginSteps, LogoutSteps, RenameSteps, CheckSteps
  <2> QED  BY <1>2, <2>2, <2>3
<1>4. ASSUME trouble = "login" PROVE request[r].at \in LoginSteps
  <2>1. PICK p \in Requests : request[p].at \in LoginSteps  BY <1>4 DEF Alone
  <2>2. p = r  BY <1>3, <2>1 DEF LoginSteps, CheckSteps
  <2> QED  BY <2>1, <2>2
<1> QED  BY <1>2, <1>3, <1>4

\* A request that goes on keeps its operation and so stays alone.
LEMMA AloneKept ==
    ASSUME Typed, Alone, NEW r \in Requests, request[r].at # "idle",
           \A q \in Requests \ {r} : request'[q] = request[q],
           request'[r] = Idle \/ request'[r].op = request[r].op,
           trouble' # "some" => trouble # "some",
           trouble' = "login" => request'[r].at \in LoginSteps
    PROVE  Alone'
<1>1. request[r] # Idle  BY DEF Idle
<1> QED  BY <1>1 DEF Alone

\* The steps of Login.
LEMMA LoginInv ==
    ASSUME Typed, SessionInv, NEW r \in Requests, LoginStore(r) \/ LoginCache(r)
    PROVE  SessionInv'
<1> USE DEF None
<1>0. /\ Coherent(request[r]) /\ request[r].at \in LoginSteps /\ request[r].op = "login"
      /\ request[r].token # 0 /\ request[r].at # "idle"
      /\ trouble \in {"none", "login", "some"}
  BY DEF Typed, TypeOK, LoginStore, LoginCache, At, Coherent, LoginSteps
<1>1. trouble' # "some" => trouble # "some"
  BY DEF LoginStore, LoginCache
<1>2. "LoginCache" \in Steps  BY DEF Steps
<1>3. \A q \in Requests \ {r} : request'[q] = request[q]
  BY <1>2, GotoEffect, RespondEffect DEF LoginStore, LoginCache
<1>4. CASE trouble' = "some"
  <2>1. request'[r] = Idle \/ request'[r].op = request[r].op
    BY <1>2, GotoEffect, RespondEffect DEF LoginStore, LoginCache
  <2>2. Alone'  BY <1>0, <1>3, <1>4, <2>1, AloneKept DEF SessionInv
  <2> QED  BY <1>4, <2>2 DEF SessionInv, Writers, Agree
<1>5. CASE trouble' # "some" /\ LoginStore(r)
  <2>1. dbToken' = request[r].token /\ Goto(r, "LoginCache") /\ trouble' = trouble
        /\ UNCHANGED <<password, cacheToken, issuedUnder>> /\ request[r].at = "LoginStore"
    BY <1>5 DEF LoginStore, At, tokenVars
  <2>2. request'[r] = [at |-> "LoginCache", op |-> "login", token |-> request[r].token]
    BY <1>0, <1>2, <2>1, GotoEffect
  <2>3. \A q \in Requests \ {r} : request'[q] = Idle
    BY <1>0, <1>1, <1>3, <1>5, Beside DEF SessionInv
  <2>4. issuedUnder[request[r].token] = password
    BY <1>1, <1>5, <2>1 DEF SessionInv, Writers
  <2>5. Alone'  BY <1>0, <1>1, <1>3, <2>2, AloneKept DEF SessionInv, LoginSteps
  <2>6. Writers'  BY <2>1, <2>2, <2>3, <2>4 DEF Writers, Idle
  <2>7. Agree'  BY <2>1, <2>2, <2>3, <2>4 DEF Agree, Caching, Changing, Idle
  <2> QED  BY <2>5, <2>6, <2>7 DEF SessionInv
<1>6. CASE trouble' # "some" /\ LoginCache(r)
  <2>1. cacheToken' = request[r].token /\ Respond(r) /\ trouble' = "none"
        /\ UNCHANGED <<dbToken, password, issuedUnder>> /\ request[r].at = "LoginCache"
    BY <1>0, <1>1, <1>6 DEF LoginCache, At, store
  <2>2. \A q \in Requests : request'[q] = Idle
    BY <1>0, <1>1, <1>3, <1>6, <2>1, RespondEffect, Beside DEF SessionInv
  <2>3. dbToken = request[r].token /\ issuedUnder[dbToken] = password
    BY <1>1, <1>6, <2>1 DEF SessionInv, Writers
  <2>4. Alone'  BY <2>1, <2>2 DEF Alone
  <2>5. Writers'  BY <2>2 DEF Writers, Idle
  <2>6. Agree'  BY <2>1, <2>2, <2>3 DEF Agree, Idle
  <2> QED  BY <2>4, <2>5, <2>6 DEF SessionInv
<1> QED  BY <1>4, <1>5, <1>6

\* The steps of ChangePassword and Logout.
LEMMA LogoutInv ==
    ASSUME Typed, SessionInv, NEW r \in Requests,
           ChangeStore(r) \/ LogoutRead(r) \/ LogoutDel(r) \/ LogoutStore(r)
    PROVE  SessionInv'
<1> USE DEF None
<1>0. /\ Coherent(request[r]) /\ request[r].at # "idle" /\ request[r].op # "read"
      /\ request[r].at \notin LoginSteps /\ trouble \in {"none", "login", "some"}
  BY DEF Typed, TypeOK, ChangeStore, LogoutRead, LogoutDel, LogoutStore, At, Coherent,
     LoginSteps, LogoutSteps
<1>1. trouble' = "some" \/ trouble' = trouble
  BY DEF ChangeStore, LogoutRead, LogoutDel, LogoutStore
<1>2. "LogoutRead" \in Steps /\ "LogoutDel" \in Steps /\ "LogoutStore" \in Steps  BY DEF Steps
<1>3. /\ \A q \in Requests \ {r} : request'[q] = request[q]
      /\ request'[r] = Idle \/ request'[r].op = request[r].op
  BY <1>2, GotoEffect, RespondEffect DEF ChangeStore, LogoutRead, LogoutDel, LogoutStore
<1>4. trouble' # "some" => trouble = "none" /\ trouble' = "none"
  BY <1>0, <1>1, Beside DEF SessionInv
<1>5. Alone'  BY <1>0, <1>3, <1>4, AloneKept DEF SessionInv
<1>6. CASE trouble' = "some"
  BY <1>5, <1>6 DEF SessionInv, Writers, Agree
<1>7. ASSUME trouble' # "some" PROVE SessionInv'
  <2>0. trouble = "none" /\ trouble' = "none" /\ \A q \in Requests \ {r} : request[q] = Idle
    BY <1>0, <1>4, <1>7, Beside DEF SessionInv
  <2>1. \A q \in Requests \ {r} : request'[q] = Idle  BY <1>3, <2>0
  <2>2. ~Caching(r) /\ \A q \in Requests : ~Caching(q)
    BY <2>0 DEF Caching, Idle, ChangeStore, LogoutRead, LogoutDel, LogoutStore, At
  <2>3. cacheToken \in {0, dbToken}  BY <2>0, <2>2 DEF SessionInv, Agree
  <2>4. ~Changing(r) /\ dbToken # 0 => issuedUnder[dbToken] = password
    BY <2>0 DEF SessionInv, Agree, Changing, Idle
  <2>5. issuedUnder' = issuedUnder
    BY DEF ChangeStore, LogoutRead, LogoutDel, LogoutStore, tokenVars
  <2>6. ASSUME Respond(r), cacheToken' \in {0, dbToken'},
               dbToken' # 0 => issuedUnder[dbToken'] = password'
        PROVE  SessionInv'
    <3>1. \A q \in Requests : request'[q] = Idle  BY <2>1, <2>6, RespondEffect
    <3>2. Writers'  BY <3>1 DEF Writers, Idle
    <3>3. Agree'  BY <2>5, <2>6, <3>1 DEF Agree, Idle
    <3> QED  BY <1>5, <3>2, <3>3 DEF SessionInv
  <2>7. ASSUME NEW step \in {"LogoutRead", "LogoutDel", "LogoutStore"}, Goto(r, step),
               cacheToken' \in {0, dbToken'},
               step = "LogoutStore" => cacheToken' = 0,
               request[r].op # "change" /\ dbToken' # 0 => issuedUnder[dbToken'] = password'
        PROVE  SessionInv'
    <3>1. request'[r].at = step /\ request'[r].op = request[r].op
      BY <1>2, <2>7, GotoEffect
    <3>2. Writers'  BY <2>1, <3>1 DEF Writers, Idle
    <3>3. request[r].op = "change" => Changing(r)'  BY <3>1 DEF Changing, LogoutSteps
    <3>4. Agree'  BY <2>1, <2>5, <2>7, <3>1, <3>3 DEF Agree, Idle
    <3> QED  BY <1>5, <3>2, <3>4 DEF SessionInv
  <2>8. CASE ChangeStore(r)
    <3>1. ~Changing(r) /\ request[r].op = "change"
      BY <1>0, <2>8 DEF ChangeStore, At, Changing, LogoutSteps, Coherent
    <3>2. UNCHANGED <<dbToken, cacheToken>>  BY <2>8 DEF ChangeStore
    <3> QED  BY <2>3, <2>4, <2>6, <2>7, <2>8, <3>1, <3>2 DEF ChangeStore
  <2>9. request[r].op # "change" => ~Changing(r)  BY DEF Changing
  <2>10. CASE LogoutRead(r)
    <3>1. UNCHANGED <<dbToken, password, cacheToken>>  BY <2>10 DEF LogoutRead, store
    <3>2. \/ dbToken = 0 /\ Respond(r)
          \/ dbToken # 0 /\ Goto(r, "LogoutDel")
      BY <1>7, <2>10 DEF LogoutRead
    <3> QED  BY <2>3, <2>4, <2>6, <2>7, <2>9, <3>1, <3>2
  <2>11. CASE LogoutDel(r)
    <3>1. UNCHANGED <<dbToken, password>> /\ cacheToken' = 0 /\ Goto(r, "LogoutStore")
      BY <1>7, <2>11 DEF LogoutDel, store
    <3> QED  BY <2>4, <2>7, <2>9, <3>1
  <2>12. CASE LogoutStore(r)
    <3>1. UNCHANGED <<password, cacheToken>> /\ dbToken' = 0 /\ Respond(r)
      BY <1>7, <2>12 DEF LogoutStore
    <3>2. cacheToken = 0  BY <2>0, <2>12 DEF SessionInv, Agree, LogoutStore, At
    <3> QED  BY <2>6, <3>1, <3>2
  <2> QED  BY <2>8, <2>10, <2>11, <2>12
<1> QED  BY <1>6, <1>7

\* The steps of Rename.
LEMMA RenameInv ==
    ASSUME Typed, SessionInv, NEW r \in Requests, RenameStore(r) \/ RenameCache(r)
    PROVE  SessionInv'
<1> USE DEF None
<1>0. /\ request[r].at \in RenameSteps /\ request[r].op = "rename" /\ request[r].at # "idle"
      /\ request[r].token \in Tokens /\ request[r].token # 0
      /\ request[r].at \notin LoginSteps
      /\ trouble \in {"none", "login", "some"} /\ issuedUnder \in [Tokens -> 0..MaxPasswords]
  BY DEF Typed, TypeOK, RenameStore, RenameCache, At, Coherent, RenameSteps, LoginSteps
<1>1. trouble' = "some" \/ trouble' = trouble  BY DEF RenameStore, RenameCache
<1>2. /\ \A q \in Requests \ {r} : request'[q] = request[q]
      /\ request'[r] = Idle \/ request'[r].op = request[r].op
  <2>1. CASE Respond(r)  BY <2>1, RespondEffect
  <2>2. CASE ~Respond(r)
    <3>1. PICK n \in Tokens :
             request' = [request EXCEPT ![r] = [at |-> "RenameCache", op |-> "rename", token |-> n]]
      BY <2>2 DEF RenameStore, RenameCache
    <3>2. request \in [Requests -> Records]  BY DEF Typed, TypeOK, Records
    <3> QED  BY <1>0, <3>1, <3>2
  <2> QED  BY <2>1, <2>2
<1>3. trouble' # "some" => trouble = "none" /\ trouble' = "none"
  BY <1>0, <1>1, Beside DEF SessionInv
<1>4. Alone'  BY <1>0, <1>2, <1>3, AloneKept DEF SessionInv
<1>5. CASE trouble' = "some"
  BY <1>4, <1>5 DEF SessionInv, Writers, Agree
<1>6. ASSUME trouble' # "some" PROVE SessionInv'
  <2>0. trouble = "none" /\ trouble' = "none" /\ \A q \in Requests \ {r} : request[q] = Idle
    BY <1>0, <1>3, <1>6, Beside DEF SessionInv
  <2>1. \A q \in Requests \ {r} : request'[q] = Idle  BY <1>2, <2>0
  <2>2. \A q \in Requests : ~Changing(q)  BY <1>0, <2>0 DEF Changing, Idle
  <2>3. dbToken = request[r].token  BY <1>0, <2>0 DEF SessionInv, Agree, Writers, RenameSteps
  <2>4. issuedUnder[dbToken] = password  BY <1>0, <2>0, <2>2, <2>3 DEF SessionInv, Agree
  <2>5. password' = password  BY DEF RenameStore, RenameCache, store
  <2>6. ASSUME Respond(r), cacheToken' \in {0, dbToken'}, dbToken' = dbToken,
               issuedUnder' = issuedUnder
        PROVE  SessionInv'
    <3>1. \A q \in Requests : request'[q] = Idle  BY <2>1, <2>6, RespondEffect
    <3>2. Writers'  BY <3>1 DEF Writers, Idle
    <3>3. Agree'  BY <2>4, <2>5, <2>6, <3>1 DEF Agree, Idle
    <3> QED  BY <1>4, <3>2, <3>3 DEF SessionInv
  <2>7. ASSUME NEW n \in Tokens, Issue(n, issuedUnder[request[r].token]), dbToken' = n,
               request' = [request EXCEPT ![r] = [at |-> "RenameCache", op |-> "rename",
                                                  token |-> n]]
        PROVE  SessionInv'
    <3>1. request'[r] = [at |-> "RenameCache", op |-> "rename", token |-> n]
      BY <2>7 DEF Typed, TypeOK
    <3>2. issuedUnder'[n] = password  BY <1>0, <2>3, <2>4, <2>7 DEF Issue
    <3>3. Writers'  BY <2>1, <2>7, <3>1 DEF Writers, Idle
    <3>4. Caching(r)'  BY <3>1 DEF Caching
    <3>5. Agree'  BY <2>1, <2>5, <2>7, <3>1, <3>2, <3>4 DEF Agree, Idle
    <3> QED  BY <1>4, <3>3, <3>5 DEF SessionInv
  <2>8. CASE RenameStore(r)
    <3>1. \A q \in Requests : ~Caching(q)  BY <2>0, <2>8 DEF Caching, Idle, RenameStore, At
    <3>2. cacheToken \in {0, dbToken}  BY <2>0, <3>1 DEF SessionInv, Agree
    <3> QED  BY <2>6, <2>7, <2>8, <3>2 DEF RenameStore
  <2>9. CASE RenameCache(r)
    BY <1>6, <2>3, <2>6, <2>9 DEF RenameCache, store
  <2> QED  BY <2>8, <2>9
<1> QED  BY <1>5, <1>6

\* The steps of JWTAuth.
LEMMA CheckInv ==
    ASSUME Typed, SessionInv, NEW r \in Requests, CheckGet(r) \/ CheckDb(r) \/ Refill(r)
    PROVE  SessionInv'
<1> USE DEF None
<1>0. /\ request[r].at \in CheckSteps /\ request[r].at # "idle" /\ request[r].at \notin LoginSteps
      /\ request[r].token # 0 /\ request[r].op # "change"
      /\ trouble \in {"none", "login", "some"}
  BY DEF Typed, TypeOK, CheckGet, CheckDb, Refill, At, Coherent, CheckSteps, LoginSteps
<1>1. UNCHANGED <<dbToken, password, issuedUnder, trouble>>
  BY DEF CheckGet, CheckDb, Refill, store, tokenVars
<1>2. \/ request'[r] = Idle
      \/ /\ request'[r].at \in {"CheckDb", "Refill", "LogoutRead", "RenameStore"}
         /\ request'[r].op = request[r].op /\ request'[r].token = request[r].token
  <2>1. "CheckDb" \in Steps /\ "Refill" \in Steps  BY DEF Steps
  <2>2. CASE Accept(r)
    <3>1. ASSUME NEW step \in {"LogoutRead", "RenameStore"}, Goto(r, step)
          PROVE  /\ request'[r].at \in {"LogoutRead", "RenameStore"}
                 /\ request'[r].op = request[r].op /\ request'[r].token = request[r].token
      <4>1. step \in Steps  BY DEF Steps
      <4> QED  BY <3>1, <4>1, GotoEffect
    <3> QED  BY <2>2, <3>1, RespondEffect DEF Accept
  <2>3. CASE Respond(r)  BY <2>3, RespondEffect
  <2>4. ASSUME NEW step \in {"CheckDb", "Refill"}, Goto(r, step)
        PROVE  /\ request'[r].at \in {"CheckDb", "Refill"}
               /\ request'[r].op = request[r].op /\ request'[r].token = request[r].token
    BY <2>1, <2>4, GotoEffect
  <2> QED  BY <2>2, <2>3, <2>4 DEF CheckGet, CheckDb, Refill
<1>3. \A q \in Requests \ {r} : request'[q] = request[q]
  <2>1. "CheckDb" \in Steps /\ "Refill" \in Steps  BY DEF Steps
  <2> QED  BY <1>0, <2>1, GotoEffect, RespondEffect, AcceptEffect DEF CheckGet, CheckDb, Refill
<1>4. trouble # "some" => trouble = "none"
  BY <1>0, Beside DEF SessionInv
<1>5. Alone'  BY <1>0, <1>1, <1>2, <1>3, <1>4, AloneKept DEF SessionInv
<1>6. CASE trouble = "some"
  BY <1>1, <1>5, <1>6 DEF SessionInv, Writers, Agree
<1>7. ASSUME trouble = "none" PROVE SessionInv'
  <2>1. \A q \in Requests \ {r} : request[q].at \in CheckSteps \cup {"idle"}
    BY <1>0, <1>7, Beside DEF SessionInv
  <2>2. \A q \in Requests : request[q].at \in CheckSteps \cup {"idle"}  BY <1>0, <2>1
  <2>3. cacheToken \in {0, dbToken} /\ (dbToken # 0 => issuedUnder[dbToken] = password)
    <3>1. \A q \in Requests : ~Caching(q) /\ ~Changing(q)
      BY <2>2 DEF Caching, Changing, CheckSteps, LogoutSteps
    <3> QED  BY <1>7, <3>1 DEF SessionInv, Agree
  <2>4. request'[r].at \in {"Refill", "RenameStore"} => dbToken = request[r].token
    <3>1. CASE CheckGet(r)
      <4>1. CASE Accept(r) /\ cacheToken = request[r].token  BY <1>0, <2>3, <4>1
      <4>2. CASE Respond(r)  BY <4>2, RespondEffect DEF Idle
      <4>3. CASE Goto(r, "CheckDb")
        <5>1. "CheckDb" \in Steps  BY DEF Steps
        <5> QED  BY <4>3, <5>1, GotoEffect
      <4> QED  BY <3>1, <4>1, <4>2, <4>3 DEF CheckGet
    <3>2. CASE CheckDb(r)
      <4>1. CASE Respond(r)  BY <4>1, RespondEffect DEF Idle
      <4> QED  BY <3>2, <4>1 DEF CheckDb
    <3>3. CASE Refill(r)
      BY <1>7, <3>3 DEF SessionInv, Agree, Refill, At
    <3> QED  BY <3>1, <3>2, <3>3
  <2>5. cacheToken' \in {0, dbToken}
    <3>1. CASE Refill(r)
      <4>1. dbToken = request[r].token  BY <1>7, <3>1 DEF SessionInv, Agree, Refill, At
      <4> QED  BY <2>3, <3>1, <4>1 DEF Refill
    <3> QED  BY <2>3, <3>1 DEF CheckGet, CheckDb
  <2>6. \A q \in Requests \ {r} : request'[q].at \in CheckSteps \cup {"idle"}  BY <1>3, <2>1
  <2>7. Writers'
    BY <1>2, <2>6 DEF Writers, Idle, CheckSteps
  <2>8. \A q \in Requests \ {r} : request'[q].at \in {"Refill", "RenameStore"} =>
           dbToken = request'[q].token
    BY <1>3, <1>7 DEF SessionInv, Agree
  <2>9. \A q \in Requests : request'[q].at # "LogoutStore"
    BY <1>2, <2>6 DEF CheckSteps, Idle
  <2>10. Agree'
    BY <1>1, <1>2, <2>3, <2>4, <2>5, <2>8, <2>9 DEF Agree, Idle
  <2> QED  BY <1>5, <2>7, <2>10 DEF SessionInv
<1> QED  BY <1>4, <1>6, <1>7

\* A request that starts.
LEMMA StartInv ==
    ASSUME Typed, SessionInv, NEW r \in Requests,
           \/ StartLogin(r)
           \/ StartChange(r)
           \/ \E op \in {"logout", "rename", "read"}, t \in Tokens : StartCheck(r, op, t)
    PROVE  SessionInv'
<1> USE DEF None
<1>1. PICK op \in Operations, step \in {"LoginStore", "ChangeStore", "CheckGet"},
           t \in {0} \cup Tokens :
         /\ Start(r, op, step, t)
         /\ op = "login" <=> step = "LoginStore"
         /\ op = "change" <=> step = "ChangeStore"
         /\ step = "LoginStore" => t # 0 /\ Issue(t, password)
         /\ step # "LoginStore" => issuedUnder' = issuedUnder
  <2>1. CASE StartLogin(r)
    <3>1. PICK n \in {issued, issued + 1} \cap Tokens :
             Start(r, "login", "LoginStore", n) /\ Issue(n, password)
      BY <2>1 DEF StartLogin
    <3>2. n # 0 /\ n \in {0} \cup Tokens  BY <3>1 DEF Tokens
    <3> QED  BY <3>1, <3>2 DEF Operations
  <2>2. CASE StartChange(r)
    BY <2>2 DEF StartChange, Operations, tokenVars
  <2>3. CASE \E o \in {"logout", "rename", "read"}, u \in Tokens : StartCheck(r, o, u)
    BY <2>3 DEF StartCheck, Operations, tokenVars
  <2> QED  BY <2>1, <2>2, <2>3
<1>2. UNCHANGED <<dbToken, password, cacheToken>>
  BY DEF StartLogin, StartChange, StartCheck, store
<1>3. /\ request[r] = Idle
      /\ request'[r] = [at |-> step, op |-> op, token |-> t]
      /\ \A q \in Requests \ {r} : request'[q] = request[q]
      /\ trouble' \in {"none", "login", "some"}
      /\ trouble' # "some" => ~Overlaps(r, op)
      /\ trouble' = "none" => trouble = "none"
      /\ trouble' = "login" => op = "login" \/ trouble = "login"
  <2>1. step \in Steps  BY DEF Steps
  <2>2. t \in {None} \cup Tokens  OBVIOUS
  <2> QED  BY <1>1, <2>1, <2>2, StartEffect
<1>4. CASE trouble' = "some"
  BY <1>4 DEF SessionInv, Alone, Writers, Agree
<1>5. ASSUME trouble' # "some" PROVE SessionInv'
  <2>1. \A q \in Requests \ {r} :
           request[q] = Idle \/ (op = "read" /\ request[q].op = "read")
    BY <1>3, <1>5 DEF Overlaps
  <2>2. trouble # "login"
    <3>1. SUFFICES ASSUME trouble = "login" PROVE FALSE
      OBVIOUS
    <3>2. PICK p \in Requests : request[p].at \in LoginSteps
      BY <3>1 DEF SessionInv, Alone
    <3>3. request[p].op = "login"  BY <3>2 DEF Typed, Coherent
    <3>4. request[p] # Idle  BY <3>3 DEF Idle
    <3>5. p # r  BY <1>3, <3>4
    <3> QED  BY <2>1, <3>3, <3>4, <3>5
  <2>3. \A q \in Requests \ {r} : request[q].at \in CheckSteps \cup {"idle"}
    <3>1. ASSUME NEW q \in Requests \ {r}, request[q].op = "read"
          PROVE  request[q].at \in CheckSteps \cup {"idle"}
      <4>1. request[q] \in Records /\ Coherent(request[q])  BY DEF Typed, TypeOK, Records
      <4> QED  BY <3>1, <4>1 DEF Records, Steps, Coherent, LoginSteps, LogoutSteps,
               RenameSteps, CheckSteps
    <3>2. ASSUME NEW q \in Requests \ {r}, request[q] = Idle
          PROVE  request[q].at \in CheckSteps \cup {"idle"}
      BY <3>2 DEF Idle
    <3> QED  BY <2>1, <3>1, <3>2
  <2>4. Alone'
    <3>1. \A p, q \in Requests : p # q /\ request'[p] # Idle /\ request'[q] # Idle =>
             request'[p].op = "read" /\ request'[q].op = "read"
      <4>1. SUFFICES ASSUME NEW p \in Requests, NEW q \in Requests, p # q,
                            request'[p] # Idle, request'[q] # Idle
                     PROVE  request'[p].op = "read" /\ request'[q].op = "read"
        OBVIOUS
      <4>2. CASE p = r  BY <1>3, <2>1, <4>1, <4>2
      <4>3. CASE q = r  BY <1>3, <2>1, <4>1, <4>3
      <4>4. CASE p # r /\ q # r  BY <1>3, <2>1, <4>1, <4>4
      <4> QED  BY <4>2, <4>3, <4>4
    <3>2. trouble' = "login" => request'[r].at \in LoginSteps
      BY <1>1, <1>3, <2>2 DEF LoginSteps
    <3> QED  BY <3>1, <3>2 DEF Alone
  <2>5. \A q \in Requests \ {r} : request'[q].at \in CheckSteps \cup {"idle"}  BY <1>3, <2>3
  <2>6. step = "LoginStore" => issuedUnder'[t] = password
    BY <1>1 DEF Issue, Typed, TypeOK
  <2>7. Writers'
    BY <1>2, <1>3, <2>5, <2>6 DEF Writers, CheckSteps
  <2>8. ASSUME trouble' = "none" PROVE Agree'
    <3>1. \A q \in Requests : ~Caching(q) /\ ~Changing(q)
      BY <1>3, <2>3 DEF Caching, Changing, CheckSteps, LogoutSteps, Idle
    <3>2. cacheToken \in {0, dbToken} /\ (dbToken # 0 => issuedUnder[dbToken] = password)
      BY <1>3, <2>8, <3>1 DEF SessionInv, Agree
    <3>3. dbToken # 0 => issuedUnder'[dbToken] = password
      <4>1. CASE step = "LoginStore"
        BY <1>1, <3>2, <4>1 DEF Issue, Typed, TypeOK
      <4> QED  BY <1>1, <3>2, <4>1
    <3>4. \A q \in Requests : request'[q].at \in {"Refill", "RenameStore"} =>
             dbToken = request'[q].token
      BY <1>3, <2>8 DEF SessionInv, Agree
    <3>5. \A q \in Requests : request'[q].at # "LogoutStore"
      BY <1>3, <2>5 DEF CheckSteps
    <3> QED  BY <1>2, <3>2, <3>3, <3>4, <3>5 DEF Agree
  <2>9. Agree'  BY <2>8 DEF Agree
  <2> QED  BY <2>4, <2>7, <2>9 DEF SessionInv
<1> QED  BY <1>4, <1>5

\* As long as nothing overlaps or fails half-way, and again after the next
\* undisturbed login, the row and Redis agree on the token, and it was obtained
\* with the present password: for any number of requests and tokens.
THEOREM SessionCorrect == Spec => []SessionConsistent
<1>1. Init => SessionInv
  BY DEF Init, SessionInv, Alone, Writers, Agree, Idle
<1>2. Typed /\ SessionInv /\ [Next]_vars => SessionInv'
  <2> SUFFICES ASSUME Typed, SessionInv, [Next]_vars PROVE SessionInv'
    OBVIOUS
  <2>1. CASE Expire
    BY <2>1 DEF Expire, SessionInv, Alone, Writers, Agree, Caching, Changing, store, tokenVars
  <2>2. CASE ApiCrash
    <3>1. \A r \in Requests : request'[r] = Idle  BY <2>2 DEF ApiCrash
    <3>2. trouble \in {"none", "login", "some"}  BY DEF Typed, TypeOK
    <3>3. trouble' \in {"none", "some"}  BY <2>2, <3>2 DEF ApiCrash
    <3>4. Alone' /\ Writers'  BY <3>1, <3>3 DEF Alone, Writers, Idle
    <3>5. ASSUME trouble' = "none" PROVE Agree'
      <4>1. trouble = "none" /\ \A r \in Requests : ~HalfDone(r)  BY <2>2, <3>2, <3>5 DEF ApiCrash
      <4>2. \A r \in Requests : ~Caching(r) /\ ~Changing(r)
        BY <4>1 DEF HalfDone, Caching, Changing, LogoutSteps
      <4> QED  BY <2>2, <3>1, <4>1, <4>2 DEF ApiCrash, SessionInv, Agree, Idle, store, tokenVars
    <3> QED  BY <3>3, <3>4, <3>5 DEF SessionInv, Agree
  <2>3. CASE UNCHANGED vars
    BY <2>3 DEF SessionInv, Alone, Writers, Agree, Caching, Changing, vars, store, tokenVars
  <2> QED
    BY <2>1, <2>2, <2>3, StartInv, LoginInv, LogoutInv, RenameInv, CheckInv
       DEF Next, RequestStep
<1>3. SessionInv => SessionConsistent
  BY DEF SessionInv, Agree, SessionConsistent, Quiet, Idle, Caching, Changing, LogoutSteps
<1> QED  BY <1>1, <1>2, <1>3, TypedAlways, PTL DEF Spec
=============================================================================
