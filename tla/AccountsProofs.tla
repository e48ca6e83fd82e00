--------------------------- MODULE AccountsProofs ---------------------------
(* Accounts, sessions and links, and Google's keys beside them, for any number *)
(* of persons, addresses and requests.                                         *)
EXTENDS MCAccounts, TLAPS

(* What no step changes of the rows that are there. *)
UsersStay == \A e \in Email : user[e] # Null => user'[e] # Null

SessionsStay == \A s \in Session : session[s] # Null =>
  /\ session'[s] # Null
  /\ session'[s].person = session[s].person /\ session'[s].user = session[s].user
  /\ session'[s].proofs = session[s].proofs /\ (session'[s].live => session[s].live)

TokensStay == \A t \in Token : token[t] # Null =>
  /\ token'[t] # Null
  /\ token'[t].user = token[t].user /\ token'[t].kind = token[t].kind
  /\ token'[t].live => token[t].live

StatesStay == \A g \in State : state[g] # Null =>
  /\ state'[g] # Null
  /\ state'[g].session = state[g].session /\ state'[g].link = state[g].link
  /\ state'[g].live => state[g].live

(* An account that is new or changes has no session that is live afterwards. *)
UserAlone(e) ==
  /\ PasswordConsistent(e)'
  /\ \A s \in Session : session'[s] # Null /\ session'[s].user = e => ~session'[s].live

(* The rows, with their types. *)
LEMMA Rows ==
  ASSUME TypeOK
  PROVE  /\ \A e \in Email : user[e] # Null =>
              /\ user[e] \in UserRow /\ user[e].password \in Person \cup {Null}
              /\ user[e].verified \in BOOLEAN /\ user[e].proofs \in 0 .. MaxProofs
         /\ \A s \in Session : session[s] # Null =>
              /\ session[s] \in SessionRow /\ session[s].person \in Person
              /\ session[s].user \in Email \cup {Null} /\ session[s].live \in BOOLEAN
         /\ \A t \in Token : token[t] # Null =>
              /\ token[t] \in TokenRow /\ token[t].user \in Email /\ token[t].kind \in Kind
              /\ token[t].live \in BOOLEAN
         /\ \A g \in State : state[g] # Null =>
              /\ state[g] \in StateRow /\ state[g].session \in Session
              /\ state[g].link \in Email \cup {Null} /\ state[g].live \in BOOLEAN
         /\ \A i \in Subject : identity[i] \in Email \cup {Null}
BY DEF TypeOK, UserRow, SessionRow, TokenRow, StateRow

LEMMA Requests ==
  ASSUME TypeOK, NEW r \in Request, req[r] # Null
  PROVE  /\ req[r] \in RequestRow /\ req[r].op \in {"login", "proof", "google"}
         /\ req[r].op = "login" => req[r].session \in Session
         /\ req[r].op = "proof" => req[r].token \in Token
         /\ req[r].op = "google" => req[r].state \in State /\ req[r].user \in Email \cup {Null}
BY DEF TypeOK, RequestRow

(* What a step must show of the rows that it makes or changes. *)
LEMMA Calm ==
  ASSUME IInv, TypeOK', UsersStay, SessionsStay, TokensStay, StatesStay,
         OneGoodLink', StateIsWorthOne',
         \A e \in Email : user'[e] = user[e] \/ UserAlone(e),
         \A s \in Session : session[s] # Null \/ SessionConsistent(s)',
         \A t \in Token : token[t] = Null /\ token'[t] # Null => user'[token'[t].user] # Null,
         \A g \in State : state[g] = Null /\ state'[g] # Null => session'[state'[g].session] # Null,
         identity' = identity \/ \A i \in Subject : IdentityConsistent(i)',
         \A r \in Request : req'[r] = Null \/ req'[r] = req[r] \/ RequestConsistent(r)'
  PROVE  IInv'
<1>1. \A e \in Email : PasswordConsistent(e)'
  BY DEF IInv, PasswordConsistent, UserAlone
<1>2. ASSUME NEW s \in Session PROVE SessionConsistent(s)'
  <2>1. CASE session[s] # Null /\ session'[s].user # Null
    <3>1. /\ session'[s].user = session[s].user /\ session'[s].person = session[s].person
          /\ session'[s].proofs = session[s].proofs /\ (session'[s].live => session[s].live)
      BY <2>1 DEF SessionsStay
    <3>2. PICK e \in Email : e = session[s].user
      BY <2>1, <3>1, Rows DEF IInv
    <3>3. user[e] # Null /\ user'[e] # Null
      BY <2>1, <3>1, <3>2 DEF IInv, SessionConsistent, UsersStay
    <3>4. user'[e] = user[e] \/ ~session'[s].live
      BY <2>1, <3>1, <3>2 DEF UserAlone, SessionsStay
    <3> QED BY <2>1, <3>1, <3>2, <3>3, <3>4 DEF IInv, SessionConsistent
  <2>2. CASE session[s] # Null /\ session'[s].user = Null
    BY <2>2 DEF SessionConsistent
  <2> QED BY <2>1, <2>2
<1>3. \A t \in Token : token'[t] # Null => user'[token'[t].user] # Null
  BY Rows DEF IInv, TokensStay, UsersStay
<1>4. \A g \in State : state'[g] # Null => session'[state'[g].session] # Null
  BY Rows DEF IInv, StatesStay, SessionsStay
<1>5. \A i \in Subject : IdentityConsistent(i)'
  BY Rows DEF IInv, IdentityConsistent, UsersStay
<1>6. ASSUME NEW r \in Request, req'[r] = req[r], req[r] # Null PROVE RequestConsistent(r)'
  <2>1. req[r].op = "login" => session'[req[r].session] # Null
    BY <1>6, Requests DEF IInv, RequestConsistent, SessionsStay
  <2>2. req[r].op = "proof" => token'[req[r].token] # Null
    BY <1>6, Requests DEF IInv, RequestConsistent, TokensStay
  <2>3. ASSUME req[r].op = "google"
        PROVE  /\ state'[req[r].state] # Null /\ ~state'[req[r].state].live
               /\ req[r].user # Null =>
                    user'[req[r].user] # Null /\ session'[state'[req[r].state].session].person = Holder[req[r].user]
    <3>1. PICK g \in State : g = req[r].state /\ state[g] # Null /\ ~state[g].live
      BY <1>6, <2>3, Requests DEF IInv, RequestConsistent
    <3>2. state'[g] # Null /\ ~state'[g].live /\ state'[g].session = state[g].session
      BY <3>1, Rows DEF StatesStay, IInv
    <3>3. PICK s \in Session : s = state[g].session /\ session[s] # Null /\ session'[s].person = session[s].person
      BY <3>1, Rows DEF IInv, SessionsStay
    <3>4. req[r].user # Null =>
            req[r].user \in Email /\ user[req[r].user] # Null /\ session[s].person = Holder[req[r].user]
      BY <1>6, <2>3, <3>1, <3>3, Requests DEF IInv, RequestConsistent, SessionOf
    <3> QED BY <3>1, <3>2, <3>3, <3>4 DEF UsersStay
  <2> QED BY <1>6, <2>1, <2>2, <2>3 DEF RequestConsistent, SessionOf
<1>7. \A r \in Request : RequestConsistent(r)'
  BY <1>6 DEF RequestConsistent
<1> QED BY <1>1, <1>2, <1>3, <1>4, <1>5, <1>7 DEF IInv

LEMMA InitIInv == Init => IInv
<1> SUFFICES ASSUME Init PROVE IInv
  OBVIOUS
<1>1. TypeOK
  BY DEF Init, TypeOK
<1> QED BY <1>1 DEF Init, IInv, OneGoodLink, StateIsWorthOne, PasswordConsistent, SessionConsistent,
                    IdentityConsistent, RequestConsistent, LiveToken

(* A link is sent: it is the only good one of its kind. *)
LEMMA Sent ==
  ASSUME IInv, NEW t \in Token, NEW e \in Email, NEW kind \in Kind, SendLink(t, e, kind)
  PROVE  /\ token' \in [Token -> TokenRow \cup {Null}] /\ TokensStay /\ OneGoodLink'
         /\ \A x \in Token : token[x] = Null /\ token'[x] # Null => token'[x].user = e
<1> DEFINE Superseded(x) == LiveToken(x) /\ token[x].user = e /\ token[x].kind = kind
<1>1. /\ token[t] = Null
      /\ token'[t] = [user |-> e, kind |-> kind, live |-> TRUE]
      /\ \A x \in Token : x # t => token'[x] = IF Superseded(x) THEN [token[x] EXCEPT !.live = FALSE] ELSE token[x]
  BY DEF SendLink
<1>2. token'[t] \in TokenRow /\ token'[t].user = e /\ token'[t].kind = kind /\ token'[t].live /\ token'[t] # Null
  <2>1. token'[t] \in TokenRow
    BY <1>1 DEF TokenRow
  <2>2. token'[t] # Null
    BY <2>1, RowAssumption
  <2> QED BY <1>1, <2>1, <2>2
<1>3. ASSUME NEW x \in Token, x # t, token[x] # Null
      PROVE  /\ token'[x] \in TokenRow /\ token'[x] # Null
             /\ token'[x].user = token[x].user /\ token'[x].kind = token[x].kind
             /\ token'[x].live => token[x].live /\ ~Superseded(x)
  <2>1. token[x] \in TokenRow
    BY <1>3, Rows DEF IInv
  <2>2. CASE Superseded(x)
    <3>1. token'[x] = [token[x] EXCEPT !.live = FALSE]
      BY <1>1, <1>3, <2>2
    <3>2. /\ token'[x] \in TokenRow
          /\ token'[x].user = token[x].user /\ token'[x].kind = token[x].kind /\ token'[x].live = FALSE
      BY <2>1, <3>1 DEF TokenRow
    <3> QED BY <3>2, RowAssumption
  <2>3. CASE ~Superseded(x)
    BY <1>1, <1>3, <2>1, <2>3
  <2> QED BY <2>2, <2>3
<1>4. \A x \in Token : x # t /\ token[x] = Null => token'[x] = Null
  BY <1>1 DEF LiveToken
<1>5. token' \in [Token -> TokenRow \cup {Null}]
  <2>1. token' = [x \in Token |-> token'[x]]
    BY DEF SendLink
  <2>2. \A x \in Token : token'[x] \in TokenRow \cup {Null}
    BY <1>2, <1>3, <1>4
  <2> QED BY <2>1, <2>2
<1>6. TokensStay
  BY <1>1, <1>3 DEF TokensStay
<1>7. OneGoodLink'
  <2> SUFFICES ASSUME NEW x \in Token, NEW u \in Token, token'[x] # Null, token'[x].live, token'[u] # Null, token'[u].live,
                      token'[x].user = token'[u].user, token'[x].kind = token'[u].kind
               PROVE  x = u
    BY DEF OneGoodLink, LiveToken
  <2>1. CASE x = t \/ u = t
    BY <1>2, <1>3, <1>4, <2>1 DEF LiveToken
  <2>2. CASE x # t /\ u # t
    <3>1. LiveToken(x) /\ LiveToken(u) /\ token[x].user = token[u].user /\ token[x].kind = token[u].kind
      BY <1>3, <1>4, <2>2 DEF LiveToken
    <3> QED BY <3>1 DEF IInv, OneGoodLink
  <2> QED BY <2>1, <2>2
<1> QED BY <1>2, <1>4, <1>5, <1>6, <1>7

(* A session is replaced: the new one is consistent with its account. *)
LEMMA Rotated ==
  ASSUME IInv, NEW old \in Session, session[old] # Null, NEW new \in Session, NEW e \in Email,
         user[e] # Null, user[e].verified => session[old].person = Holder[e],
         Rotate(old, new, e), user' = user
  PROVE  /\ session' \in [Session -> SessionRow \cup {Null}] /\ SessionsStay
         /\ \A s \in Session : session[s] # Null \/ SessionConsistent(s)'
<1>1. new # old /\ session[new] = Null
  BY DEF Rotate
<1>2. /\ session' = [session EXCEPT ![old].live = FALSE,
                       ![new] = [person |-> session[old].person, user |-> e, live |-> TRUE, proofs |-> user[e].proofs]]
      /\ session \in [Session -> SessionRow \cup {Null}]
  BY DEF Rotate, IInv, TypeOK
<1>3. /\ session'[old] = [session[old] EXCEPT !.live = FALSE]
      /\ session'[new] = [person |-> session[old].person, user |-> e, live |-> TRUE, proofs |-> user[e].proofs]
      /\ \A s \in Session : s # old /\ s # new => session'[s] = session[s]
  BY <1>1, <1>2
<1>4. /\ session[old] \in SessionRow /\ session[old].person \in Person
      /\ user[e].proofs \in 0 .. MaxProofs
  BY Rows DEF IInv
<1>5. /\ session'[old] \in SessionRow /\ session'[old] # Null
      /\ session'[old].person = session[old].person /\ session'[old].user = session[old].user
      /\ session'[old].proofs = session[old].proofs /\ session'[old].live = FALSE
  <2>1. /\ session'[old] \in SessionRow
        /\ session'[old].person = session[old].person /\ session'[old].user = session[old].user
        /\ session'[old].proofs = session[old].proofs /\ session'[old].live = FALSE
    BY <1>3, <1>4 DEF SessionRow
  <2> QED BY <2>1, RowAssumption
<1>6. /\ session'[new] \in SessionRow /\ session'[new] # Null
      /\ session'[new].person = session[old].person /\ session'[new].user = e
      /\ session'[new].proofs = user[e].proofs
  <2>1. session'[new] \in SessionRow
    BY <1>3, <1>4 DEF SessionRow
  <2>2. session'[new] # Null
    BY <2>1, RowAssumption
  <2> QED BY <1>3, <2>1, <2>2
<1>7. session' \in [Session -> SessionRow \cup {Null}]
  BY <1>2, <1>5, <1>6
<1>8. SessionsStay
  BY <1>1, <1>3, <1>5 DEF SessionsStay
<1>9. SessionConsistent(new)'
  BY <1>6 DEF SessionConsistent
<1>10. \A s \in Session : session[s] = Null /\ s # new => SessionConsistent(s)'
  BY <1>3 DEF SessionConsistent
<1> QED BY <1>7, <1>8, <1>9, <1>10

(* A step that leaves all the rows but the requests. *)
LEMMA RequestsOnly ==
  ASSUME IInv, UNCHANGED <<user, session, token, state, identity>>, NEW r \in Request,
         req' \in [Request -> RequestRow \cup {Null}],
         \A x \in Request : x # r => req'[x] = req[x],
         req'[r] = Null \/ RequestConsistent(r)',
         req'[r] # Null /\ req'[r].op = "google" =>
           req[r] # Null /\ req[r].op = "google" /\ req'[r].state = req[r].state
  PROVE  IInv'
<1>1. TypeOK' /\ OneGoodLink'
  BY DEF IInv, TypeOK, OneGoodLink, LiveToken
<1>2. StateIsWorthOne'
  BY DEF IInv, StateIsWorthOne
<1>3. UsersStay /\ SessionsStay /\ TokensStay /\ StatesStay
  BY DEF UsersStay, SessionsStay, TokensStay, StatesStay
<1>4. \A s \in Session : session[s] # Null \/ SessionConsistent(s)'
  BY DEF SessionConsistent
<1> QED BY <1>1, <1>2, <1>3, <1>4, Calm

(* A browser comes, or its session ends. *)
LEMMA BrowseIInv ==
  ASSUME IInv, NEW s \in Session, Leave(s) \/ \E p \in Person : Visit(s, p)
  PROVE  IInv'
<1>0. /\ session \in [Session -> SessionRow \cup {Null}] /\ session' \in [Session -> SessionRow \cup {Null}]
      /\ \A x \in Session : x # s => session'[x] = session[x]
      /\ UNCHANGED <<user, token, state, identity, req>>
  <2>1. session \in [Session -> SessionRow \cup {Null}]
    BY DEF IInv, TypeOK
  <2>2. CASE Leave(s)
    <3>1. session[s] \in SessionRow
      BY <2>2, Rows DEF Leave, Live, IInv
    <3>2. [session[s] EXCEPT !.live = FALSE] \in SessionRow
      BY <3>1 DEF SessionRow
    <3> QED BY <2>1, <2>2, <3>2 DEF Leave
  <2>3. ASSUME NEW p \in Person, Visit(s, p)
        PROVE  /\ session' \in [Session -> SessionRow \cup {Null}]
               /\ \A x \in Session : x # s => session'[x] = session[x]
               /\ UNCHANGED <<user, token, state, identity, req>>
    <3>1. [person |-> p, user |-> Null, live |-> TRUE, proofs |-> 0] \in SessionRow
      BY ProofsAssumption DEF SessionRow
    <3> QED BY <2>1, <2>3, <3>1 DEF Visit
  <2> QED BY <2>1, <2>2, <2>3
<1>1. session[s] # Null => /\ session'[s] # Null
                           /\ session'[s].person = session[s].person /\ session'[s].user = session[s].user
                           /\ session'[s].proofs = session[s].proofs /\ (session'[s].live => session[s].live)
  <2> SUFFICES ASSUME session[s] # Null, Leave(s)
               PROVE  /\ session'[s] # Null
                      /\ session'[s].person = session[s].person /\ session'[s].user = session[s].user
                      /\ session'[s].proofs = session[s].proofs /\ ~session'[s].live
    BY DEF Visit
  <2>1. session'[s] = [session[s] EXCEPT !.live = FALSE] /\ session[s] \in SessionRow
    BY <1>0, Rows DEF Leave, Live, IInv
  <2>2. /\ session'[s] \in SessionRow
        /\ session'[s].person = session[s].person /\ session'[s].user = session[s].user
        /\ session'[s].proofs = session[s].proofs /\ ~session'[s].live
    BY <2>1 DEF SessionRow
  <2> QED BY <2>2, RowAssumption
<1>2. SessionsStay
  BY <1>0, <1>1 DEF SessionsStay
<1>3. session[s] = Null => SessionConsistent(s)'
  <2> SUFFICES ASSUME NEW p \in Person, Visit(s, p) PROVE SessionConsistent(s)'
    BY DEF Leave, Live
  <2>1. session'[s] = [person |-> p, user |-> Null, live |-> TRUE, proofs |-> 0]
    BY <1>0 DEF Visit, IInv, TypeOK
  <2> QED BY <2>1 DEF SessionConsistent
<1>4. TypeOK' /\ OneGoodLink' /\ StateIsWorthOne'
  BY <1>0 DEF IInv, TypeOK, OneGoodLink, StateIsWorthOne, LiveToken
<1>5. UsersStay /\ TokensStay /\ StatesStay
  BY <1>0 DEF UsersStay, TokensStay, StatesStay
<1>6. \A x \in Session : session[x] # Null \/ SessionConsistent(x)'
  BY <1>0, <1>3 DEF SessionConsistent
<1> QED BY <1>0, <1>2, <1>4, <1>5, <1>6, Calm

(* An authorization state is made, or expires. *)
LEMMA StatesIInv ==
  ASSUME IInv, NEW g \in State,
         \/ ExpireState(g)
         \/ \E s \in Session, link \in Email \cup {Null} : BeginGoogle(g, s, link)
  PROVE  IInv'
<1>0. UNCHANGED <<user, session, token, identity, req>> /\ \A x \in State : x # g => state'[x] = state[x]
  BY DEF ExpireState, BeginGoogle, IInv, TypeOK
<1>1. ASSUME ExpireState(g)
      PROVE  state' \in [State -> StateRow \cup {Null}] /\ StatesStay
             /\ \A x \in State : state[x] = Null /\ state'[x] # Null => session'[state'[x].session] # Null
  <2>1. state[g] \in StateRow /\ state'[g] = [state[g] EXCEPT !.live = FALSE]
    BY <1>1, Rows DEF ExpireState, IInv, TypeOK
  <2>2. /\ state'[g] \in StateRow /\ state'[g].session = state[g].session
        /\ state'[g].link = state[g].link /\ ~state'[g].live
    BY <2>1 DEF StateRow
  <2>3. state'[g] # Null
    BY <2>2, RowAssumption
  <2>4. state' \in [State -> StateRow \cup {Null}]
    BY <1>1, <2>1, <2>2 DEF ExpireState, IInv, TypeOK
  <2>5. StatesStay
    BY <1>0, <2>2, <2>3 DEF StatesStay
  <2>6. \A x \in State : state[x] = Null => state'[x] = Null
    BY <1>0, <1>1 DEF ExpireState
  <2> QED BY <2>4, <2>5, <2>6
<1>2. ASSUME NEW s \in Session, NEW link \in Email \cup {Null}, BeginGoogle(g, s, link)
      PROVE  state' \in [State -> StateRow \cup {Null}] /\ StatesStay
             /\ \A x \in State : state[x] = Null /\ state'[x] # Null => session'[state'[x].session] # Null
  <2>1. state'[g] = [session |-> s, link |-> link, live |-> TRUE] /\ state[g] = Null
    BY <1>2 DEF BeginGoogle, IInv, TypeOK
  <2>2. state'[g] \in StateRow
    BY <2>1 DEF StateRow
  <2>3. state' \in [State -> StateRow \cup {Null}]
    BY <1>2, <2>1, <2>2 DEF BeginGoogle, IInv, TypeOK
  <2>4. StatesStay
    BY <1>0, <2>1 DEF StatesStay
  <2>5. session'[state'[g].session] # Null
    BY <1>0, <1>2, <2>1 DEF BeginGoogle, Live
  <2> QED BY <1>0, <2>3, <2>4, <2>5
<1>3. UsersStay /\ SessionsStay /\ TokensStay
  BY <1>0 DEF UsersStay, SessionsStay, TokensStay
<1>4. \A s \in Session : session[s] # Null \/ SessionConsistent(s)'
  BY <1>0 DEF SessionConsistent
<1>5. OneGoodLink' /\ StateIsWorthOne'
  BY <1>0 DEF IInv, OneGoodLink, StateIsWorthOne, LiveToken
<1> QED BY <1>0, <1>1, <1>2, <1>3, <1>4, <1>5, Calm DEF IInv, TypeOK

(* A link is sent, to an account that is there or to a new one, or expires. *)
LEMMA MailIInv ==
  ASSUME IInv, NEW t \in Token,
         \/ ExpireToken(t)
         \/ \E e \in Email, s \in Session : Register(s, e, t)
         \/ \E e \in Email, kind \in Kind : RequestLink(e, kind, t)
  PROVE  IInv'
<1>0. UNCHANGED <<session, state, identity, req>>
  BY DEF ExpireToken, Register, RequestLink
<1>1. SessionsStay /\ StatesStay /\ StateIsWorthOne'
  BY <1>0 DEF SessionsStay, StatesStay, IInv, StateIsWorthOne
<1>2. ASSUME user' = user, token' \in [Token -> TokenRow \cup {Null}], TokensStay, OneGoodLink',
             NEW e \in Email, user[e] # Null,
             \A x \in Token : token[x] = Null /\ token'[x] # Null => token'[x].user = e
      PROVE  IInv'
  <2>1. TypeOK' /\ UsersStay
    BY <1>0, <1>2 DEF IInv, TypeOK, UsersStay
  <2>2. \A s \in Session : session[s] # Null \/ SessionConsistent(s)'
    BY <1>0 DEF SessionConsistent
  <2> QED BY <1>0, <1>1, <1>2, <2>1, <2>2, Calm
<1>3. CASE ExpireToken(t)
  <2>1. /\ token[t] \in TokenRow /\ token'[t] = [token[t] EXCEPT !.live = FALSE] /\ token[t] # Null
        /\ token[t].user \in Email /\ user[token[t].user] # Null /\ user' = user
    BY <1>3, Rows DEF ExpireToken, LiveToken, IInv, TypeOK
  <2>2. /\ token'[t] \in TokenRow /\ token'[t].user = token[t].user
        /\ token'[t].kind = token[t].kind /\ ~token'[t].live
    BY <2>1 DEF TokenRow
  <2>3. token'[t] # Null
    BY <2>2, RowAssumption
  <2>4. token' \in [Token -> TokenRow \cup {Null}] /\ \A x \in Token : x # t => token'[x] = token[x]
    BY <1>3, <2>1, <2>2 DEF ExpireToken, IInv, TypeOK
  <2>5. TokensStay /\ OneGoodLink'
    BY <2>2, <2>3, <2>4 DEF TokensStay, IInv, OneGoodLink, LiveToken
  <2>6. \A x \in Token : token[x] = Null => token'[x] = Null
    BY <2>1, <2>4
  <2> QED BY <1>2, <2>1, <2>4, <2>5, <2>6
<1>4. ASSUME NEW e \in Email, NEW kind \in Kind, RequestLink(e, kind, t) PROVE IInv'
  BY <1>2, <1>4, Sent DEF RequestLink
<1>5. ASSUME NEW e \in Email, NEW s \in Session, Register(s, e, t) PROVE IInv'
  <2>1. /\ token' \in [Token -> TokenRow \cup {Null}] /\ TokensStay /\ OneGoodLink'
        /\ \A x \in Token : token[x] = Null /\ token'[x] # Null => token'[x].user = e
    BY <1>5, Sent DEF Register, Kind
  <2>2. CASE user[e] # Null
    BY <1>2, <1>5, <2>1, <2>2 DEF Register
  <2>3. CASE user[e] = Null
    <3>1. /\ user' = [user EXCEPT ![e] = [password |-> session[s].person, verified |-> FALSE, proofs |-> 0]]
          /\ user \in [Email -> UserRow \cup {Null}]
      BY <1>5, <2>3 DEF Register, IInv, TypeOK
    <3>2. /\ user'[e] = [password |-> session[s].person, verified |-> FALSE, proofs |-> 0]
          /\ \A x \in Email : x # e => user'[x] = user[x]
      BY <3>1
    <3>3. user'[e] \in UserRow
      <4>1. session[s].person \in Person
        BY <1>5, Rows DEF Register, Live, IInv
      <4> QED BY <3>2, <4>1, ProofsAssumption DEF UserRow
    <3>4. user'[e] # Null /\ ~user'[e].verified
      <4>1. user'[e] # Null
        BY <3>3, RowAssumption
      <4> QED BY <3>2, <4>1
    <3>5. TypeOK' /\ UsersStay
      BY <1>0, <2>1, <3>1, <3>2, <3>3, <3>4 DEF IInv, TypeOK, UsersStay
    <3>6. \A x \in Session : session[x] # Null => session[x].user # e
      BY <2>3, NullAssumption DEF IInv, SessionConsistent
    <3>7. UserAlone(e)
      BY <1>0, <3>4, <3>6 DEF UserAlone, PasswordConsistent
    <3>8. \A x \in Session : session[x] # Null \/ SessionConsistent(x)'
      BY <1>0 DEF SessionConsistent
    <3> QED BY <1>0, <1>1, <2>1, <3>2, <3>4, <3>5, <3>7, <3>8, Calm
  <2> QED BY <2>2, <2>3
<1> QED BY <1>3, <1>4, <1>5
(* A request starts, or is lost. *)
LEMMA StartIInv ==
  ASSUME IInv, NEW r \in Request,
         \/ Fail(r)
         \/ \E s \in Session : StartLogin(r, s)
         \/ \E t \in Token : StartProof(r, t)
  PROVE  IInv'
<1>0. UNCHANGED <<user, session, token, state, identity>> /\ req \in [Request -> RequestRow \cup {Null}]
  BY DEF Fail, StartLogin, StartProof, IInv, TypeOK
<1>1. CASE Fail(r)
  BY <1>0, <1>1, RequestsOnly DEF Fail
<1>2. ASSUME NEW s \in Session, StartLogin(r, s) PROVE IInv'
  <2>1. req'[r] = [op |-> "login", session |-> s] /\ session[s] # Null
    BY <1>0, <1>2 DEF StartLogin, Live
  <2>2. req'[r] \in RequestRow
    BY <2>1 DEF RequestRow
  <2>3. req' \in [Request -> RequestRow \cup {Null}] /\ \A x \in Request : x # r => req'[x] = req[x]
    BY <1>0, <1>2, <2>1, <2>2 DEF StartLogin
  <2>4. RequestConsistent(r)' /\ req'[r].op # "google"
    BY <1>0, <2>1 DEF RequestConsistent
  <2> QED BY <1>0, <2>3, <2>4, RequestsOnly
<1>3. ASSUME NEW t \in Token, StartProof(r, t) PROVE IInv'
  <2>1. req'[r] = [op |-> "proof", token |-> t] /\ token[t] # Null
    BY <1>0, <1>3 DEF StartProof, LiveToken
  <2>2. req'[r] \in RequestRow
    BY <2>1 DEF RequestRow
  <2>3. req' \in [Request -> RequestRow \cup {Null}] /\ \A x \in Request : x # r => req'[x] = req[x]
    BY <1>0, <1>3, <2>1, <2>2 DEF StartProof
  <2>4. RequestConsistent(r)' /\ req'[r].op # "google"
    BY <1>0, <2>1 DEF RequestConsistent
  <2> QED BY <1>0, <2>3, <2>4, RequestsOnly
<1> QED BY <1>1, <1>2, <1>3

(* A state is used up: it was live, so that no other request acts on it. *)
LEMMA ConsumeIInv ==
  ASSUME IInv, NEW r \in Request, NEW g \in State, Consume(r, g)
  PROVE  IInv'
<1>0. /\ UNCHANGED <<user, session, token, identity>> /\ req[r] = Null
      /\ req \in [Request -> RequestRow \cup {Null}] /\ state \in [State -> StateRow \cup {Null}]
      /\ state[g] # Null /\ state[g].live /\ state[g] \in StateRow
      /\ state' = [state EXCEPT ![g].live = FALSE]
      /\ req' = [req EXCEPT ![r] = [op |-> "google", state |-> g, user |-> Null]]
  BY Rows DEF Consume, IInv, TypeOK
<1>1. /\ state'[g] = [state[g] EXCEPT !.live = FALSE]
      /\ \A x \in State : x # g => state'[x] = state[x]
  BY <1>0
<1>2. /\ state'[g] \in StateRow /\ state'[g].session = state[g].session
      /\ state'[g].link = state[g].link /\ ~state'[g].live
  BY <1>0, <1>1 DEF StateRow
<1>3. state'[g] # Null
  BY <1>2, RowAssumption
<1>4. /\ req'[r] = [op |-> "google", state |-> g, user |-> Null]
      /\ \A x \in Request : x # r => req'[x] = req[x]
  BY <1>0
<1>5. req'[r] \in RequestRow
  BY <1>4 DEF RequestRow
<1>6. TypeOK'
  <2>1. state' \in [State -> StateRow \cup {Null}]
    BY <1>0, <1>1, <1>2
  <2>2. req' \in [Request -> RequestRow \cup {Null}]
    BY <1>0, <1>4, <1>5
  <2> QED BY <1>0, <2>1, <2>2 DEF IInv, TypeOK
<1>7. UsersStay /\ SessionsStay /\ TokensStay /\ StatesStay
  BY <1>0, <1>1, <1>2, <1>3 DEF UsersStay, SessionsStay, TokensStay, StatesStay
<1>8. ASSUME NEW x \in Request, req[x] # Null, req[x].op = "google" PROVE req[x].state # g
  BY <1>0, <1>8 DEF IInv, RequestConsistent
<1>9. StateIsWorthOne'
  BY <1>4, <1>8 DEF IInv, StateIsWorthOne
<1>10. OneGoodLink' /\ \A s \in Session : session[s] # Null \/ SessionConsistent(s)'
  BY <1>0 DEF IInv, OneGoodLink, LiveToken, SessionConsistent
<1>11. RequestConsistent(r)'
  BY <1>2, <1>3, <1>4 DEF RequestConsistent
<1>12. \A x \in State : state[x] = Null => state'[x] = Null
  BY <1>0, <1>1
<1> QED BY <1>0, <1>4, <1>6, <1>7, <1>9, <1>10, <1>11, <1>12, Calm

(* A request ends with a new session of an account that may have it. *)
LEMMA SignedIn ==
  ASSUME IInv, NEW r \in Request, NEW old \in Session, session[old] # Null, NEW new \in Session,
         NEW e \in Email, user[e] # Null, user[e].verified => session[old].person = Holder[e],
         Rotate(old, new, e), req' = [req EXCEPT ![r] = Null], UNCHANGED <<user, token, state>>,
         identity' \in [Subject -> Email \cup {Null}],
         identity' = identity \/ \A i \in Subject : IdentityConsistent(i)'
  PROVE  IInv'
<1>1. /\ session' \in [Session -> SessionRow \cup {Null}] /\ SessionsStay
      /\ \A s \in Session : session[s] # Null \/ SessionConsistent(s)'
  BY Rotated
<1>2. /\ req' \in [Request -> RequestRow \cup {Null}] /\ req'[r] = Null
      /\ \A x \in Request : x # r => req'[x] = req[x]
  BY DEF IInv, TypeOK
<1>3. TypeOK'
  BY <1>1, <1>2 DEF IInv, TypeOK
<1>4. UsersStay /\ TokensStay /\ StatesStay
  BY DEF UsersStay, TokensStay, StatesStay
<1>5. OneGoodLink' /\ StateIsWorthOne'
  BY <1>2 DEF IInv, OneGoodLink, StateIsWorthOne, LiveToken
<1> QED BY <1>1, <1>2, <1>3, <1>4, <1>5, Calm

(* Whoever logs in knows the password, which is the holder's once the address is verified. *)
LEMMA LoginIInv ==
  ASSUME IInv, NEW r \in Request, NEW e \in Email, NEW new \in Session, Login(r, e, new)
  PROVE  IInv'
<1>1. PICK old \in Session : old = req[r].session /\ session[old] # Null
  BY Requests DEF Login, IInv, RequestConsistent
<1>2. session[old].person \in Person
  BY <1>1, Rows DEF IInv
<1>3. user[e].verified => session[old].person = Holder[e]
  BY <1>1, <1>2, NullAssumption DEF Login, IInv, PasswordConsistent
<1>4. identity' \in [Subject -> Email \cup {Null}]
  BY DEF Login, IInv, TypeOK
<1> QED BY <1>1, <1>3, <1>4, SignedIn DEF Login

(* The browser of a sign-in through Google. *)
LEMMA Browser ==
  ASSUME IInv, NEW r \in Request, req[r] # Null, req[r].op = "google"
  PROVE  /\ SessionOf(r) \in Session /\ session[SessionOf(r)] # Null
         /\ LinkOf(r) \in Email \cup {Null}
BY Requests, Rows DEF IInv, RequestConsistent, SessionOf, LinkOf

LEMMA CompleteIInv ==
  ASSUME IInv, NEW r \in Request, NEW new \in Session, Complete(r, new)
  PROVE  IInv'
<1>1. PICK e \in Email : e = req[r].user
  BY Requests DEF Complete, IInv
<1>2. user[e] # Null /\ session[SessionOf(r)].person = Holder[e]
  BY <1>1 DEF Complete, IInv, RequestConsistent
<1>3. SessionOf(r) \in Session /\ session[SessionOf(r)] # Null
  BY Browser DEF Complete
<1>4. identity' \in [Subject -> Email \cup {Null}]
  BY DEF Complete, IInv, TypeOK
<1> QED BY <1>1, <1>2, <1>3, <1>4, SignedIn DEF Complete

LEMMA LinkIInv ==
  ASSUME IInv, NEW r \in Request, NEW i \in Subject, NEW new \in Session, Link(r, i, new)
  PROVE  IInv'
<1>1. PICK e \in Email : e = LinkOf(r) /\ e # Null
  BY Browser DEF Link
<1>2. SessionOf(r) \in Session /\ session[SessionOf(r)] # Null
  BY Browser DEF Link
<1>3. user[e] # Null /\ session[SessionOf(r)].person = Holder[e]
  BY <1>1, <1>2 DEF Link, Held, Live, IInv, SessionConsistent
<1>4. Account[i] = Holder[e] /\ identity' = [identity EXCEPT ![i] = e] /\ MayLink(i, e) /\ UNCHANGED user
  BY <1>1, <1>3 DEF Link, Vouched
<1>5. identity' \in [Subject -> Email \cup {Null}]
  BY <1>4 DEF IInv, TypeOK
<1>6. \A j \in Subject : IdentityConsistent(j)'
  <2>1. /\ identity'[i] = e /\ \A j \in Subject : j # i => identity'[j] = identity[j]
        /\ \A j \in Subject : identity[j] = e => j = i
    BY <1>4 DEF IInv, TypeOK, MayLink
  <2> QED BY <1>3, <1>4, <2>1 DEF IInv, IdentityConsistent
<1> QED BY <1>1, <1>2, <1>3, <1>5, <1>6, SignedIn DEF Link
(* Whoever reads the mailbox sets the password: every session and link of the account *)
(* is ended with it.                                                                   *)
LEMMA ProveIInv ==
  ASSUME IInv, NEW r \in Request, Prove(r)
  PROVE  IInv'
<1>1. PICK t \in Token : t = req[r].token
  BY Requests DEF Prove, IInv
<1>2. PICK e \in Email : e = token[t].user /\ token[t].kind \in Kind /\ user[e] # Null
  BY <1>1, Rows DEF Prove, Good, LiveToken, IInv
<1>3. /\ user' = [user EXCEPT ![e] = [password |-> ChosenBy(e), proofs |-> user[e].proofs + 1,
                                      verified |-> user[e].verified \/ token[t].kind = "verify"]]
      /\ user[e].proofs < MaxProofs /\ RevokeCredentials(e)
      /\ req' = [req EXCEPT ![r] = Null] /\ UNCHANGED <<state, identity>>
  BY <1>1, <1>2 DEF Prove
<1>4. /\ user'[e] = [password |-> Holder[e], proofs |-> user[e].proofs + 1,
                     verified |-> user[e].verified \/ token[t].kind = "verify"]
      /\ \A x \in Email : x # e => user'[x] = user[x]
  BY <1>3 DEF ChosenBy, IInv, TypeOK
<1>5. user'[e] \in UserRow
  <2>1. user[e].proofs + 1 \in 0 .. MaxProofs
    BY <1>2, <1>3, ProofsAssumption, Rows DEF IInv
  <2>2. (user[e].verified \/ token[t].kind = "verify") \in BOOLEAN
    OBVIOUS
  <2>3. Holder[e] \in Person
    BY HolderAssumption
  <2> QED BY <1>4, <2>1, <2>2, <2>3 DEF UserRow
<1>6. user'[e] # Null
  BY <1>5, RowAssumption
<1>7. ASSUME NEW s \in Session
      PROVE  /\ session[s] = Null => session'[s] = Null
             /\ session[s] # Null =>
                  /\ session'[s] \in SessionRow
                  /\ session'[s].person = session[s].person /\ session'[s].user = session[s].user
                  /\ session'[s].proofs = session[s].proofs /\ (session'[s].live => session[s].live)
                  /\ session'[s].user = e => ~session'[s].live
  <2>1. session'[s] = IF Live(s) /\ session[s].user = e THEN [session[s] EXCEPT !.live = FALSE] ELSE session[s]
    BY <1>3 DEF RevokeCredentials
  <2>2. session[s] # Null => session[s] \in SessionRow
    BY Rows DEF IInv
  <2> QED BY <2>1, <2>2 DEF Live, SessionRow
<1>8. ASSUME NEW x \in Token
      PROVE  /\ token[x] = Null => token'[x] = Null
             /\ token[x] # Null =>
                  /\ token'[x] \in TokenRow
                  /\ token'[x].user = token[x].user /\ token'[x].kind = token[x].kind
                  /\ token'[x].live => token[x].live
  <2>1. token'[x] = IF LiveToken(x) /\ token[x].user = e THEN [token[x] EXCEPT !.live = FALSE] ELSE token[x]
    BY <1>3 DEF RevokeCredentials
  <2>2. token[x] # Null => token[x] \in TokenRow
    BY Rows DEF IInv
  <2> QED BY <2>1, <2>2 DEF LiveToken, TokenRow
<1>9. session' \in [Session -> SessionRow \cup {Null}]
  <2>1. session' = [s \in Session |-> session'[s]]
    BY <1>3 DEF RevokeCredentials
  <2>2. \A s \in Session : session'[s] \in SessionRow \cup {Null}
    BY <1>7
  <2> QED BY <2>1, <2>2
<1>10. token' \in [Token -> TokenRow \cup {Null}]
  <2>1. token' = [x \in Token |-> token'[x]]
    BY <1>3 DEF RevokeCredentials
  <2>2. \A x \in Token : token'[x] \in TokenRow \cup {Null}
    BY <1>8
  <2> QED BY <2>1, <2>2
<1>11. req' \in [Request -> RequestRow \cup {Null}] /\ \A x \in Request : req'[x] = Null \/ req'[x] = req[x]
  BY <1>3 DEF IInv, TypeOK
<1>12. TypeOK'
  BY <1>3, <1>5, <1>9, <1>10, <1>11 DEF IInv, TypeOK
<1>13. UsersStay /\ SessionsStay /\ TokensStay /\ StatesStay
  <2>1. \A s \in Session : session[s] # Null => session'[s] # Null
    BY <1>7, RowAssumption
  <2>2. \A x \in Token : token[x] # Null => token'[x] # Null
    BY <1>8, RowAssumption
  <2> QED BY <1>3, <1>4, <1>6, <1>7, <1>8, <2>1, <2>2 DEF UsersStay, SessionsStay, TokensStay, StatesStay
<1>14. OneGoodLink' /\ StateIsWorthOne'
  <2>1. OneGoodLink'
    BY <1>8 DEF IInv, OneGoodLink, LiveToken
  <2>2. StateIsWorthOne'
    BY <1>11 DEF IInv, StateIsWorthOne
  <2> QED BY <2>1, <2>2
<1>15. UserAlone(e)
  <2>1. PasswordConsistent(e)'
    BY <1>4 DEF PasswordConsistent
  <2> QED BY <1>7, <2>1 DEF UserAlone
<1>16. \A s \in Session : session[s] # Null \/ SessionConsistent(s)'
  BY <1>7 DEF SessionConsistent
<1>17. \A x \in Token : token[x] = Null => token'[x] = Null
  BY <1>8
<1> QED BY <1>3, <1>4, <1>11, <1>12, <1>13, <1>14, <1>15, <1>16, <1>17, Calm

(* A sign-in finds the account of the subject, or makes one for a free address. *)
LEMMA ResolveIInv ==
  ASSUME IInv, NEW r \in Request, NEW i \in Subject, NEW e \in Email, Resolve(r, i, e)
  PROVE  IInv'
<1>0. /\ req[r] # Null /\ req[r].op = "google" /\ req[r] \in RequestRow
      /\ UNCHANGED <<session, token, state>> /\ req \in [Request -> RequestRow \cup {Null}]
      /\ Account[i] = session[SessionOf(r)].person /\ Holder[e] = Account[i]
      /\ req[r].state \in State
  BY Requests DEF Resolve, Vouched, IInv, TypeOK
<1>1. ASSUME NEW x \in Email, req' = [req EXCEPT ![r].user = x], user'[x] # Null,
             session[SessionOf(r)].person = Holder[x]
      PROVE  /\ req' \in [Request -> RequestRow \cup {Null}] /\ RequestConsistent(r)'
             /\ \A y \in Request : y # r => req'[y] = req[y]
             /\ req'[r].op = "google" /\ req'[r].state = req[r].state
  <2>1. req'[r] = [req[r] EXCEPT !.user = x] /\ \A y \in Request : y # r => req'[y] = req[y]
    BY <1>0, <1>1
  <2>2. req'[r] \in RequestRow /\ req'[r].op = "google" /\ req'[r].state = req[r].state /\ req'[r].user = x
    BY <1>0, <2>1 DEF RequestRow
  <2>3. req' \in [Request -> RequestRow \cup {Null}]
    BY <1>0, <1>1, <2>1, <2>2
  <2>4. state[req[r].state] # Null /\ ~state[req[r].state].live
    BY <1>0 DEF IInv, RequestConsistent
  <2>5. RequestConsistent(r)'
    BY <1>0, <1>1, <2>2, <2>4 DEF RequestConsistent, SessionOf
  <2> QED BY <2>1, <2>2, <2>3, <2>5
<1>2. CASE identity[i] # Null /\ req' = [req EXCEPT ![r].user = identity[i]] /\ UNCHANGED <<user, identity>>
  <2>1. PICK x \in Email : x = identity[i]
    BY <1>2, Rows DEF IInv
  <2>2. user'[x] # Null /\ session[SessionOf(r)].person = Holder[x]
    BY <1>0, <1>2, <2>1 DEF IInv, IdentityConsistent
  <2> QED BY <1>0, <1>1, <1>2, <2>1, <2>2, RequestsOnly
<1>3. CASE /\ identity[i] = Null /\ user[e] = Null
           /\ user' = [user EXCEPT ![e] = [password |-> Null, verified |-> TRUE, proofs |-> 0]]
           /\ identity' = [identity EXCEPT ![i] = e]
           /\ req' = [req EXCEPT ![r].user = e]
  <2>1. /\ user'[e] = [password |-> Null, verified |-> TRUE, proofs |-> 0]
        /\ \A x \in Email : x # e => user'[x] = user[x]
        /\ identity'[i] = e /\ \A j \in Subject : j # i => identity'[j] = identity[j]
    BY <1>3 DEF IInv, TypeOK
  <2>2. user'[e] \in UserRow
    BY <2>1, ProofsAssumption DEF UserRow
  <2>3. user'[e] # Null
    BY <2>2, RowAssumption
  <2>4. /\ req' \in [Request -> RequestRow \cup {Null}] /\ RequestConsistent(r)'
        /\ \A y \in Request : y # r => req'[y] = req[y]
        /\ req'[r].op = "google" /\ req'[r].state = req[r].state
    BY <1>0, <1>1, <1>3, <2>3
  <2>5. TypeOK'
    BY <1>0, <1>3, <2>2, <2>4 DEF IInv, TypeOK
  <2>6. UsersStay /\ SessionsStay /\ TokensStay /\ StatesStay
    BY <1>0, <2>1, <2>3 DEF UsersStay, SessionsStay, TokensStay, StatesStay
  <2>7. OneGoodLink' /\ StateIsWorthOne'
    <3>1. OneGoodLink'
      BY <1>0 DEF IInv, OneGoodLink, LiveToken
    <3>2. StateIsWorthOne'
      BY <1>0, <2>4 DEF IInv, StateIsWorthOne
    <3> QED BY <3>1, <3>2
  <2>8. \A s \in Session : session[s] # Null => session[s].user # e
    BY <1>3, NullAssumption DEF IInv, SessionConsistent
  <2>9. UserAlone(e)
    BY <1>0, <2>1, <2>8 DEF UserAlone, PasswordConsistent
  <2>10. \A j \in Subject : IdentityConsistent(j)'
    <3>1. \A j \in Subject : identity[j] # e
      BY <1>3, NullAssumption DEF IInv, IdentityConsistent
    <3> QED BY <1>0, <1>3, <2>1, <2>3, <3>1 DEF IInv, IdentityConsistent
  <2>11. \A s \in Session : session[s] # Null \/ SessionConsistent(s)'
    BY <1>0 DEF SessionConsistent
  <2> QED BY <1>0, <2>1, <2>4, <2>5, <2>6, <2>7, <2>9, <2>10, <2>11, Calm
<1> QED BY <1>2, <1>3 DEF Resolve
(* Every step keeps the invariant. *)
LEMMA NextIInv == ASSUME IInv, [Next]_vars PROVE IInv'
<1>1. CASE UNCHANGED vars
  BY <1>1 DEF vars, IInv, TypeOK, OneGoodLink, StateIsWorthOne, LiveToken, PasswordConsistent,
              SessionConsistent, IdentityConsistent, RequestConsistent, SessionOf
<1>2. CASE Browse
  BY <1>2, BrowseIInv, StatesIInv DEF Browse
<1>3. CASE Mail
  BY <1>3, MailIInv DEF Mail
<1>4. ASSUME NEW g \in State, ExpireState(g) PROVE IInv'
  BY <1>4, StatesIInv
<1>5. ASSUME NEW r \in Request, Handle(r) PROVE IInv'
  BY <1>5, StartIInv, LoginIInv, ProveIInv, ConsumeIInv, ResolveIInv, CompleteIInv, LinkIInv DEF Handle
<1> QED BY <1>1, <1>2, <1>3, <1>4, <1>5 DEF Next

(* The invariant holds for any number of persons, addresses, sessions and requests. *)
THEOREM Invariance == Spec => []IInv
BY InitIInv, NextIInv, PTL DEF Spec

(* A verified account is only in the hands of whoever reads its mailbox, sessions carry *)
(* the present credentials, one link of a kind is good and a state is worth one sign-in *)
(* (accounts/service.py, tokens.py, sessions.py, google_state.py).                       *)
THEOREM AccountsAreTheirs == Spec => []AccountsHold
<1>1. ASSUME IInv PROVE AccountsHold
  <2>1. ASSUME NEW s \in Session, Live(s), session[s].user # Null
        PROVE  /\ session[s].proofs = user[session[s].user].proofs
               /\ user[session[s].user].verified => session[s].person = Holder[session[s].user]
    BY <1>1, <2>1 DEF Live, IInv, SessionConsistent
  <2>2. VerifiedIsTheHolders /\ SessionsAreCurrent
    BY <2>1 DEF VerifiedIsTheHolders, SessionsAreCurrent
  <2> QED BY <1>1, <2>2 DEF IInv, AccountsHold, CredentialsAgree
<1> QED BY <1>1, Invariance, PTL

(* The steps that touch the accounts. *)
LEMMA UserSteps ==
  ASSUME IInv, [Next]_vars
  PROVE  \/ \A e \in Email : user[e] # Null => user'[e] = user[e]
         \/ \E r \in Request : Prove(r)
<1>1. CASE \E t \in Token, e \in Email, s \in Session : Register(s, e, t)
  BY <1>1 DEF Register, IInv, TypeOK
<1>2. CASE \E r \in Request, i \in Subject, e \in Email : Resolve(r, i, e)
  BY <1>2 DEF Resolve, IInv, TypeOK
<1>3. CASE UNCHANGED user
  BY <1>3
<1>4. ASSUME Browse \/ Mail \/ (\E g \in State : ExpireState(g)) \/ UNCHANGED vars
      PROVE  UNCHANGED user \/ \E t \in Token, e \in Email, s \in Session : Register(s, e, t)
  BY <1>4 DEF Browse, Leave, Visit, BeginGoogle, Mail, ExpireToken, RequestLink, ExpireState, vars
<1>5. ASSUME NEW r \in Request, Handle(r)
      PROVE  \/ UNCHANGED user \/ Prove(r) \/ \E i \in Subject, e \in Email : Resolve(r, i, e)
  BY <1>5 DEF Handle, StartLogin, Login, StartProof, Consume, Complete, Link, Fail
<1> QED BY <1>1, <1>2, <1>3, <1>4, <1>5 DEF Next

(* The steps that touch the subjects. *)
LEMMA IdentitySteps ==
  ASSUME IInv, [Next]_vars
  PROVE  \/ UNCHANGED identity
         \/ \E i \in Subject, e \in Email : identity[i] \in {Null, e} /\ identity' = [identity EXCEPT ![i] = e]
<1>1. ASSUME Browse \/ Mail \/ (\E g \in State : ExpireState(g)) \/ UNCHANGED vars
      PROVE  UNCHANGED identity
  BY <1>1 DEF Browse, Leave, Visit, BeginGoogle, Mail, ExpireToken, RequestLink, Register, ExpireState, vars
<1>2. ASSUME NEW r \in Request, NEW i \in Subject, NEW e \in Email, Resolve(r, i, e)
      PROVE  UNCHANGED identity \/ (identity[i] = Null /\ identity' = [identity EXCEPT ![i] = e])
  BY <1>2 DEF Resolve
<1>3. ASSUME NEW r \in Request, NEW i \in Subject, NEW new \in Session, Link(r, i, new)
      PROVE  \E e \in Email : identity[i] \in {Null, e} /\ identity' = [identity EXCEPT ![i] = e]
  <2>1. PICK e \in Email : e = LinkOf(r)
    BY <1>3, Browser DEF Link
  <2> QED BY <1>3, <2>1 DEF Link, MayLink
<1>4. ASSUME NEW r \in Request, Handle(r)
      PROVE  \/ UNCHANGED identity
             \/ \E i \in Subject, e \in Email : Resolve(r, i, e)
             \/ \E i \in Subject, new \in Session : Link(r, i, new)
  BY <1>4 DEF Handle, StartLogin, Login, StartProof, Prove, Consume, Complete, Fail
<1> QED BY <1>1, <1>2, <1>3, <1>4 DEF Next

(* The steps of a request of Google's that make a session. *)
LEMMA SessionSteps ==
  ASSUME IInv, [Next]_vars, NEW r \in Request, req[r] # Null, req[r].op = "google", req'[r] = Null,
         NEW s \in Session, session[s] = Null, session'[s] # Null
  PROVE  Live(SessionOf(r))
<1>1. ASSUME NEW x \in Session, Leave(x) \/ (\E p \in Person : Visit(x, p))
                                \/ \E g \in State, link \in Email \cup {Null} : BeginGoogle(g, x, link)
      PROVE  UNCHANGED req
  BY <1>1 DEF Leave, Visit, BeginGoogle
<1>2. ASSUME Mail \/ (\E g \in State : ExpireState(g)) \/ UNCHANGED vars
      PROVE  UNCHANGED req
  BY <1>2 DEF Mail, ExpireToken, RequestLink, Register, ExpireState, vars
<1>3. ASSUME NEW x \in Request, Handle(x), x # r
      PROVE  req'[r] = req[r]
  BY <1>3 DEF Handle, StartLogin, Login, StartProof, Prove, Consume, Resolve, Complete, Link, Fail, IInv, TypeOK
<1>4. ASSUME Handle(r)
      PROVE  Live(SessionOf(r))
  <2>1. ~(\E x \in Session : StartLogin(r, x)) /\ ~(\E t \in Token : StartProof(r, t)) /\ ~(\E g \in State : Consume(r, g))
    BY DEF StartLogin, StartProof, Consume
  <2>2. ~(\E e \in Email, new \in Session : Login(r, e, new)) /\ ~Prove(r)
    BY DEF Login, Prove
  <2>3. ~Fail(r) /\ ~(\E i \in Subject, e \in Email : Resolve(r, i, e))
    BY DEF Fail, Resolve
  <2> QED BY <1>4, <2>1, <2>2, <2>3 DEF Handle, Complete, Link, Held
<1> QED BY <1>1, <1>2, <1>3, <1>4 DEF Next, Browse

(* A mailed link changes the credentials once, a session that was ended opens no other, *)
(* and a Google subject keeps its account (accounts/tokens.py, google_accounts.py).      *)
THEOREM NothingReturns == Spec => NothingComesBack
<1>1. ASSUME IInv, [Next]_vars, NEW e \in Email, user[e] # Null, user'[e].proofs # user[e].proofs
      PROVE  \E t \in Token : token[t] # Null /\ token[t].user = e /\ token[t].live /\ ~token'[t].live
  <2>1. PICK r \in Request : Prove(r)
    BY <1>1, UserSteps
  <2>2. PICK t \in Token : t = req[r].token
    BY <1>1, <2>1, Requests DEF Prove, IInv
  <2>3. LiveToken(t) /\ token[t] \in TokenRow
    BY <1>1, <2>1, <2>2, Rows DEF Prove, Good, LiveToken, IInv
  <2>4. token[t].user = e
    BY <1>1, <2>1, <2>2 DEF Prove, IInv, TypeOK
  <2>5. token'[t] = [token[t] EXCEPT !.live = FALSE]
    BY <2>1, <2>2, <2>3 DEF Prove, RevokeCredentials
  <2> QED BY <2>3, <2>4, <2>5 DEF LiveToken, TokenRow
<1>2. ASSUME IInv, [Next]_vars, NEW i \in Subject, identity[i] # Null
      PROVE  /\ identity'[i] = identity[i]
             /\ \A j \in Subject : identity'[j] = identity[i] => j = i
  <2>1. identity'[i] = identity[i]
    BY <1>2, IdentitySteps DEF IInv, TypeOK
  <2>2. IInv'
    BY <1>2, NextIInv
  <2> QED BY <1>2, <2>1, <2>2 DEF IInv, IdentityConsistent
<1>3. ASSUME IInv, [Next]_vars
      PROVE  \A e \in Email : user[e] # Null /\ user'[e].proofs # user[e].proofs =>
               \E t \in Token : token[t] # Null /\ token[t].user = e /\ token[t].live /\ ~token'[t].live
  BY <1>1, <1>3
<1>4. ASSUME IInv, [Next]_vars
      PROVE  \A r \in Request, s \in Session :
               /\ req[r] # Null /\ req[r].op = "google" /\ req'[r] = Null
               /\ session[s] = Null /\ session'[s] # Null
               => Live(SessionOf(r))
  BY <1>4, SessionSteps
<1>5. ASSUME IInv, [Next]_vars
      PROVE  \A i \in Subject : identity[i] # Null =>
               /\ identity'[i] = identity[i]
               /\ \A j \in Subject : identity'[j] = identity[i] => j = i
  BY <1>2, <1>5
<1>6. Spec => LinkIsUsedUp
  BY <1>3, Invariance, PTL DEF Spec, LinkIsUsedUp
<1>7. Spec => EndedStaysEnded
  BY <1>4, Invariance, PTL DEF Spec, EndedStaysEnded
<1>8. Spec => SubjectsStay
  BY <1>5, Invariance, PTL DEF Spec, SubjectsStay
<1> QED BY <1>6, <1>7, <1>8 DEF NothingComesBack
-----------------------------------------------------------------------------
(* The initial state satisfies the invariant. *)
LEMMA KeysInit == ASSUME K!Settings PROVE K!Init => K!IInv
BY DEF K!Settings, K!Init, K!IInv, K!Types, K!Instant, K!RefreshesApart, K!AllCounted, K!AskedInTime, K!ServedSince,
       K!CacheExpires, K!Underway, K!Is

(* One exchange ends, and nothing else changes. *)
LEMMA KeysEnd ==
  ASSUME K!Settings, K!IInv, NEW x \in Request, K!Underway(x), \E outcome \in K!Ended : K!End(x, outcome),
         UNCHANGED <<clock, published, withdrawn, cache>>
  PROVE  K!IInv'
<1>0. PICK outcome \in K!Ended : exchange' = [exchange EXCEPT ![x] = [at |-> outcome, asked |-> @.asked]]
  BY DEF K!End
<1>1. exchange[x] \in K!Open /\ exchange[x] # Null
  BY DEF K!IInv, K!Types, K!Underway, K!Closed
<1>2. /\ \A y \in Request : y # x => exchange'[y] = exchange[y]
      /\ exchange'[x] = [at |-> outcome, asked |-> exchange[x].asked]
      /\ exchange'[x] \in K!Closed
  BY <1>0, <1>1 DEF K!IInv, K!Types, K!Open, K!Closed
<1>3. ~K!Underway(x)' /\ ~K!Is(x, {"fetching", "served"})'
  <2>1. exchange'[x].at \in {"signed in", "refused"}
    <3>1. exchange'[x].at = outcome
      BY <1>2
    <3>2. outcome \in {"signed in", "refused"}
      BY <1>0 DEF K!Ended
    <3> QED BY <3>1, <3>2
  <2> QED BY <2>1 DEF K!Underway, K!Is, K!Ended
<1>4. K!Types'
  BY <1>0, <1>2 DEF K!IInv, K!Types
<1>5. K!RefreshesApart' /\ K!AllCounted'
  BY <1>1, <1>2 DEF K!IInv, K!RefreshesApart, K!AllCounted
<1>6. K!AskedInTime' /\ K!ServedSince' /\ K!CacheExpires'
  BY <1>2, <1>3 DEF K!IInv, K!AskedInTime, K!ServedSince, K!CacheExpires, K!Underway, K!Is
<1> QED BY <1>4, <1>5, <1>6 DEF K!IInv

(* Google withdraws keys and publishes others: what is cached or served was published *)
(* when it was asked for, and what is withdrawn now is withdrawn after that.             *)
LEMMA KeysRotate ==
  ASSUME K!Settings, K!IInv, NEW kids \in SUBSET Token, K!Rotate(kids)
  PROVE  K!IInv'
<1>0. \A k \in Token : \/ withdrawn'[k] = Null
                     \/ withdrawn'[k] = clock
                     \/ withdrawn'[k] = withdrawn[k]
  BY DEF K!Rotate
<1>1. K!Types'
  BY DEF K!IInv, K!Types, K!Rotate, K!Instant
<1>2. K!RefreshesApart' /\ K!AllCounted' /\ K!AskedInTime'
  BY DEF K!IInv, K!Rotate, K!RefreshesApart, K!AllCounted, K!AskedInTime, K!Underway, K!Is
<1>3. K!ServedSince'
  <2> SUFFICES ASSUME NEW x \in Request, K!Is(x, {"served"}), NEW k \in exchange[x].seen, withdrawn'[k] # Null
               PROVE  exchange[x].asked <= withdrawn'[k]
    BY DEF K!ServedSince, K!Rotate, K!Is
  <2>1. exchange[x].asked <= clock /\ k \in Token
    BY DEF K!IInv, K!Types, K!AskedInTime, K!Is, K!Underway, K!Ended, K!Open, K!Closed
  <2> QED BY <1>0, <2>1 DEF K!IInv, K!ServedSince
<1>4. K!CacheExpires'
  <2>1. cache' = cache /\ clock' = clock /\ cache.keys \subseteq Token
    BY DEF K!Rotate, K!IInv, K!Types
  <2> QED BY <1>0, <2>1 DEF K!IInv, K!CacheExpires
<1>5. \A k \in published' : withdrawn'[k] = Null
  BY DEF K!Rotate
<1> QED BY <1>1, <1>2, <1>3, <1>4, <1>5 DEF K!IInv

(* An exchange begins. *)
LEMMA KeysStart ==
  ASSUME K!Settings, K!IInv, NEW x \in Request, NEW kid \in Token, K!Start(x, kid)
  PROVE  K!IInv'
<1>0. /\ \A y \in Request : y # x => exchange'[y] = exchange[y]
      /\ exchange'[x] = [at |-> "waiting", kid |-> kid, began |-> clock, asked |-> Null, seen |-> {}]
  BY DEF K!Start, K!IInv, K!Types
<1>1. K!Types'
  BY DEF K!Start, K!IInv, K!Types, K!Open, K!Instant
<1>2. K!RefreshesApart' /\ K!AllCounted'
  BY <1>0 DEF K!Start, K!IInv, K!RefreshesApart, K!AllCounted
<1>3. K!AskedInTime' /\ K!ServedSince' /\ K!CacheExpires'
  BY <1>0 DEF K!Settings, K!Start, K!IInv, K!Types, K!AskedInTime, K!ServedSince, K!CacheExpires, K!Underway, K!Is
<1> QED BY <1>1, <1>2, <1>3 DEF K!Start, K!IInv

(* A refresh is counted, and asked for. *)
LEMMA KeysFetch ==
  ASSUME K!Settings, K!IInv, NEW x \in Request, K!Fetch(x)
  PROVE  K!IInv'
<1>0. exchange[x] \in K!Open /\ exchange[x] # Null /\ K!Underway(x)
  BY DEF K!Fetch, K!Is, K!IInv, K!Types, K!Closed, K!Ended, K!Underway
<1>1. /\ \A y \in Request : y # x => exchange'[y] = exchange[y]
      /\ exchange'[x] = [exchange[x] EXCEPT !.at = "fetching", !.asked = clock]
      /\ cache' = [cache EXCEPT !.fetched = clock]
      /\ clock - cache.fetched >= Throttle
      /\ UNCHANGED <<clock, published, withdrawn>>
  BY <1>0 DEF K!Fetch, K!IInv, K!Types, K!Open
<1>2. /\ exchange'[x] \in K!Open /\ exchange'[x].asked = clock /\ exchange'[x].at = "fetching"
      /\ exchange'[x].began = exchange[x].began
      /\ cache'.fetched = clock /\ cache'.keys = cache.keys /\ cache'.expires = cache.expires
  <2>1. cache \in [keys : SUBSET Token, expires : Int, fetched : Int] /\ clock \in Int
    BY DEF K!IInv, K!Types
  <2>2. cache'.fetched = clock /\ cache'.keys = cache.keys /\ cache'.expires = cache.expires
    BY <1>1, <2>1
  <2> QED BY <1>0, <1>1, <2>1, <2>2 DEF K!Open, K!Instant
<1>3. K!Types'
  BY <1>0, <1>1, <1>2 DEF K!Fetch, K!IInv, K!Types
<1>4. \A y \in Request : y # x /\ exchange[y] # Null /\ exchange[y].asked # Null =>
        exchange[y].asked \in Int /\ clock - exchange[y].asked >= Throttle
  BY <1>1 DEF K!Settings, K!IInv, K!Types, K!AllCounted, K!Open, K!Closed, K!Instant
<1>5. K!RefreshesApart'
  <2> SUFFICES ASSUME NEW y \in Request, NEW z \in Request, y # z, exchange'[y] # Null, exchange'[z] # Null,
                      exchange'[y].asked # Null, exchange'[z].asked # Null
               PROVE  \/ exchange'[y].asked - exchange'[z].asked >= Throttle
                      \/ exchange'[z].asked - exchange'[y].asked >= Throttle
    BY <1>1 DEF K!RefreshesApart
  <2>1. CASE y = x
    <3>1. exchange'[y].asked = clock /\ clock - exchange'[z].asked >= Throttle
      BY <1>1, <1>2, <1>4, <2>1
    <3> QED BY <3>1
  <2>2. CASE z = x
    <3>1. exchange'[z].asked = clock /\ clock - exchange'[y].asked >= Throttle
      BY <1>1, <1>2, <1>4, <2>2
    <3> QED BY <3>1
  <2>3. CASE y # x /\ z # x
    <3>1. exchange'[y] = exchange[y] /\ exchange'[z] = exchange[z]
      BY <1>1, <2>3
    <3> QED BY <3>1 DEF K!IInv, K!RefreshesApart
  <2> QED BY <2>1, <2>2, <2>3
<1>6. K!AllCounted'
  <2> SUFFICES ASSUME NEW y \in Request, exchange'[y] # Null, exchange'[y].asked # Null
               PROVE  exchange'[y].asked <= clock
    BY <1>2 DEF K!AllCounted
  <2>1. CASE y = x
    BY <1>2, <2>1 DEF K!IInv, K!Types
  <2>2. CASE y # x
    BY <1>1, <1>4, <2>2 DEF K!Settings, K!IInv, K!Types
  <2> QED BY <2>1, <2>2
<1>7. K!AskedInTime'
  <2> SUFFICES ASSUME NEW y \in Request, K!Underway(y)'
               PROVE  /\ exchange'[y].began <= clock /\ clock <= exchange'[y].began + Timeout
                      /\ K!Is(y, {"fetching", "served"})' =>
                           /\ exchange'[y].asked \in Int /\ exchange'[y].began <= exchange'[y].asked
                           /\ exchange'[y].asked <= clock
    BY <1>1 DEF K!AskedInTime
  <2>1. CASE y = x
    <3>1. exchange[x].began <= clock /\ clock <= exchange[x].began + Timeout /\ clock \in Int
      BY <1>0 DEF K!IInv, K!Types, K!AskedInTime
    <3> QED BY <1>2, <2>1, <3>1
  <2>2. CASE y # x
    BY <1>1, <2>2 DEF K!IInv, K!AskedInTime, K!Underway, K!Is
  <2> QED BY <2>1, <2>2
<1>8. K!ServedSince' /\ K!CacheExpires'
  BY <1>1, <1>2 DEF K!IInv, K!ServedSince, K!CacheExpires, K!Is
<1> QED BY <1>1, <1>3, <1>5, <1>6, <1>7, <1>8 DEF K!IInv

(* Google answers with the keys of the moment. *)
LEMMA KeysServe ==
  ASSUME K!Settings, K!IInv, NEW x \in Request, K!Serve(x)
  PROVE  K!IInv'
<1>0. exchange[x] \in K!Open /\ exchange[x] # Null /\ K!Underway(x) /\ K!Is(x, {"fetching", "served"})
  BY DEF K!Serve, K!Is, K!IInv, K!Types, K!Closed, K!Ended, K!Underway
<1>1. /\ \A y \in Request : y # x => exchange'[y] = exchange[y]
      /\ exchange'[x] = [exchange[x] EXCEPT !.at = "served", !.seen = published]
      /\ UNCHANGED <<clock, published, withdrawn, cache>>
  BY <1>0 DEF K!Serve, K!IInv, K!Types, K!Open
<1>2. /\ exchange'[x] \in K!Open /\ exchange'[x].asked = exchange[x].asked /\ exchange'[x].at = "served"
      /\ exchange'[x].began = exchange[x].began /\ exchange'[x].seen = published
  BY <1>0, <1>1 DEF K!IInv, K!Types, K!Open
<1>3. K!Types'
  BY <1>0, <1>1, <1>2 DEF K!Serve, K!IInv, K!Types
<1>4. K!RefreshesApart' /\ K!AllCounted'
  <2>1. \A y \in Request : exchange'[y] # Null => exchange[y] # Null /\ exchange'[y].asked = exchange[y].asked
    BY <1>0, <1>1, <1>2
  <2>2. K!RefreshesApart'
    BY <2>1 DEF K!IInv, K!RefreshesApart
  <2>3. K!AllCounted'
    BY <1>1, <2>1 DEF K!IInv, K!AllCounted
  <2> QED BY <2>2, <2>3
<1>5. K!AskedInTime'
  BY <1>0, <1>1, <1>2 DEF K!IInv, K!AskedInTime, K!Underway, K!Is
<1>6. K!ServedSince' /\ K!CacheExpires'
  BY <1>1, <1>2 DEF K!IInv, K!ServedSince, K!CacheExpires, K!Is
<1> QED BY <1>1, <1>3, <1>4, <1>5, <1>6 DEF K!IInv

(* What came replaces what was there. *)
LEMMA KeysStore ==
  ASSUME K!Settings, K!IInv, NEW x \in Request, NEW lifetime \in MinLife..MaxLife, K!Store(x, lifetime)
  PROVE  K!IInv'
<1>0. /\ exchange[x] \in K!Open /\ exchange[x] # Null /\ K!Underway(x) /\ K!Is(x, {"served"})
      /\ exchange[x].asked \in Int /\ exchange[x].asked <= clock /\ exchange[x].seen \subseteq Token
  BY DEF K!Store, K!Is, K!IInv, K!Types, K!Closed, K!Open, K!Ended, K!Underway, K!AskedInTime
<1>1. PICK outcome \in K!Ended : exchange' = [exchange EXCEPT ![x] = [at |-> outcome, asked |-> @.asked]]
  BY DEF K!Store, K!Verify, K!End, K!Ended
<1>2. /\ \A y \in Request : y # x => exchange'[y] = exchange[y]
      /\ exchange'[x] = [at |-> outcome, asked |-> exchange[x].asked]
      /\ exchange'[x] \in K!Closed
  BY <1>0, <1>1 DEF K!IInv, K!Types, K!Open, K!Closed
<1>3. /\ cache' = [cache EXCEPT !.keys = exchange[x].seen, !.expires = exchange[x].asked + lifetime]
      /\ UNCHANGED <<clock, published, withdrawn>>
  BY DEF K!Store
<1>4. /\ cache'.keys = exchange[x].seen /\ cache'.expires = exchange[x].asked + lifetime
      /\ cache'.fetched = cache.fetched
      /\ cache' \in [keys : SUBSET Token, expires : Int, fetched : Int]
  <2>1. cache \in [keys : SUBSET Token, expires : Int, fetched : Int] /\ lifetime \in Int
    BY DEF K!IInv, K!Types, K!Settings
  <2>2. exchange[x].asked + lifetime \in Int
    BY <1>0, <2>1
  <2> QED BY <1>0, <1>3, <2>1, <2>2
<1>5. ~K!Underway(x)' /\ ~K!Is(x, {"fetching", "served"})'
  <2>1. exchange'[x].at \in {"signed in", "refused"}
    <3>1. exchange'[x].at = outcome
      BY <1>2
    <3>2. outcome \in {"signed in", "refused"}
      BY <1>1 DEF K!Ended
    <3> QED BY <3>1, <3>2
  <2> QED BY <2>1 DEF K!Underway, K!Is, K!Ended
<1>6. K!Types'
  BY <1>1, <1>2, <1>3, <1>4 DEF K!IInv, K!Types
<1>7. K!RefreshesApart' /\ K!AllCounted'
  BY <1>0, <1>2, <1>4 DEF K!IInv, K!RefreshesApart, K!AllCounted
<1>8. K!AskedInTime' /\ K!ServedSince'
  BY <1>2, <1>3, <1>5 DEF K!IInv, K!AskedInTime, K!ServedSince, K!Underway, K!Is
<1>9. K!CacheExpires'
  <2>1. cache'.expires <= exchange[x].asked + MaxLife
    BY <1>0, <1>4 DEF K!Settings
  <2>2. \A k \in exchange[x].seen : withdrawn[k] # Null => exchange[x].asked <= withdrawn[k] /\ withdrawn[k] \in Int
    BY <1>0 DEF K!IInv, K!ServedSince, K!Types, K!Instant
  <2> QED BY <1>0, <1>3, <1>4, <2>1, <2>2 DEF K!CacheExpires, K!Settings, K!IInv, K!Types
<1> QED BY <1>3, <1>6, <1>7, <1>8, <1>9 DEF K!IInv

(* Time passes, and no exchange outlives its own. *)
LEMMA KeysTick ==
  ASSUME K!Settings, K!IInv, K!Tick
  PROVE  K!IInv'
<1>1. K!Types'
  BY DEF K!Tick, K!IInv, K!Types
<1>2. K!RefreshesApart' /\ K!AllCounted' /\ K!ServedSince' /\ K!CacheExpires'
  BY DEF K!Settings, K!Tick, K!IInv, K!Types, K!RefreshesApart, K!AllCounted, K!ServedSince, K!CacheExpires, K!Is
<1>3. K!AskedInTime'
  <2> SUFFICES ASSUME NEW x \in Request, K!Underway(x)
               PROVE  /\ exchange[x].began <= clock + 1 /\ clock + 1 <= exchange[x].began + Timeout
                      /\ K!Is(x, {"fetching", "served"}) =>
                           /\ exchange[x].asked \in Int /\ exchange[x].began <= exchange[x].asked
                           /\ exchange[x].asked <= clock + 1
    BY DEF K!Tick, K!AskedInTime, K!Underway, K!Is
  <2>1. exchange[x] \in K!Open
    BY DEF K!IInv, K!Types, K!Underway, K!Closed
  <2>2. exchange[x].began \in Int /\ clock \in Int /\ clock < exchange[x].began + Timeout
    BY <2>1 DEF K!Tick, K!IInv, K!Types, K!Open
  <2> QED BY <2>1, <2>2 DEF K!IInv, K!AskedInTime, K!Settings
<1> QED BY <1>1, <1>2, <1>3 DEF K!Tick, K!IInv

(* Every step keeps the invariant. *)
LEMMA KeysNext == ASSUME K!Settings, K!IInv, [K!Next]_K!keyVars PROVE K!IInv'
<1>1. ASSUME NEW x \in Request, K!UseKey(x) \/ K!Throttled(x) \/ K!GiveUp(x) PROVE K!IInv'
  <2>1. K!Underway(x) /\ \E outcome \in K!Ended : K!End(x, outcome)
    BY <1>1 DEF K!UseKey, K!Throttled, K!GiveUp, K!Verify, K!Underway, K!Is, K!Ended
  <2> QED BY <1>1, <2>1, KeysEnd DEF K!UseKey, K!Throttled, K!GiveUp
<1>2. CASE UNCHANGED K!keyVars
  BY <1>2 DEF K!keyVars, K!IInv, K!Types, K!RefreshesApart, K!AllCounted, K!AskedInTime, K!ServedSince, K!CacheExpires,
              K!Underway, K!Is
<1> QED
  BY <1>1, <1>2, KeysRotate, KeysStart, KeysFetch, KeysServe, KeysStore, KeysTick DEF K!Next, K!SignIn

(* The invariant holds for any number of keys and sign-ins and any settings. *)
THEOREM KeysInvariance == ASSUME K!Settings PROVE K!Spec => []K!IInv
BY KeysInit, KeysNext, PTL DEF K!Spec

(* Refreshes, failed and hung ones too, are at least the throttle apart            *)
(* (accounts/google_provider.py, _key).                                             *)
THEOREM RefreshesAreApart == ASSUME K!Settings PROVE K!Spec => []K!RefreshesApart
<1>1. K!IInv => K!RefreshesApart
  BY DEF K!IInv
<1> QED BY <1>1, KeysInvariance, PTL

(* A key that Google has withdrawn signs nobody in once the longest lifetime has passed *)
(* (accounts/google_provider.py, _key).                                                  *)
THEOREM WithdrawnKeysExpire == ASSUME K!Settings PROVE K!Spec => K!WithdrawnExpire
<1>1. ASSUME K!IInv, [K!Next]_K!keyVars, NEW x \in Request, K!Underway(x), K!Is(x, K!Ended)',
             exchange'[x].at = "signed in", withdrawn[exchange[x].kid] # Null
      PROVE  clock < withdrawn[exchange[x].kid] + MaxLife
  <2>0. exchange[x] \in K!Open /\ withdrawn[exchange[x].kid] \in Int /\ exchange[x].began \in Int
    BY <1>1 DEF K!IInv, K!Types, K!Underway, K!Open, K!Closed, K!Instant
  <2>1. K!UseKey(x) \/ \E lifetime \in MinLife..MaxLife : K!Store(x, lifetime) /\ exchange[x].kid \in exchange[x].seen
    <3>0. exchange'[x].at = "signed in" /\ exchange[x] # Null /\ exchange[x].at \notin K!Ended
      BY <1>1 DEF K!Underway
    <3>1. ASSUME NEW y \in Request, K!Throttled(y) \/ K!GiveUp(y) PROVE FALSE
      <4>1. K!End(y, "refused") /\ exchange[y] # Null
        BY <3>1 DEF K!Throttled, K!GiveUp, K!Is, K!Underway
      <4>2. exchange'[x] = exchange[x] \/ exchange'[x].at = "refused"
        BY <1>1, <4>1 DEF K!End, K!IInv, K!Types
      <4> QED BY <3>0, <4>2 DEF K!Ended
    <3>2. ASSUME NEW y \in Request, K!Fetch(y) \/ K!Serve(y) \/ \E kid \in Token : K!Start(y, kid) PROVE FALSE
      <4>1. exchange'[x] = exchange[x] \/ exchange'[x].at \in {"fetching", "served", "waiting"}
        <5>1. exchange \in [Request -> {Null} \cup K!Open \cup K!Closed]
          BY <1>1 DEF K!IInv, K!Types
        <5> QED BY <2>0, <3>2, <5>1 DEF K!Fetch, K!Serve, K!Start, K!Open
      <4> QED BY <3>0, <4>1 DEF K!Ended
    <3>3. ASSUME \/ K!Tick \/ UNCHANGED K!keyVars \/ \E kids \in SUBSET Token : K!Rotate(kids) PROVE FALSE
      BY <3>0, <3>3 DEF K!Tick, K!keyVars, K!Rotate, K!Ended
    <3>4. ASSUME NEW y \in Request, K!UseKey(y) PROVE K!UseKey(x)
      <4>1. y = x \/ exchange'[x] = exchange[x]
        BY <1>1, <3>4 DEF K!UseKey, K!Verify, K!End, K!IInv, K!Types
      <4> QED BY <3>0, <3>4, <4>1 DEF K!Ended
    <3>5. ASSUME NEW y \in Request, NEW lifetime \in MinLife..MaxLife, K!Store(y, lifetime)
          PROVE  y = x /\ exchange[x].kid \in exchange[x].seen
      <4>1. y = x
        BY <1>1, <3>0, <3>5 DEF K!Store, K!Verify, K!End, K!IInv, K!Types, K!Ended
      <4>2. exchange[x].kid \notin exchange[x].seen => exchange'[x].at = "refused"
        <5>1. exchange \in [Request -> {Null} \cup K!Open \cup K!Closed]
          BY <1>1 DEF K!IInv, K!Types
        <5> QED BY <3>5, <4>1, <5>1 DEF K!Store, K!End
      <4> QED BY <3>0, <4>1, <4>2
    <3> QED BY <1>1, <3>1, <3>2, <3>3, <3>4, <3>5 DEF K!Next, K!SignIn
  <2>2. CASE K!UseKey(x)
    <3>1. exchange[x].kid \in cache.keys /\ clock < cache.expires
      BY <2>2 DEF K!UseKey, K!Known
    <3>2. cache.expires \in Int /\ clock \in Int
      <4>1. cache \in [keys : SUBSET Token, expires : Int, fetched : Int] /\ clock \in Nat
        BY <1>1 DEF K!IInv, K!Types
      <4> QED BY <4>1
    <3>3. cache.expires <= withdrawn[exchange[x].kid] + MaxLife
      BY <1>1, <3>1 DEF K!IInv, K!CacheExpires
    <3> QED BY <2>0, <3>1, <3>2, <3>3 DEF K!Settings
  <2>3. CASE K!Is(x, {"served"}) /\ exchange[x].kid \in exchange[x].seen
    <3>1. exchange[x].asked <= withdrawn[exchange[x].kid]
      BY <1>1, <2>3 DEF K!IInv, K!ServedSince
    <3>2. /\ clock <= exchange[x].began + Timeout
          /\ exchange[x].asked \in Int /\ exchange[x].began <= exchange[x].asked
      BY <1>1, <2>3 DEF K!IInv, K!AskedInTime, K!Is
    <3>3. clock \in Int
      <4>1. clock \in Nat
        BY <1>1 DEF K!IInv, K!Types
      <4> QED BY <4>1
    <3> QED BY <2>0, <3>1, <3>2, <3>3 DEF K!Settings
  <2> QED BY <2>1, <2>2, <2>3 DEF K!Store
<1>2. ASSUME K!IInv, [K!Next]_K!keyVars
      PROVE  \A x \in Request : K!Underway(x) /\ K!Is(x, K!Ended)' /\ exchange'[x].at = "signed in" =>
               LET since == withdrawn[exchange[x].kid] IN since = Null \/ clock < since + MaxLife
  <2> SUFFICES ASSUME NEW x \in Request, K!Underway(x), K!Is(x, K!Ended)', exchange'[x].at = "signed in",
                      withdrawn[exchange[x].kid] # Null
               PROVE  clock < withdrawn[exchange[x].kid] + MaxLife
    OBVIOUS
  <2> QED BY <1>1, <1>2
<1> QED BY <1>2, KeysInvariance, PTL DEF K!Spec, K!WithdrawnExpire

(* Nobody signs in with a key that was withdrawn a lifetime ago, and refreshes are apart, *)
(* for any number of keys and sign-ins and any settings (accounts/google_provider.py).     *)
THEOREM KeysAreFresh == ASSUME K!Settings PROVE K!Spec => KeysHold
BY RefreshesAreApart, WithdrawnKeysExpire DEF KeysHold
=============================================================================
