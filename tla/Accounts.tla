----------------------------- MODULE Accounts -----------------------------
(* Accounts and browser sessions: registration and sign-in by password         *)
(* (accounts/service.py, router.py), mailed links (accounts/tokens.py), sessions *)
(* (accounts/sessions.py), and sign-in through Google (accounts/google_state.py, *)
(* google_accounts.py).  An account is known by its email, which is unique and  *)
(* never changes.  A password is known to the person who chose it, a mailed link *)
(* to the person who reads the mailbox.  Every id is used once.                  *)
EXTENDS Integers, FiniteSets

CONSTANTS
  Person,
  Email,
  Holder,    \* who reads each mailbox
  Subject,   \* accounts at Google
  Account,   \* who signs in to each of them
  Session,
  Token,     \* mailed links
  State,     \* one-time authorization states
  Request,   \* requests under way
  Null,
  MaxProofs  \* bound: how often the credentials of an account change

ASSUME HolderAssumption == Holder \in [Email -> Person] /\ Account \in [Subject -> Person]
ASSUME NullAssumption == Null \notin Person \cup Email \cup Session \cup Token \cup State
ASSUME ProofsAssumption == MaxProofs \in Nat

VARIABLES
  user,      \* the accounts
  session,
  token,
  state,
  identity,  \* the account of each Google subject
  req        \* what each request has read, between its transactions

vars == <<user, session, token, state, identity, req>>

Kind == {"verify", "reset"}
UserRow == [password : Person \cup {Null}, verified : BOOLEAN, proofs : 0..MaxProofs]
SessionRow == [person : Person, user : Email \cup {Null}, live : BOOLEAN, proofs : 0..MaxProofs]
TokenRow == [user : Email, kind : Kind, live : BOOLEAN]
StateRow == [session : Session, link : Email \cup {Null}, live : BOOLEAN]
RequestRow ==
  [op : {"login"}, session : Session] \cup [op : {"proof"}, token : Token] \cup
  [op : {"google"}, state : State, user : Email \cup {Null}]

ASSUME RowAssumption ==
  Null \notin UserRow \cup SessionRow \cup TokenRow \cup StateRow \cup RequestRow

Init ==
  /\ user = [e \in Email |-> Null]
  /\ session = [s \in Session |-> Null]
  /\ token = [t \in Token |-> Null]
  /\ state = [g \in State |-> Null]
  /\ identity = [i \in Subject |-> Null]
  /\ req = [r \in Request |-> Null]

-----------------------------------------------------------------------------
Live(s) == session[s] # Null /\ session[s].live
LiveToken(t) == token[t] # Null /\ token[t].live

(* create_session, for a guest: the first visit of a browser. *)
Visit(s, p) ==
  /\ session[s] = Null
  /\ session' = [session EXCEPT ![s] = [person |-> p, user |-> Null, live |-> TRUE, proofs |-> 0]]
  /\ UNCHANGED <<user, token, state, identity, req>>

(* Logout, and the expiry of a session. *)
Leave(s) ==
  /\ Live(s)
  /\ session' = [session EXCEPT ![s].live = FALSE]
  /\ UNCHANGED <<user, token, state, identity, req>>

(* create_authenticated_session: the browser's session is replaced. *)
Rotate(old, new, e) ==
  /\ session[new] = Null
  /\ session' = [session EXCEPT
       ![old].live = FALSE,
       ![new] = [person |-> session[old].person, user |-> e, live |-> TRUE,
                 proofs |-> user[e].proofs]]

-----------------------------------------------------------------------------
(* send_link: it supersedes the links of its kind. *)
SendLink(t, e, kind) ==
  /\ token[t] = Null
  /\ token' = [x \in Token |->
       IF x = t THEN [user |-> e, kind |-> kind, live |-> TRUE]
       ELSE IF LiveToken(x) /\ token[x].user = e /\ token[x].kind = kind
            THEN [token[x] EXCEPT !.live = FALSE] ELSE token[x]]

(* register: anybody may start it for any address; an account that is there keeps *)
(* its password.                                                                  *)
Register(s, e, t) ==
  /\ Live(s)
  /\ user[e] # Null => ~user[e].verified
  /\ user' = IF user[e] # Null THEN user
             ELSE [user EXCEPT ![e] = [password |-> session[s].person, verified |-> FALSE,
                                       proofs |-> 0]]
  /\ SendLink(t, e, "verify")
  /\ UNCHANGED <<session, state, identity, req>>

(* request_link *)
RequestLink(e, kind, t) ==
  /\ user[e] # Null
  /\ kind = "reset" \/ ~user[e].verified
  /\ SendLink(t, e, kind)
  /\ UNCHANGED <<user, session, state, identity, req>>

ExpireToken(t) ==
  /\ LiveToken(t)
  /\ token' = [token EXCEPT ![t].live = FALSE]
  /\ UNCHANGED <<user, session, state, identity, req>>

(* The request of a login: its session is loaded, and not looked at again. *)
StartLogin(r, s) ==
  /\ req[r] = Null
  /\ Live(s)
  /\ req' = [req EXCEPT ![r] = [op |-> "login", session |-> s]]
  /\ UNCHANGED <<user, session, token, state, identity>>

(* authenticate and the new session, under the lock of the account.  The address *)
(* need not be verified.                                                         *)
Login(r, e, new) ==
  /\ req[r] # Null /\ req[r].op = "login"
  /\ user[e] # Null
  /\ user[e].password = session[req[r].session].person
  /\ Rotate(req[r].session, new, e)
  /\ req' = [req EXCEPT ![r] = Null]
  /\ UNCHANGED <<user, token, state, identity>>

(* consume_token, first: whose link it is, without a lock. *)
StartProof(r, t) ==
  /\ req[r] = Null
  /\ LiveToken(t)
  /\ req' = [req EXCEPT ![r] = [op |-> "proof", token |-> t]]
  /\ UNCHANGED <<user, session, token, state, identity>>

(* Mutant: only the links go. *)
RevokeLinks(e) ==
  /\ session' = session
  /\ token' = [t \in Token |-> IF LiveToken(t) /\ token[t].user = e
                               THEN [token[t] EXCEPT !.live = FALSE] ELSE token[t]]

(* _revoke_credentials *)
RevokeCredentials(e) ==
  /\ session' = [s \in Session |-> IF Live(s) /\ session[s].user = e
                                   THEN [session[s] EXCEPT !.live = FALSE] ELSE session[s]]
  /\ token' = [t \in Token |-> IF LiveToken(t) /\ token[t].user = e
                               THEN [token[t] EXCEPT !.live = FALSE] ELSE token[t]]

(* Mutant: the link is not looked at again. *)
StillGood(t) == TRUE

(* consume_token, second: under the lock of the account the link is read again. *)
Good(t) == LiveToken(t)

ChosenBy(e) == Holder[e]

(* verify_email and reset_password: whoever reads the mailbox sets the password. *)
Prove(r) ==
  LET t == req[r].token
      e == token[t].user
  IN  /\ req[r] # Null /\ req[r].op = "proof"
      /\ Good(t)
      /\ user[e].proofs < MaxProofs
      /\ user' = [user EXCEPT ![e] = [password |-> ChosenBy(e), proofs |-> @.proofs + 1,
                                      verified |-> @.verified \/ token[t].kind = "verify"]]
      /\ RevokeCredentials(e)
      /\ req' = [req EXCEPT ![r] = Null]
      /\ UNCHANGED <<state, identity>>

-----------------------------------------------------------------------------
(* google_state.begin; to link, the session's account must be verified. *)
BeginGoogle(g, s, link) ==
  /\ state[g] = Null
  /\ Live(s)
  /\ link # Null => session[s].user = link /\ user[link].verified
  /\ state' = [state EXCEPT ![g] = [session |-> s, link |-> link, live |-> TRUE]]
  /\ UNCHANGED <<user, session, token, identity, req>>

ExpireState(g) ==
  /\ state[g] # Null /\ state[g].live
  /\ state' = [state EXCEPT ![g].live = FALSE]
  /\ UNCHANGED <<user, session, token, identity, req>>

(* google_state.consume, which is committed before Google is asked. *)
Consume(r, g) ==
  /\ req[r] = Null
  /\ state[g] # Null /\ state[g].live /\ Live(state[g].session)
  /\ state' = [state EXCEPT ![g].live = FALSE]
  /\ req' = [req EXCEPT ![r] = [op |-> "google", state |-> g, user |-> Null]]
  /\ UNCHANGED <<user, session, token, identity>>

SessionOf(r) == state[req[r].state].session
LinkOf(r) == state[req[r].state].link

(* Google vouches for an address of the person at the browser. *)
Vouched(r, i, e) ==
  Account[i] = session[SessionOf(r)].person /\ Holder[e] = Account[i]

(* _lock_session_and_users: after the network the session is read again. *)
Held(r) == Live(SessionOf(r))

(* resolve_user, for a sign-in: the account of the subject, or a new one for an *)
(* address that has none.                                                       *)
Resolve(r, i, e) ==
  /\ req[r] # Null /\ req[r].op = "google" /\ req[r].user = Null
  /\ LinkOf(r) = Null
  /\ Vouched(r, i, e)
  /\ Held(r)
  /\ \/ /\ identity[i] # Null
        /\ req' = [req EXCEPT ![r].user = identity[i]]
        /\ UNCHANGED <<user, identity>>
     \/ /\ identity[i] = Null /\ user[e] = Null
        /\ user' = [user EXCEPT ![e] = [password |-> Null, verified |-> TRUE, proofs |-> 0]]
        /\ identity' = [identity EXCEPT ![i] = e]
        /\ req' = [req EXCEPT ![r].user = e]
  /\ UNCHANGED <<session, token, state>>

(* complete, for a sign-in: a second transaction, which locks and reads again. *)
Complete(r, new) ==
  /\ req[r] # Null /\ req[r].op = "google" /\ req[r].user # Null
  /\ Held(r)
  /\ Rotate(SessionOf(r), new, req[r].user)
  /\ req' = [req EXCEPT ![r] = Null]
  /\ UNCHANGED <<user, token, state, identity>>

(* A subject has one account, and an account one subject. *)
MayLink(i, e) ==
  /\ identity[i] \in {Null, e}
  /\ \A j \in Subject : identity[j] = e => j = i

(* resolve_user and complete, to link: one transaction. *)
Link(r, i, new) ==
  LET e == LinkOf(r)
  IN  /\ req[r] # Null /\ req[r].op = "google"
      /\ e # Null /\ Vouched(r, i, e)
      /\ Held(r) /\ session[SessionOf(r)].user = e /\ user[e].verified
      /\ MayLink(i, e)
      /\ identity' = [identity EXCEPT ![i] = e]
      /\ Rotate(SessionOf(r), new, e)
      /\ req' = [req EXCEPT ![r] = Null]
      /\ UNCHANGED <<user, token, state>>

(* A request that is refused, fails or is lost between its transactions. *)
Fail(r) ==
  /\ req[r] # Null
  /\ req' = [req EXCEPT ![r] = Null]
  /\ UNCHANGED <<user, session, token, state, identity>>

Browse ==
  \E s \in Session :
    \/ Leave(s)
    \/ \E p \in Person : Visit(s, p)
    \/ \E g \in State, link \in Email \cup {Null} : BeginGoogle(g, s, link)

Mail ==
  \E t \in Token :
    \/ ExpireToken(t)
    \/ \E e \in Email, s \in Session : Register(s, e, t)
    \/ \E e \in Email, kind \in Kind : RequestLink(e, kind, t)

Handle(r) ==
  \/ \E s \in Session : StartLogin(r, s)
  \/ \E e \in Email, new \in Session : Login(r, e, new)
  \/ \E t \in Token : StartProof(r, t)
  \/ Prove(r)
  \/ \E g \in State : Consume(r, g)
  \/ \E i \in Subject, e \in Email : Resolve(r, i, e)
  \/ \E new \in Session : Complete(r, new)
  \/ \E i \in Subject, new \in Session : Link(r, i, new)
  \/ Fail(r)

Next == Browse \/ Mail \/ (\E g \in State : ExpireState(g)) \/ \E r \in Request : Handle(r)

Spec == Init /\ [][Next]_vars

-----------------------------------------------------------------------------
TypeOK ==
  /\ user \in [Email -> UserRow \cup {Null}]
  /\ session \in [Session -> SessionRow \cup {Null}]
  /\ token \in [Token -> TokenRow \cup {Null}]
  /\ state \in [State -> StateRow \cup {Null}]
  /\ identity \in [Subject -> Email \cup {Null}]
  /\ req \in [Request -> RequestRow \cup {Null}]

(* Only whoever reads an account's mailbox is signed in to it once it is verified, *)
(* although anybody may have registered it, with a password of their own, and have *)
(* signed in before.                                                               *)
VerifiedIsTheHolders ==
  \A s \in Session :
    Live(s) /\ session[s].user # Null /\ user[session[s].user].verified =>
      session[s].person = Holder[session[s].user]

(* A live session was opened with the credentials that the account has now, whatever *)
(* logins and proofs overtook each other.                                            *)
SessionsAreCurrent ==
  \A s \in Session :
    Live(s) /\ session[s].user # Null => session[s].proofs = user[session[s].user].proofs

(* At most one link of a kind is good for an account. *)
OneGoodLink ==
  \A t, u \in Token :
    LiveToken(t) /\ LiveToken(u) /\ token[t].user = token[u].user
      /\ token[t].kind = token[u].kind => t = u

(* A mailed link changes the credentials once at the most: whoever changes them uses *)
(* up a link that was good.                                                          *)
LinkIsUsedUp ==
  [][\A e \in Email :
       user[e] # Null /\ user'[e].proofs # user[e].proofs =>
         \E t \in Token : token[t] # Null /\ token[t].user = e
                          /\ token[t].live /\ ~token'[t].live]_vars

(* A state that Google returns is worth one sign-in: no two requests act on it. *)
StateIsWorthOne ==
  \A r, x \in Request :
    req[r] # Null /\ req[x] # Null /\ req[r].op = "google" /\ req[x].op = "google"
      /\ req[r].state = req[x].state => r = x

(* Sessions, links and states fit the accounts' present credentials. *)
CredentialsAgree == TypeOK /\ SessionsAreCurrent /\ OneGoodLink /\ StateIsWorthOne

(* A verified account is only in the hands of its mailbox, sessions carry the present *)
(* credentials, and links and states are good once (accounts/tokens.py, service.py).  *)
AccountsHold == VerifiedIsTheHolders /\ CredentialsAgree

(* A Google sign-in goes on from a session that is still live: one that was ended *)
(* while Google was asked opens no other.                                         *)
EndedStaysEnded ==
  [][\A r \in Request, s \in Session :
       /\ req[r] # Null /\ req[r].op = "google" /\ req'[r] = Null
       /\ session[s] = Null /\ session'[s] # Null
       => Live(SessionOf(r))]_vars

(* A Google subject keeps its account for good, and shares it with no other. *)
SubjectsStay ==
  [][\A i \in Subject :
       identity[i] # Null =>
         /\ identity'[i] = identity[i]
         /\ \A j \in Subject : identity'[j] = identity[i] => j = i]_vars

(* What was used up or has ended has no effect any more. *)
NothingComesBack == LinkIsUsedUp /\ EndedStaysEnded /\ SubjectsStay

-----------------------------------------------------------------------------
(* The inductive invariant: what the rows say of each other.  A password, a subject *)
(* and a sign-in in the making are the holder's where the account is verified, an   *)
(* account has one subject, and a request acts on a state that is used up.          *)
PasswordConsistent(e) ==
  user[e] # Null /\ user[e].verified => user[e].password \in {Null, Holder[e]}

SessionConsistent(s) ==
  session[s] # Null /\ session[s].user # Null =>
    /\ user[session[s].user] # Null
    /\ session[s].live =>
         /\ session[s].proofs = user[session[s].user].proofs
         /\ user[session[s].user].verified => session[s].person = Holder[session[s].user]

IdentityConsistent(i) ==
  identity[i] # Null =>
    /\ user[identity[i]] # Null /\ Account[i] = Holder[identity[i]]
    /\ \A j \in Subject : identity[j] = identity[i] => j = i

RequestConsistent(r) ==
  req[r] # Null =>
    /\ req[r].op = "login" => session[req[r].session] # Null
    /\ req[r].op = "proof" => token[req[r].token] # Null
    /\ req[r].op = "google" =>
         /\ state[req[r].state] # Null /\ ~state[req[r].state].live
         /\ req[r].user # Null =>
              user[req[r].user] # Null /\ session[SessionOf(r)].person = Holder[req[r].user]

IInv ==
  /\ TypeOK /\ OneGoodLink /\ StateIsWorthOne
  /\ \A e \in Email : PasswordConsistent(e)
  /\ \A s \in Session : SessionConsistent(s)
  /\ \A t \in Token : token[t] # Null => user[token[t].user] # Null
  /\ \A g \in State : state[g] # Null => session[state[g].session] # Null
  /\ \A i \in Subject : IdentityConsistent(i)
  /\ \A r \in Request : RequestConsistent(r)
=============================================================================
