-------------------------- MODULE OperatorSessions --------------------------
(***************************************************************************)
(* Operator sessions of internal/admin: sign-in, current and sign-out      *)
(* (session.go, ServeHTTP in server.go) on several replicas that load the  *)
(* credential file at their start, for tabs of browsers that share a       *)
(* cookie and keep a CSRF token of their own (web/src/api.ts).             *)
(*                                                                         *)
(* A session is named by its token; the CSRF token is a hash of it and is  *)
(* represented by it.  A credential is a version of the operator's token.  *)
(***************************************************************************)
EXTENDS FiniteSets

CONSTANTS
    Replicas,
    Tabs,
    Browsers,
    Home,         \* the browser a tab is in
    Operators,
    Versions,     \* of an operator's credential
    Tokens,       \* session tokens; each is drawn once
    Nil

ASSUME SessionsAssumption ==
    /\ Home \in [Tabs -> Browsers]
    /\ Operators # {} /\ Versions # {}
    /\ Nil \notin Tokens \cup Operators \cup Versions \cup Replicas

VARIABLES
    loaded,       \* Server.operators of each replica
    rows,         \* auth_admin_sessions
    drawn,        \* tokens drawn so far
    jar,          \* each browser's cookie
    page,         \* what a tab holds in memory
    req,          \* each tab's request
    ended         \* history: sessions signed out or replaced

sessionVars == <<loaded, rows, drawn, jar, page, req, ended>>

(* What loadCredentials accepts: at least one named operator.               *)
Files == {f \in [Operators -> Versions \cup {Nil}] : \E o \in Operators : f[o] # Nil}

Rows == [op : Operators, cred : Versions, live : BOOLEAN]
Pages == [token : Tokens \cup {Nil}, op : Operators \cup {Nil}]
NoPage == [token |-> Nil, op |-> Nil]
Kinds == {"login", "me", "write", "logout"}
Guarded == {"write", "logout"}   \* the methods that need a CSRF token
Requests == [stage : {"sent", "granted", "answer"}, kind : Kinds, replica : Replicas \cup {Nil},
             cookie : Tokens \cup {Nil}, csrf : Tokens \cup {Nil},
             op : Operators \cup {Nil}, cred : Versions \cup {Nil},
             shown : Operators \cup {Nil}]
NoReq == [stage |-> "none"]

SessionsTypeOK ==
    /\ loaded \in [Replicas -> Files]
    /\ rows \in [Tokens -> Rows \cup {Nil}]
    /\ drawn \subseteq Tokens /\ ended \subseteq drawn
    /\ \A k \in Tokens : rows[k] # Nil => k \in drawn \ ended
    /\ jar \in [Browsers -> drawn \cup {Nil}]
    /\ page \in [Tabs -> Pages]
    /\ req \in [Tabs -> Requests \cup {NoReq}]

SessionsInit ==
    /\ loaded \in [Replicas -> Files]
    /\ rows = [k \in Tokens |-> Nil]
    /\ drawn = {} /\ ended = {}
    /\ jar = [b \in Browsers |-> Nil]
    /\ page = [t \in Tabs |-> NoPage]
    /\ req = [t \in Tabs |-> NoReq]

----------------------------------------------------------------------------
(* A tab asks.  Its request carries the browser's cookie and its own CSRF   *)
(* token; shown is the operator the tab displays (history).                 *)
Ask(t, kind, o, v) ==
    /\ req[t] = NoReq
    /\ req' = [req EXCEPT ![t] =
                 [stage |-> "sent", kind |-> kind, replica |-> Nil, cookie |-> jar[Home[t]],
                  csrf |-> page[t].token, op |-> o, cred |-> v, shown |-> page[t].op]]
    /\ UNCHANGED <<loaded, rows, drawn, jar, page, ended>>

(* Mutant: the previous cookie's session stays.                             *)
RowsAfterLoginKept(old, new, row) ==
    [k \in Tokens |-> IF k = new THEN row
                      ELSE IF rows[k] # Nil /\ ~rows[k].live THEN Nil ELSE rows[k]]

(* login's transaction: expired rows and the previous session go.           *)
RowsAfterLogin(old, new, row) ==
    [k \in Tokens |-> IF k = new THEN row
                      ELSE IF k = old \/ (rows[k] # Nil /\ ~rows[k].live) THEN Nil ELSE rows[k]]

(* The request reaches a replica, its limiter allows it and the credential  *)
(* is the one loaded there.                                                 *)
Login(t, r) ==
    LET q == req[t]
    IN  /\ q.stage = "sent" /\ q.kind = "login"
        /\ q.cred = loaded[r][q.op]
        /\ \E k \in Tokens \ drawn :
              /\ drawn' = drawn \cup {k}
              /\ rows' = RowsAfterLogin(q.cookie, k, [op |-> q.op, cred |-> q.cred, live |-> TRUE])
              /\ req' = [req EXCEPT ![t].stage = "answer", ![t].csrf = k, ![t].cred = Nil]
        /\ ended' = ended \cup ({q.cookie} \ {Nil})
        /\ UNCHANGED <<loaded, jar, page>>

(* Mutant: it is enough that the operator is still configured.              *)
StillConfigured(r, row) == loaded[r][row.op] # Nil

CredentialMatches(r, row) == loaded[r][row.op] = row.cred

(* Mutant: any CSRF token of a session will do.                             *)
AnyCSRF(q) == q.kind \in Guarded => q.csrf # Nil

CSRFMatches(q) == q.kind \in Guarded => q.csrf = q.cookie

(* current, and for writes the CSRF check.  GET /session/me answers at once *)
(* with the cookie's CSRF token; the others go on.                          *)
Current(t, r) ==
    LET q == req[t]
    IN  /\ q.stage = "sent" /\ q.kind # "login"
        /\ q.cookie # Nil
        /\ LET row == rows[q.cookie]
           IN  /\ row # Nil /\ row.live
               /\ CredentialMatches(r, row)
               /\ CSRFMatches(q)
               /\ req' = IF q.kind = "me"
                          THEN [req EXCEPT ![t].stage = "answer", ![t].op = row.op]
                          ELSE [req EXCEPT ![t].stage = "granted", ![t].replica = r,
                                           ![t].op = row.op, ![t].cred = row.cred]
        /\ UNCHANGED <<loaded, rows, drawn, jar, page, ended>>

(* The handler of a granted write (see Registry); its answer changes        *)
(* neither the cookie nor what the tab holds.                               *)
Write(t) ==
    /\ req[t].stage = "granted" /\ req[t].kind = "write"
    /\ req' = [req EXCEPT ![t] = NoReq]
    /\ UNCHANGED <<loaded, rows, drawn, jar, page, ended>>

(* logout deletes the row; it may be gone already.                          *)
Logout(t) ==
    /\ req[t].stage = "granted" /\ req[t].kind = "logout"
    /\ rows' = [rows EXCEPT ![req[t].cookie] = Nil]
    /\ ended' = ended \cup {req[t].cookie}
    /\ req' = [req EXCEPT ![t].stage = "answer", ![t].replica = Nil, ![t].cred = Nil]
    /\ UNCHANGED <<loaded, drawn, jar, page>>

(* 401, 403, 429, a database error or a broken connection.                  *)
Fail(t) ==
    /\ req[t].stage \in {"sent", "granted"}
    /\ req' = [req EXCEPT ![t] = NoReq]
    /\ UNCHANGED <<loaded, rows, drawn, jar, page, ended>>

(* What an answer does to the cookie and to the tab.                        *)
CookieAfter(q, cookie) ==
    CASE q.kind = "login" -> q.csrf
      [] q.kind = "me" -> cookie
      [] q.kind = "logout" -> Nil

PageAfter(q) ==
    CASE q.kind = "login" -> [token |-> q.csrf, op |-> q.op]
      [] q.kind = "me" -> [token |-> q.cookie, op |-> q.op]
      [] q.kind = "logout" -> NoPage

Answer(t) ==
    /\ req[t].stage = "answer"
    /\ jar' = [jar EXCEPT ![Home[t]] = CookieAfter(req[t], @)]
    /\ page' = [page EXCEPT ![t] = PageAfter(req[t])]
    /\ req' = [req EXCEPT ![t] = NoReq]
    /\ UNCHANGED <<loaded, rows, drawn, ended>>

(* The answer is lost, or only its headers arrive before the tab reloads.   *)
AnswerLost(t) ==
    /\ req[t].stage = "answer"
    /\ \/ jar' = jar /\ page' = page
       \/ /\ jar' = [jar EXCEPT ![Home[t]] = CookieAfter(req[t], @)]
          /\ page' = [page EXCEPT ![t] = NoPage]
    /\ req' = [req EXCEPT ![t] = NoReq]
    /\ UNCHANGED <<loaded, rows, drawn, ended>>

----------------------------------------------------------------------------
(* expires_at passes.                                                       *)
Expire(k) ==
    /\ rows[k] # Nil
    /\ rows[k].live
    /\ rows' = [rows EXCEPT ![k].live = FALSE]
    /\ UNCHANGED <<loaded, drawn, jar, page, req, ended>>

(* A replica starts with the credential file as it is then, edited in any   *)
(* way since (loadCredentials in New); the requests it works on are lost.   *)
Restart(r) ==
    /\ \E f \in Files : loaded' = [loaded EXCEPT ![r] = f]
    /\ req' = [t \in Tabs |-> IF req[t] # NoReq /\ req[t].replica = r THEN NoReq ELSE req[t]]
    /\ UNCHANGED <<rows, drawn, jar, page, ended>>

TabStep(t) == Write(t) \/ Logout(t) \/ Fail(t) \/ Answer(t) \/ AnswerLost(t)

SessionsNext ==
    \/ \E t \in Tabs :
          \/ \E kind \in Kinds \ {"login"} : Ask(t, kind, Nil, Nil)
          \/ \E o \in Operators, v \in Versions : Ask(t, "login", o, v)
          \/ \E r \in Replicas : Login(t, r) \/ Current(t, r)
          \/ TabStep(t)
    \/ \E k \in Tokens : Expire(k)
    \/ \E r \in Replicas : Restart(r)

SessionsSpec == SessionsInit /\ [][SessionsNext]_sessionVars

----------------------------------------------------------------------------
(* Properties.                                                              *)

(* No write runs under a name the tab does not show: when another tab has   *)
(* signed in as somebody else, the shared cookie has changed under this one *)
(* and its CSRF token stops it (the audit names the operator of the cookie, *)
(* ServeHTTP).                                                              *)
NoMixedIdentity ==
    \A t \in Tabs : req[t].stage = "granted" => req[t].op = req[t].shown

(* A replica honours only sessions of credentials it has loaded, whichever  *)
(* replica they were made on and however often the file changed since       *)
(* ("Operator credentials changed", session.go).  The state keeps its shape.*)
CredentialInForce ==
    /\ SessionsTypeOK
    /\ \A t \in Tabs : req[t].stage = "granted" => loaded[req[t].replica][req[t].op] = req[t].cred

(* A session that was signed out or replaced by a new sign-in is never      *)
(* honoured again ("Reauthentication replaces the previous cookie's         *)
(* session", session.go), whatever answers were lost and tabs still hold    *)
(* its cookie.                                                              *)
EndedStaysEnded ==
    [][\A t \in Tabs : req[t].stage = "sent" /\ req'[t].stage = "granted" =>
          req[t].cookie \notin ended]_sessionVars

=============================================================================
