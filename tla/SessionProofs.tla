--------------------------- MODULE SessionProofs ---------------------------
(* The sessions that internal/admin keeps and revokes: those of operators    *)
(* (OperatorSessions) and those of users' browsers (BrowserSessions), for    *)
(* any replicas, tabs, credentials, tokens, jobs and emails.                 *)
EXTENDS OperatorSessions, BrowserSessions, TLAPS

----------------------------------------------------------------------------
(* Operator sessions.                                                       *)

(* Whoever holds token k believes it is o's; a session still kept agrees.   *)
Names(k, o) == k # Nil => k \in drawn /\ (rows[k] # Nil => rows[k].op = o)

(* What a request carries at each stage.                                    *)
SentOK(t) ==
    req[t].stage = "sent" =>
        /\ Names(req[t].csrf, req[t].shown)
        /\ req[t].kind = "login" => req[t].op \in Operators /\ req[t].cred \in Versions

GrantedOK(t) ==
    req[t].stage = "granted" =>
        /\ req[t].kind \in Guarded /\ req[t].cookie # Nil
        /\ req[t].replica \in Replicas /\ req[t].op \in Operators
        /\ req[t].op = req[t].shown
        /\ loaded[req[t].replica][req[t].op] = req[t].cred

AnswerOK(t) ==
    req[t].stage = "answer" =>
        /\ req[t].kind # "write"
        /\ req[t].kind = "login" => Names(req[t].csrf, req[t].op)
        /\ req[t].kind = "me" => Names(req[t].cookie, req[t].op)

RequestOK(t) ==
    req[t] # NoReq =>
        /\ req[t].cookie \in drawn \cup {Nil}
        /\ req[t].csrf \in drawn \cup {Nil}
        /\ SentOK(t) /\ GrantedOK(t) /\ AnswerOK(t)

PageOK(t) == Names(page[t].token, page[t].op)

SessionsInv ==
    /\ SessionsTypeOK
    /\ \A t \in Tabs : RequestOK(t) /\ PageOK(t)

(* Sessions are made from new tokens only, and keep their operator.         *)
RowsKept ==
    /\ drawn \subseteq drawn'
    /\ \A k \in drawn : rows'[k] # Nil => rows[k] # Nil /\ rows'[k].op = rows[k].op

(* A tab and a request that a step does not touch stay right.               *)
LEMMA TabKept ==
    ASSUME SessionsInv, RowsKept, NEW t \in Tabs, page'[t] = page[t]
    PROVE  PageOK(t)'
  BY DEF SessionsInv, PageOK, Names, RowsKept

LEMMA RequestKept ==
    ASSUME SessionsInv, RowsKept, NEW t \in Tabs, req'[t] = req[t],
           req[t].stage = "granted" => loaded'[req[t].replica] = loaded[req[t].replica]
    PROVE  RequestOK(t)'
  BY DEF SessionsInv, RequestOK, SentOK, GrantedOK, AnswerOK, Names, RowsKept

(* A step that only replaces one tab's request.                             *)
LEMMA RequestStep ==
    ASSUME SessionsInv, NEW t \in Tabs, NEW q \in Requests \cup {NoReq},
           req' = [req EXCEPT ![t] = q], UNCHANGED <<loaded, rows, drawn, jar, page, ended>>,
           RequestOK(t)'
    PROVE  SessionsInv'
  <1>1. SessionsTypeOK'
    BY DEF SessionsInv, SessionsTypeOK
  <1>2. RowsKept
    BY DEF RowsKept, SessionsInv, SessionsTypeOK
  <1>3. \A u \in Tabs : PageOK(u)'
    BY <1>2, TabKept
  <1>4. ASSUME NEW u \in Tabs, u # t PROVE RequestOK(u)'
    <2>1. req'[u] = req[u]
      BY <1>4 DEF SessionsInv, SessionsTypeOK
    <2> QED
      BY <1>2, <2>1, RequestKept
  <1> QED
    BY <1>1, <1>3, <1>4 DEF SessionsInv

LEMMA RequestEnds ==
    ASSUME SessionsInv, NEW t \in Tabs,
           req' = [req EXCEPT ![t] = NoReq], UNCHANGED <<loaded, rows, drawn, jar, page, ended>>
    PROVE  SessionsInv'
  <1>1. req'[t] = NoReq
    BY DEF SessionsInv, SessionsTypeOK
  <1>2. RequestOK(t)'
    BY <1>1 DEF RequestOK, NoReq
  <1> QED
    BY <1>2, RequestStep

LEMMA AskOK ==
    ASSUME SessionsInv, NEW t \in Tabs, NEW kind \in Kinds,
           NEW o \in Operators \cup {Nil}, NEW v \in Versions \cup {Nil},
           kind = "login" => o \in Operators /\ v \in Versions,
           Ask(t, kind, o, v)
    PROVE  SessionsInv'
  <1> DEFINE q == [stage |-> "sent", kind |-> kind, replica |-> Nil, cookie |-> jar[Home[t]],
                   csrf |-> page[t].token, op |-> o, cred |-> v, shown |-> page[t].op]
  <1>1. jar[Home[t]] \in drawn \cup {Nil} /\ drawn \subseteq Tokens /\ page[t] \in Pages
    BY SessionsAssumption DEF SessionsInv, SessionsTypeOK
  <1>2. q \in Requests
    BY <1>1 DEF Requests, Pages
  <1>3. req' = [req EXCEPT ![t] = q] /\ UNCHANGED <<loaded, rows, drawn, jar, page, ended>>
    BY DEF Ask
  <1>4. req'[t] = q
    BY <1>3 DEF SessionsInv, SessionsTypeOK
  <1>5. RequestOK(t)'
    BY <1>1, <1>3, <1>4 DEF RequestOK, SentOK, GrantedOK, AnswerOK, Names, SessionsInv, PageOK, Pages
  <1> QED
    BY <1>2, <1>3, <1>5, RequestStep


LEMMA LoginOK ==
    ASSUME SessionsInv, NEW t \in Tabs, NEW r \in Replicas, Login(t, r)
    PROVE  SessionsInv'
  <1> DEFINE q == req[t]
  <1>1. PICK k \in Tokens \ drawn :
          /\ drawn' = drawn \cup {k}
          /\ rows' = RowsAfterLogin(q.cookie, k, [op |-> q.op, cred |-> q.cred, live |-> TRUE])
          /\ req' = [req EXCEPT ![t].stage = "answer", ![t].csrf = k, ![t].cred = Nil]
    BY DEF Login
  <1> DEFINE p == [q EXCEPT !.stage = "answer", !.csrf = k, !.cred = Nil]
             row == [op |-> q.op, cred |-> q.cred, live |-> TRUE]
  <1>2. q \in Requests /\ q.stage = "sent" /\ q.kind = "login" /\ q # NoReq
    BY DEF Login, SessionsInv, SessionsTypeOK, NoReq
  <1>3. q.op \in Operators /\ q.cred \in Versions /\ q.cookie \in drawn \cup {Nil}
    BY <1>2 DEF SessionsInv, RequestOK, SentOK
  <1>4. row \in Rows
    BY <1>3 DEF Rows
  <1>5. /\ p \in Requests /\ p.stage = "answer" /\ p.csrf = k /\ p.kind = "login"
        /\ p.op = q.op /\ p.cookie = q.cookie
    BY <1>2 DEF Requests
  <1>6. req' = [req EXCEPT ![t] = p] /\ req'[t] = p
    BY <1>1 DEF SessionsInv, SessionsTypeOK
  <1>7. UNCHANGED <<loaded, jar, page>> /\ ended' = ended \cup ({q.cookie} \ {Nil})
    BY DEF Login
  <1>8. /\ rows' \in [Tokens -> Rows \cup {Nil}]
        /\ rows'[k] = row
        /\ \A i \in Tokens : i # k => rows'[i] = (IF i = q.cookie THEN Nil ELSE rows[i])
                                   \/ rows'[i] = Nil
    BY <1>1, <1>4 DEF RowsAfterLogin, SessionsInv, SessionsTypeOK
  <1>9. RowsKept
    BY <1>1, <1>8 DEF RowsKept, SessionsInv, SessionsTypeOK
  <1>10. k # q.cookie /\ k \notin ended
    BY <1>1, <1>3, SessionsAssumption DEF SessionsInv, SessionsTypeOK
  <1>11. SessionsTypeOK'
    <2>1. \A i \in Tokens : rows'[i] # Nil => i \in drawn' \ ended'
      BY <1>1, <1>7, <1>8, <1>10 DEF SessionsInv, SessionsTypeOK
    <2>2. ended' \subseteq drawn' /\ drawn' \subseteq Tokens
      BY <1>1, <1>3, <1>7 DEF SessionsInv, SessionsTypeOK
    <2>3. req' \in [Tabs -> Requests \cup {NoReq}] /\ jar' \in [Browsers -> drawn' \cup {Nil}]
      BY <1>1, <1>5, <1>6, <1>7 DEF SessionsInv, SessionsTypeOK
    <2> QED
      BY <1>7, <1>8, <2>1, <2>2, <2>3 DEF SessionsInv, SessionsTypeOK
  <1>12. RequestOK(t)'
    <2>1. row.op = q.op /\ rows'[k].op = q.op
      BY <1>8
    <2> HIDE DEF p
    <2>2. k \in drawn' /\ p.csrf \in drawn' /\ p.cookie \in drawn' \cup {Nil}
      BY <1>1, <1>3, <1>5
    <2> QED
      BY <1>5, <1>6, <2>1, <2>2 DEF RequestOK, SentOK, GrantedOK, AnswerOK, Names
  <1>13. ASSUME NEW u \in Tabs PROVE PageOK(u)' /\ (u # t => RequestOK(u)')
    <2>1. page'[u] = page[u] /\ (u # t => req'[u] = req[u]) /\ loaded' = loaded
      BY <1>6, <1>7 DEF SessionsInv, SessionsTypeOK
    <2> QED
      BY <1>9, <2>1, TabKept, RequestKept
  <1> QED
    BY <1>11, <1>12, <1>13 DEF SessionsInv

LEMMA CurrentOK ==
    ASSUME SessionsInv, NEW t \in Tabs, NEW r \in Replicas, Current(t, r)
    PROVE  SessionsInv'
  <1> DEFINE q == req[t]
             row == rows[q.cookie]
             me == [q EXCEPT !.stage = "answer", !.op = row.op]
             go == [q EXCEPT !.stage = "granted", !.replica = r, !.op = row.op, !.cred = row.cred]
  <1>1. q \in Requests /\ q.stage = "sent" /\ q.kind # "login" /\ q # NoReq
    BY DEF Current, SessionsInv, SessionsTypeOK, NoReq
  <1>2. q.cookie \in drawn /\ q.cookie # Nil /\ row # Nil /\ row \in Rows
    BY <1>1 DEF Current, SessionsInv, RequestOK, SessionsTypeOK
  <1>3. row.op \in Operators /\ row.cred \in Versions
    BY <1>2 DEF Rows
  <1>4. q.csrf \in drawn \cup {Nil} /\ Names(q.csrf, q.shown)
    BY <1>1 DEF SessionsInv, RequestOK, SentOK
  <1>5. UNCHANGED <<loaded, rows, drawn, jar, page, ended>>
    BY DEF Current
  <1>6. loaded[r][row.op] = row.cred
    BY DEF Current, CredentialMatches
  <1>7. CASE q.kind = "me"
    <2>1. req' = [req EXCEPT ![t] = me] /\ req'[t] = me
      BY <1>7 DEF Current, SessionsInv, SessionsTypeOK
    <2>2. /\ me \in Requests /\ me.stage = "answer" /\ me.kind = "me" /\ me.op = row.op
          /\ me.cookie = q.cookie /\ me.csrf = q.csrf
      BY <1>1, <1>3, <1>7 DEF Requests
    <2> HIDE DEF me
    <2>3. RequestOK(t)'
      BY <1>2, <1>4, <1>5, <2>1, <2>2 DEF RequestOK, SentOK, GrantedOK, AnswerOK, Names
    <2> QED
      BY <1>5, <2>1, <2>2, <2>3, RequestStep
  <1>8. CASE q.kind # "me"
    <2>1. req' = [req EXCEPT ![t] = go] /\ req'[t] = go
      BY <1>8 DEF Current, SessionsInv, SessionsTypeOK
    <2>2. /\ go \in Requests /\ go.stage = "granted" /\ go.kind = q.kind /\ go.op = row.op
          /\ go.cookie = q.cookie /\ go.csrf = q.csrf /\ go.shown = q.shown
          /\ go.replica = r /\ go.cred = row.cred
      BY <1>1, <1>3, <1>8 DEF Requests
    <2>3. q.kind \in Guarded
      BY <1>1, <1>8 DEF Requests, Kinds, Guarded
    <2>4. q.csrf = q.cookie
      BY <2>3 DEF Current, CSRFMatches
    <2>5. row.op = q.shown
      BY <1>2, <1>4, <2>4 DEF Names
    <2> HIDE DEF go
    <2>6. RequestOK(t)'
      BY <1>2, <1>3, <1>4, <1>5, <1>6, <2>1, <2>2, <2>3, <2>5
         DEF RequestOK, SentOK, GrantedOK, AnswerOK
    <2> QED
      BY <1>5, <2>1, <2>2, <2>6, RequestStep
  <1> QED
    BY <1>7, <1>8

LEMMA LogoutOK ==
    ASSUME SessionsInv, NEW t \in Tabs, Logout(t)
    PROVE  SessionsInv'
  <1> DEFINE q == req[t]
             p == [q EXCEPT !.stage = "answer", !.replica = Nil, !.cred = Nil]
  <1>1. q \in Requests /\ q.stage = "granted" /\ q.kind = "logout" /\ q # NoReq
    BY DEF Logout, SessionsInv, SessionsTypeOK, NoReq
  <1>2. q.cookie \in drawn /\ drawn \subseteq Tokens /\ q.csrf \in drawn \cup {Nil}
    BY <1>1 DEF SessionsInv, SessionsTypeOK, RequestOK, GrantedOK
  <1>3. req' = [req EXCEPT ![t] = p] /\ req'[t] = p
    BY DEF Logout, SessionsInv, SessionsTypeOK
  <1>4. /\ p \in Requests /\ p.stage = "answer" /\ p.kind = "logout"
        /\ p.cookie = q.cookie /\ p.csrf = q.csrf
    BY <1>1 DEF Requests
  <1>5. /\ rows' = [rows EXCEPT ![q.cookie] = Nil] /\ ended' = ended \cup {q.cookie}
        /\ UNCHANGED <<loaded, drawn, jar, page>>
    BY DEF Logout
  <1>6. SessionsTypeOK' /\ RowsKept
    BY <1>2, <1>3, <1>4, <1>5 DEF SessionsInv, SessionsTypeOK, RowsKept
  <1> HIDE DEF p
  <1>7. RequestOK(t)'
    BY <1>2, <1>3, <1>4, <1>5 DEF RequestOK, SentOK, GrantedOK, AnswerOK
  <1>8. ASSUME NEW u \in Tabs PROVE PageOK(u)' /\ (u # t => RequestOK(u)')
    <2>1. page'[u] = page[u] /\ (u # t => req'[u] = req[u]) /\ loaded' = loaded
      BY <1>3, <1>5 DEF SessionsInv, SessionsTypeOK
    <2> QED
      BY <1>6, <2>1, TabKept, RequestKept
  <1> QED
    BY <1>6, <1>7, <1>8 DEF SessionsInv

(* An answer gives the tab a page that names the cookie's operator.         *)
LEMMA AnswerFacts ==
    ASSUME SessionsInv, NEW t \in Tabs, req[t].stage = "answer"
    PROVE  /\ PageAfter(req[t]) \in Pages
           /\ Names(PageAfter(req[t]).token, PageAfter(req[t]).op)
           /\ \A cookie \in drawn \cup {Nil} : CookieAfter(req[t], cookie) \in drawn \cup {Nil}
  <1> DEFINE q == req[t]
  <1>1. q \in Requests /\ q # NoReq
    BY DEF SessionsInv, SessionsTypeOK, NoReq
  <1>2. q.kind \in {"login", "me", "logout"} /\ RequestOK(t)
    BY <1>1 DEF SessionsInv, RequestOK, AnswerOK, Requests, Kinds
  <1>3. CASE q.kind = "login"
    BY <1>1, <1>2, <1>3 DEF PageAfter, CookieAfter, RequestOK, AnswerOK, Pages, Requests
  <1>4. CASE q.kind = "me"
    BY <1>1, <1>2, <1>4 DEF PageAfter, CookieAfter, RequestOK, AnswerOK, Pages, Requests
  <1>5. CASE q.kind = "logout"
    BY <1>1, <1>2, <1>5 DEF PageAfter, CookieAfter, NoPage, Names, Pages
  <1> QED
    BY <1>2, <1>3, <1>4, <1>5

(* The tab's exchange ends with the given page.                             *)
LEMMA TabStepOK ==
    ASSUME SessionsInv, NEW t \in Tabs, NEW pg \in Pages, Names(pg.token, pg.op),
           NEW cookies \in [Browsers -> drawn \cup {Nil}],
           jar' = cookies, page' = [page EXCEPT ![t] = pg],
           req' = [req EXCEPT ![t] = NoReq], UNCHANGED <<loaded, rows, drawn, ended>>
    PROVE  SessionsInv'
  <1>1. SessionsTypeOK' /\ RowsKept
    BY DEF SessionsInv, SessionsTypeOK, RowsKept
  <1>2. req'[t] = NoReq /\ page'[t] = pg
    BY DEF SessionsInv, SessionsTypeOK
  <1>3. RequestOK(t)' /\ PageOK(t)'
    BY <1>2 DEF RequestOK, PageOK, Names
  <1>4. ASSUME NEW u \in Tabs, u # t PROVE RequestOK(u)' /\ PageOK(u)'
    <2>1. req'[u] = req[u] /\ page'[u] = page[u]
      BY <1>4 DEF SessionsInv, SessionsTypeOK
    <2> QED
      BY <1>1, <2>1, TabKept, RequestKept
  <1> QED
    BY <1>1, <1>3, <1>4 DEF SessionsInv

LEMMA AnswerStepOK ==
    ASSUME SessionsInv, NEW t \in Tabs, Answer(t) \/ AnswerLost(t)
    PROVE  SessionsInv'
  <1> DEFINE cookies == [jar EXCEPT ![Home[t]] = CookieAfter(req[t], @)]
  <1>1. req[t].stage = "answer"
    BY DEF Answer, AnswerLost
  <1>2. cookies \in [Browsers -> drawn \cup {Nil}]
    BY <1>1, AnswerFacts, SessionsAssumption DEF SessionsInv, SessionsTypeOK
  <1>3. CASE Answer(t)
    BY <1>1, <1>2, <1>3, AnswerFacts, TabStepOK DEF Answer
  <1>4. CASE AnswerLost(t) /\ jar' = jar /\ page' = page
    BY <1>4, RequestEnds DEF AnswerLost
  <1>5. CASE AnswerLost(t) /\ ~(jar' = jar /\ page' = page)
    <2>1. NoPage \in Pages /\ Names(NoPage.token, NoPage.op)
      BY DEF NoPage, Pages, Names
    <2> QED
      BY <1>2, <1>5, <2>1, TabStepOK DEF AnswerLost
  <1> QED
    BY <1>3, <1>4, <1>5

LEMMA ExpireOK ==
    ASSUME SessionsInv, NEW k \in Tokens, Expire(k)
    PROVE  SessionsInv'
  <1>1. rows[k] \in Rows /\ rows' = [rows EXCEPT ![k] = [rows[k] EXCEPT !.live = FALSE]]
    BY DEF Expire, SessionsInv, SessionsTypeOK
  <1>2. /\ [rows[k] EXCEPT !.live = FALSE] \in Rows
        /\ [rows[k] EXCEPT !.live = FALSE].op = rows[k].op
    BY <1>1 DEF Rows
  <1>3. UNCHANGED <<loaded, drawn, jar, page, req, ended>> /\ rows[k] # Nil
    BY DEF Expire
  <1>4. SessionsTypeOK' /\ RowsKept
    BY <1>1, <1>2, <1>3 DEF SessionsInv, SessionsTypeOK, RowsKept
  <1>5. \A u \in Tabs : RequestOK(u)' /\ PageOK(u)'
    BY <1>3, <1>4, TabKept, RequestKept
  <1> QED
    BY <1>4, <1>5 DEF SessionsInv

LEMMA RestartOK ==
    ASSUME SessionsInv, NEW r \in Replicas, Restart(r)
    PROVE  SessionsInv'
  <1>1. PICK f \in Files : loaded' = [loaded EXCEPT ![r] = f]
    BY DEF Restart
  <1>2. /\ req' = [t \in Tabs |-> IF req[t] # NoReq /\ req[t].replica = r THEN NoReq ELSE req[t]]
        /\ UNCHANGED <<rows, drawn, jar, page, ended>>
    BY DEF Restart
  <1>3. SessionsTypeOK' /\ RowsKept
    BY <1>1, <1>2 DEF SessionsInv, SessionsTypeOK, RowsKept
  <1>4. ASSUME NEW u \in Tabs PROVE RequestOK(u)' /\ PageOK(u)'
    <2>1. PageOK(u)'
      BY <1>2, <1>3, TabKept
    <2>2. CASE req'[u] = NoReq
      BY <2>1, <2>2 DEF RequestOK, NoReq
    <2>3. CASE req'[u] # NoReq
      <3>1. req'[u] = req[u] /\ req[u].replica # r /\ req[u] # NoReq
        BY <1>2, <2>3
      <3>2. req[u].stage = "granted" => req[u].replica \in Replicas
        BY <3>1 DEF SessionsInv, RequestOK, GrantedOK
      <3>3. req[u].stage = "granted" => loaded'[req[u].replica] = loaded[req[u].replica]
        BY <1>1, <3>1, <3>2 DEF SessionsInv, SessionsTypeOK
      <3> QED
        BY <1>3, <2>1, <3>1, <3>3, RequestKept
    <2> QED
      BY <2>2, <2>3
  <1> QED
    BY <1>3, <1>4 DEF SessionsInv

----------------------------------------------------------------------------
LEMMA SessionsInitOK == SessionsInit => SessionsInv
  <1> SUFFICES ASSUME SessionsInit PROVE SessionsInv
    OBVIOUS
  <1>1. NoPage \in Pages /\ NoPage.token = Nil
    BY DEF NoPage, Pages
  <1>2. SessionsTypeOK
    BY <1>1 DEF SessionsInit, SessionsTypeOK
  <1>3. \A t \in Tabs : RequestOK(t) /\ PageOK(t)
    BY <1>1 DEF SessionsInit, RequestOK, PageOK, Names
  <1> QED
    BY <1>2, <1>3 DEF SessionsInv

LEMMA SessionsStepOK ==
    ASSUME SessionsInv, [SessionsNext]_sessionVars
    PROVE  SessionsInv'
  <1>1. ASSUME NEW t \in Tabs, NEW kind \in Kinds \ {"login"}, Ask(t, kind, Nil, Nil)
        PROVE  SessionsInv'
    BY <1>1, AskOK
  <1>2. ASSUME NEW t \in Tabs, NEW o \in Operators, NEW v \in Versions, Ask(t, "login", o, v)
        PROVE  SessionsInv'
    BY <1>2, AskOK DEF Kinds
  <1>3. ASSUME NEW t \in Tabs, Write(t) \/ Fail(t) PROVE SessionsInv'
    BY <1>3, RequestEnds DEF Write, Fail
  <1>4. CASE UNCHANGED sessionVars
    <2>1. SessionsTypeOK' /\ RowsKept
      BY <1>4 DEF sessionVars, SessionsInv, SessionsTypeOK, RowsKept
    <2>2. \A t \in Tabs : RequestOK(t)' /\ PageOK(t)'
      BY <1>4, <2>1, TabKept, RequestKept DEF sessionVars
    <2> QED
      BY <2>1, <2>2 DEF SessionsInv
  <1> QED
    BY <1>1, <1>2, <1>3, <1>4, LoginOK, CurrentOK, LogoutOK, AnswerStepOK, ExpireOK, RestartOK
       DEF SessionsNext, TabStep

LEMMA SessionsInvHolds == SessionsSpec => []SessionsInv
  BY SessionsInitOK, SessionsStepOK, PTL DEF SessionsSpec

(* A request that is granted, and so a write, runs under the operator whom   *)
(* the tab shows, whatever other tabs did to the shared cookie since.        *)
THEOREM NoMixedIdentityHolds == SessionsSpec => []NoMixedIdentity
  <1>1. SessionsInv => NoMixedIdentity
    BY DEF SessionsInv, RequestOK, GrantedOK, NoMixedIdentity, NoReq
  <1> QED
    BY <1>1, SessionsInvHolds, PTL

(* A replica grants requests only to sessions of the credentials it loaded,  *)
(* and stops working on them when it starts with others.                     *)
THEOREM CredentialInForceHolds == SessionsSpec => []CredentialInForce
  <1>1. SessionsInv => CredentialInForce
    BY DEF SessionsInv, RequestOK, GrantedOK, CredentialInForce, NoReq
  <1> QED
    BY <1>1, SessionsInvHolds, PTL

(* current grants no request to a session that was signed out or replaced   *)
(* by a login, on any replica.                                              *)
THEOREM EndedStaysEndedHolds == SessionsSpec => EndedStaysEnded
  <1>1. ASSUME SessionsInv, SessionsNext, NEW t \in Tabs,
               req[t].stage = "sent", req'[t].stage = "granted"
        PROVE  req[t].cookie \notin ended
    <2>1. PICK r \in Replicas : Current(t, r)
      <3>1. ASSUME NEW u \in Tabs, NEW q, q.stage # "granted", req' = [req EXCEPT ![u] = q]
            PROVE  FALSE
        BY <1>1, <3>1 DEF SessionsInv, SessionsTypeOK
      <3>2. ASSUME NEW u \in Tabs, NEW kind, NEW o, NEW v, Ask(u, kind, o, v) PROVE FALSE
        BY <3>1, <3>2 DEF Ask
      <3>3. ASSUME NEW u \in Tabs, NEW r \in Replicas, Login(u, r) PROVE FALSE
        <4>1. PICK k : req' = [req EXCEPT ![u].stage = "answer", ![u].csrf = k, ![u].cred = Nil]
          BY <3>3 DEF Login
        <4>2. req[u] \in Requests
          BY <1>1, <3>3 DEF Login, SessionsInv, SessionsTypeOK, NoReq
        <4> DEFINE q == [req[u] EXCEPT !.stage = "answer", !.csrf = k, !.cred = Nil]
        <4>3. q.stage = "answer"
          BY <4>2 DEF Requests
        <4>4. req' = [req EXCEPT ![u] = q]
          BY <4>1
        <4> HIDE DEF q
        <4> QED
          BY <3>1, <4>3, <4>4
      <3>4. ASSUME NEW u \in Tabs, TabStep(u) PROVE FALSE
        <4>1. NoReq.stage = "none"
          BY DEF NoReq
        <4>2. CASE Logout(u)
          <5>1. req[u] \in Requests
            BY <1>1, <4>2 DEF Logout, SessionsInv, SessionsTypeOK, NoReq
          <5> DEFINE q == [req[u] EXCEPT !.stage = "answer", !.replica = Nil, !.cred = Nil]
          <5>2. q.stage = "answer"
            BY <5>1 DEF Requests
          <5>3. req' = [req EXCEPT ![u] = q]
            BY <4>2 DEF Logout
          <5> HIDE DEF q
          <5> QED
            BY <3>1, <5>2, <5>3
        <4> QED
          BY <3>1, <3>4, <4>1, <4>2 DEF TabStep, Write, Fail, Answer, AnswerLost
      <3>5. ASSUME NEW r \in Replicas, Restart(r) PROVE FALSE
        BY <1>1, <3>5 DEF Restart, NoReq
      <3>6. ASSUME NEW k \in Tokens, Expire(k) PROVE FALSE
        BY <1>1, <3>6 DEF Expire
      <3>7. PICK u \in Tabs, r \in Replicas : Current(u, r)
        BY <1>1, <3>2, <3>3, <3>4, <3>5, <3>6 DEF SessionsNext
      <3>8. u = t
        BY <1>1, <3>7 DEF Current, SessionsInv, SessionsTypeOK
      <3> QED
        BY <3>7, <3>8
    <2>2. req[t] # NoReq
      BY <1>1 DEF NoReq
    <2>3. req[t].cookie \in Tokens /\ rows[req[t].cookie] # Nil
      BY <1>1, <2>1, <2>2 DEF Current, SessionsInv, SessionsTypeOK, RequestOK
    <2> QED
      BY <1>1, <2>3 DEF SessionsInv, SessionsTypeOK
  <1>2. SessionsInv /\ [SessionsNext]_sessionVars =>
          [\A t \in Tabs : req[t].stage = "sent" /\ req'[t].stage = "granted" =>
              req[t].cookie \notin ended]_sessionVars
    BY <1>1
  <1> QED
    BY <1>2, SessionsInvHolds, PTL DEF SessionsSpec, EndedStaysEnded

----------------------------------------------------------------------------
(* Browser sessions.                                                        *)

JobSet == [stage : {"new", "read", "requested", "revoked", "done", "failed"},
           user : Users \cup {None}, email : Emails \cup {None},
           target : Sessions \cup {AllOfThem, None}]

(* What the request of job j is about is gone.                              *)
Gone(j) == \A s \in seen[j] : job[j].target \in {s, AllOfThem} => owner[s] = None

(* A session seen when the email was read has had no other owner since.     *)
SeenOK(j) == \A s \in seen[j] : owner[s] \in {job[j].email, None}

(* The request row is there before Redis is touched, and the completion row *)
(* is of a job that has revoked.                                            *)
StageOK(j) ==
    /\ job[j].stage \in {"read", "requested", "revoked", "done"} => job[j].user \in Users
    /\ job[j].stage \in {"requested", "revoked"} =>
          [job |-> j, user |-> job[j].user, what |-> "requested"] \in audit
    /\ job[j].stage = "revoked" => Gone(j)

CompletedOK(row) ==
    row.what = "completed" => job[row.job].stage \in {"done", "failed"} /\ Gone(row.job)

BrowserInv ==
    /\ BrowserTypeOK
    /\ \A j \in Jobs : SeenOK(j) /\ StageOK(j)
    /\ \A row \in audit : CompletedOK(row)

(* Redis only ever takes sessions away from those who have them.            *)
OwnersKept == \A s \in made : owner'[s] \in {owner[s], None}

LEMMA OthersKept ==
    ASSUME BrowserInv, OwnersKept, NEW j \in Jobs,
           job'[j] = job[j], seen'[j] = seen[j], audit \subseteq audit'
    PROVE  SeenOK(j)' /\ StageOK(j)' /\ (Gone(j) => Gone(j)')
  <1>1. seen[j] \subseteq made
    BY DEF BrowserInv, BrowserTypeOK
  <1>2. Gone(j) => Gone(j)'
    BY <1>1 DEF Gone, OwnersKept
  <1>3. SeenOK(j)'
    BY <1>1 DEF BrowserInv, SeenOK, OwnersKept
  <1>4. StageOK(j)'
    BY <1>2 DEF BrowserInv, StageOK
  <1> QED
    BY <1>2, <1>3, <1>4

(* A step of job j that leaves its request as it was read.                  *)
LEMMA JobStep ==
    ASSUME BrowserInv, NEW j \in Jobs, NEW q \in JobSet,
           job' = [job EXCEPT ![j] = q],
           owner' \in [Sessions -> Emails \cup {None}],
           \A s \in Sessions : owner'[s] \in {owner[s], None},
           q.user = job[j].user, q.email = job[j].email, q.target = job[j].target,
           q.stage \notin {"new", "failed"} => q.email # None,
           audit \subseteq audit', audit' \subseteq AuditRows,
           \A row \in audit' \ audit : row.job = j,
           job[j].stage \in {"done", "failed"} => q.stage \in {"done", "failed"},
           UNCHANGED <<email, made, seen>>,
           StageOK(j)',
           \A row \in audit' \ audit : CompletedOK(row)'
    PROVE  BrowserInv'
  <1>1. job \in [Jobs -> JobSet] /\ OwnersKept
    BY DEF BrowserInv, BrowserTypeOK, JobSet, OwnersKept
  <1>2. job'[j] = q /\ \A i \in Jobs : i # j => job'[i] = job[i]
    BY <1>1
  <1>3. BrowserTypeOK'
    <2>1. job' \in [Jobs -> JobSet]
      BY <1>1
    <2>2. \A i \in Jobs : job'[i].stage \notin {"new", "failed"} => job'[i].email # None
      BY <1>2 DEF BrowserInv, BrowserTypeOK
    <2>3. \A s \in Sessions : owner'[s] # None => s \in made'
      BY DEF BrowserInv, BrowserTypeOK, OwnersKept
    <2> QED
      BY <2>1, <2>2, <2>3 DEF BrowserInv, BrowserTypeOK, JobSet
  <1>4. SeenOK(j)' /\ (Gone(j) => Gone(j)')
    BY <1>1, <1>2 DEF BrowserInv, BrowserTypeOK, SeenOK, Gone, OwnersKept
  <1>5. \A i \in Jobs : i # j => SeenOK(i)' /\ StageOK(i)' /\ (Gone(i) => Gone(i)')
    BY <1>1, <1>2, OthersKept
  <1>6. ASSUME NEW row \in audit PROVE CompletedOK(row)'
    <2>1. CompletedOK(row) /\ row.job \in Jobs
      BY DEF BrowserInv, BrowserTypeOK, AuditRows
    <2> QED
      BY <1>2, <1>4, <1>5, <2>1 DEF CompletedOK
  <1> QED
    BY <1>3, <1>4, <1>5, <1>6 DEF BrowserInv


LEMMA ReadEmailOK ==
    ASSUME BrowserInv, NEW j \in Jobs, NEW u \in Users,
           NEW target \in Sessions \cup {AllOfThem}, ReadEmail(j, u, target)
    PROVE  BrowserInv'
  <1> DEFINE q == [stage |-> "read", user |-> u, email |-> email[u], target |-> target]
  <1>1. /\ job[j].stage = "new" /\ email[u] # None /\ email[u] \in Emails
        /\ job' = [job EXCEPT ![j] = q]
        /\ seen' = [seen EXCEPT ![j] = SessionsOf(email[u])]
        /\ UNCHANGED <<email, owner, made, audit>>
    BY DEF ReadEmail, BrowserInv, BrowserTypeOK
  <1>2. q \in JobSet /\ SessionsOf(email[u]) \subseteq made
    BY <1>1 DEF JobSet, SessionsOf, BrowserInv, BrowserTypeOK
  <1>3. job \in [Jobs -> JobSet] /\ seen \in [Jobs -> SUBSET made]
    BY DEF BrowserInv, BrowserTypeOK, JobSet
  <1>4. /\ job'[j] = q /\ seen'[j] = SessionsOf(email[u])
        /\ \A i \in Jobs : i # j => job'[i] = job[i] /\ seen'[i] = seen[i]
    BY <1>1, <1>3
  <1>5. BrowserTypeOK'
    <2>1. job' \in [Jobs -> JobSet] /\ seen' \in [Jobs -> SUBSET made]
      BY <1>1, <1>2, <1>3
    <2>2. \A i \in Jobs : job'[i].stage \notin {"new", "failed"} => job'[i].email # None
      BY <1>1, <1>4 DEF BrowserInv, BrowserTypeOK
    <2> QED
      BY <1>1, <2>1, <2>2 DEF BrowserInv, BrowserTypeOK, JobSet
  <1>6. SeenOK(j)' /\ StageOK(j)'
    BY <1>1, <1>4 DEF SeenOK, StageOK, SessionsOf
  <1>7. ASSUME NEW i \in Jobs, i # j PROVE SeenOK(i)' /\ StageOK(i)' /\ (Gone(i) => Gone(i)')
    <2>1. OwnersKept
      BY <1>1 DEF OwnersKept
    <2> QED
      BY <1>1, <1>4, <1>7, <2>1, OthersKept
  <1>8. ASSUME NEW row \in audit PROVE CompletedOK(row)'
    <2>1. CompletedOK(row) /\ row.job \in Jobs
      BY DEF BrowserInv, BrowserTypeOK, AuditRows
    <2> QED
      BY <1>1, <1>4, <1>7, <2>1 DEF CompletedOK
  <1> QED
    BY <1>1, <1>5, <1>6, <1>7, <1>8 DEF BrowserInv

(* The stage a job's step sets, and nothing else of the job.                *)
LEMMA StageSet ==
    ASSUME BrowserInv, NEW j \in Jobs, NEW to \in {"requested", "revoked", "done", "failed"},
           job' = [job EXCEPT ![j].stage = to]
    PROVE  \E q \in JobSet :
              /\ job' = [job EXCEPT ![j] = q] /\ job'[j] = q /\ q.stage = to
              /\ q.user = job[j].user /\ q.email = job[j].email /\ q.target = job[j].target
  <1> DEFINE q == [job[j] EXCEPT !.stage = to]
  <1>1. job \in [Jobs -> JobSet]
    BY DEF BrowserInv, BrowserTypeOK, JobSet
  <1>2. /\ q \in JobSet /\ q.stage = to
        /\ q.user = job[j].user /\ q.email = job[j].email /\ q.target = job[j].target
    BY <1>1 DEF JobSet
  <1>3. job' = [job EXCEPT ![j] = q] /\ job'[j] = q
    BY <1>1
  <1> QED
    BY <1>2, <1>3

LEMMA RejectOK ==
    ASSUME BrowserInv, NEW j \in Jobs, Reject(j)
    PROVE  BrowserInv'
  <1>1. PICK q \in JobSet :
              /\ job' = [job EXCEPT ![j] = q] /\ job'[j] = q /\ q.stage = "failed"
              /\ q.user = job[j].user /\ q.email = job[j].email /\ q.target = job[j].target
    BY StageSet DEF Reject
  <1>2. UNCHANGED <<email, owner, made, audit, seen>>
    BY DEF Reject
  <1>3. StageOK(j)'
    BY <1>1 DEF StageOK
  <1>4. owner \in [Sessions -> Emails \cup {None}] /\ audit \subseteq AuditRows
    BY DEF BrowserInv, BrowserTypeOK
  <1> QED
    BY <1>1, <1>2, <1>3, <1>4, JobStep

LEMMA AuditOK ==
    ASSUME BrowserInv, NEW j \in Jobs, Requested(j) \/ Completed(j)
    PROVE  BrowserInv'
  <1>1. PICK from \in {"read", "revoked"}, what \in {"requested", "completed"},
             to \in {"requested", "done"} :
          /\ SessionAudit(j, from, what, to)
          /\ from = "read" <=> what = "requested"
          /\ from = "read" <=> to = "requested"
    <2>1. CASE Requested(j)
      BY <2>1 DEF Requested
    <2>2. CASE Completed(j)
      BY <2>2 DEF Completed
    <2> QED
      BY <2>1, <2>2
  <1>0. PICK row : row = [job |-> j, user |-> job[j].user, what |-> what]
    OBVIOUS
  <1>2. PICK stage \in {to, "failed"} :
          /\ job[j].stage = from
          /\ job' = [job EXCEPT ![j].stage = stage]
          /\ audit' \in {audit, audit \cup {row}}
          /\ stage = to => audit' = audit \cup {row}
          /\ UNCHANGED <<email, owner, made, seen>>
    BY <1>0, <1>1 DEF SessionAudit
  <1>3. PICK q \in JobSet :
              /\ job' = [job EXCEPT ![j] = q] /\ job'[j] = q /\ q.stage = stage
              /\ q.user = job[j].user /\ q.email = job[j].email /\ q.target = job[j].target
    <2>1. stage \in {"requested", "revoked", "done", "failed"}
      BY <1>2
    <2>2. job' = [job EXCEPT ![j].stage = stage]
      BY <1>2
    <2> QED
      BY <2>1, <2>2, StageSet
  <1>4. StageOK(j) /\ job[j].email # None
    BY <1>1, <1>2 DEF BrowserInv, BrowserTypeOK
  <1>5. job[j].user \in Users
    BY <1>1, <1>2, <1>4 DEF StageOK
  <1>6. row \in AuditRows /\ row.job = j /\ row.what = what
    BY <1>0, <1>5 DEF AuditRows
  <1>7. owner \in [Sessions -> Emails \cup {None}] /\ audit \subseteq AuditRows
    BY DEF BrowserInv, BrowserTypeOK
  <1>8. StageOK(j)'
    BY <1>0, <1>1, <1>2, <1>3, <1>5 DEF StageOK
  <1>9. CompletedOK(row)'
    <2>1. CASE from = "read"
      BY <1>1, <1>6, <2>1 DEF CompletedOK
    <2>2. CASE from = "revoked"
      <3>1. Gone(j) /\ to = "done"
        BY <1>1, <1>2, <1>4, <2>2 DEF StageOK
      <3>2. Gone(j)'
        BY <1>2, <1>3, <3>1 DEF Gone
      <3> QED
        BY <1>2, <1>3, <1>6, <3>1, <3>2 DEF CompletedOK
    <2> QED
      BY <2>1, <2>2
  <1>10. /\ audit \subseteq audit' /\ audit' \subseteq AuditRows
         /\ \A r \in audit' \ audit : r = row
    BY <1>2, <1>6, <1>7
  <1>11. \A r \in audit' \ audit : r.job = j /\ CompletedOK(r)'
    BY <1>6, <1>9, <1>10
  <1>12. job[j].stage \notin {"done", "failed"}
    BY <1>1, <1>2
  <1> QED
    BY <1>2, <1>3, <1>4, <1>7, <1>8, <1>10, <1>11, <1>12, JobStep, ZenonT(60)

LEMMA RevokeOK ==
    ASSUME BrowserInv, NEW j \in Jobs, Revoke(j)
    PROVE  BrowserInv'
  <1> DEFINE without == [s \in Sessions |-> IF s \in Revocable(j) THEN None ELSE owner[s]]
  <1>1. PICK stage \in {"revoked", "failed"} :
          /\ job[j].stage = "requested"
          /\ job' = [job EXCEPT ![j].stage = stage]
          /\ owner' \in {owner, without}
          /\ stage = "revoked" => owner' = without
          /\ UNCHANGED <<email, made, audit, seen>>
    BY DEF Revoke
  <1>2. PICK q \in JobSet :
              /\ job' = [job EXCEPT ![j] = q] /\ job'[j] = q /\ q.stage = stage
              /\ q.user = job[j].user /\ q.email = job[j].email /\ q.target = job[j].target
    <2>1. stage \in {"requested", "revoked", "done", "failed"}
      BY <1>1
    <2>2. job' = [job EXCEPT ![j].stage = stage]
      BY <1>1
    <2> QED
      BY <2>1, <2>2, StageSet
  <1>3. /\ owner \in [Sessions -> Emails \cup {None}] /\ audit \subseteq AuditRows
        /\ seen[j] \subseteq Sessions /\ job[j].email # None
    BY <1>1 DEF BrowserInv, BrowserTypeOK
  <1>4. /\ owner' \in [Sessions -> Emails \cup {None}]
        /\ \A s \in Sessions : owner'[s] \in {owner[s], None}
    BY <1>1, <1>3
  <1>5. SeenOK(j) /\ StageOK(j)
    BY DEF BrowserInv
  <1>6. StageOK(j)'
    <2>1. CASE stage = "failed"
      BY <1>2, <2>1 DEF StageOK
    <2>2. CASE stage = "revoked"
      <3>1. Gone(j)'
        BY <1>1, <1>2, <1>3, <1>5, <2>2 DEF Gone, SeenOK, Revocable, SessionsOf
      <3> QED
        BY <1>1, <1>2, <1>5, <2>2, <3>1 DEF StageOK
    <2> QED
      BY <2>1, <2>2
  <1> QED
    BY <1>1, <1>2, <1>3, <1>4, <1>6, JobStep

(* Sign-ins take unused sessions; users and their emails are not looked at. *)
LEMMA PeopleOK ==
    ASSUME BrowserInv, UNCHANGED <<audit, job, seen>>,
           email' \in [Users -> Emails \cup {None}],
           \/ UNCHANGED <<owner, made>>
           \/ \E s \in Sessions, e \in Emails :
                 s \notin made /\ made' = made \cup {s} /\ owner' = [owner EXCEPT ![s] = e]
    PROVE  BrowserInv'
  <1>1. OwnersKept
    BY DEF OwnersKept, BrowserInv, BrowserTypeOK
  <1>2. BrowserTypeOK'
    <2>1. CASE UNCHANGED <<owner, made>>
      BY <2>1 DEF BrowserInv, BrowserTypeOK
    <2>2. ASSUME NEW s \in Sessions, NEW e \in Emails, s \notin made, made' = made \cup {s},
                 owner' = [owner EXCEPT ![s] = e]
          PROVE  BrowserTypeOK'
      <3>1. seen \in [Jobs -> SUBSET made']
        BY <2>2 DEF BrowserInv, BrowserTypeOK
      <3> QED
        BY <2>2, <3>1 DEF BrowserInv, BrowserTypeOK
    <2> QED
      BY <2>1, <2>2
  <1>3. \A j \in Jobs : SeenOK(j)' /\ StageOK(j)' /\ (Gone(j) => Gone(j)')
    BY <1>1, OthersKept
  <1>4. ASSUME NEW row \in audit PROVE CompletedOK(row)'
    <2>1. CompletedOK(row) /\ row.job \in Jobs
      BY DEF BrowserInv, BrowserTypeOK, AuditRows
    <2> QED
      BY <1>3, <2>1 DEF CompletedOK
  <1> QED
    BY <1>2, <1>3, <1>4 DEF BrowserInv

LEMMA BrowserInitOK == BrowserInit => BrowserInv
  <1> SUFFICES ASSUME BrowserInit PROVE BrowserInv
    OBVIOUS
  <1>1. NewJob \in JobSet /\ NewJob.stage = "new"
    BY DEF NewJob, JobSet
  <1>2. job \in [Jobs -> JobSet] /\ \A j \in Jobs : job[j].stage = "new"
    BY <1>1 DEF BrowserInit
  <1>3. BrowserTypeOK
    BY <1>2 DEF BrowserInit, BrowserTypeOK, JobSet
  <1> QED
    BY <1>2, <1>3 DEF BrowserInit, BrowserInv, SeenOK, StageOK

LEMMA BrowserStepOK ==
    ASSUME BrowserInv, [BrowserNext]_browserVars
    PROVE  BrowserInv'
  <1>1. email \in [Users -> Emails \cup {None}]
    BY DEF BrowserInv, BrowserTypeOK
  <1>2. ASSUME NEW s \in Sessions, NEW e \in Emails, SignIn(s, e) PROVE BrowserInv'
    BY <1>1, <1>2, PeopleOK DEF SignIn
  <1>3. ASSUME NEW u \in Users, DeleteUser(u) PROVE BrowserInv'
    BY <1>1, <1>3, PeopleOK DEF DeleteUser
  <1>4. ASSUME NEW u \in Users, NEW e \in Emails, ChangeEmail(u, e) PROVE BrowserInv'
    BY <1>1, <1>4, PeopleOK DEF ChangeEmail
  <1>5. CASE UNCHANGED browserVars
    BY <1>1, <1>5, PeopleOK DEF browserVars
  <1> QED
    BY <1>2, <1>3, <1>4, <1>5, ReadEmailOK, RejectOK, AuditOK, RevokeOK DEF BrowserNext

LEMMA BrowserInvHolds == BrowserSpec => []BrowserInv
  BY BrowserInitOK, BrowserStepOK, PTL DEF BrowserSpec

(* The completion row that browser_sessions.go writes last is never a lie,  *)
(* whatever failed between the steps and whoever signed in meanwhile.       *)
THEOREM CompletionTrueHolds == BrowserSpec => []CompletionTrue
  <1>1. BrowserInv => CompletionTrue
    BY DEF BrowserInv, CompletedOK, Gone, CompletionTrue
  <1> QED
    BY <1>1, BrowserInvHolds, PTL

(* Redis loses a session to a revocation only after the audit row of the    *)
(* request that names it is committed.                                      *)
THEOREM RevocationRecordedHolds == BrowserSpec => RevocationRecorded
  <1> DEFINE Recorded(s) == \E row \in audit :
                 /\ row.what = "requested"
                 /\ row.user = job[row.job].user
                 /\ owner[s] = job[row.job].email
                 /\ job[row.job].target \in {s, AllOfThem}
  <1>1. ASSUME BrowserInv, BrowserNext, NEW s \in Sessions, owner[s] # None, owner'[s] = None
        PROVE  Recorded(s)
    <2>1. ASSUME NEW i \in Sessions, NEW e \in Emails, SignIn(i, e) PROVE FALSE
      BY <1>1, <2>1, BrowserAssumption DEF SignIn, BrowserInv, BrowserTypeOK
    <2>2. PICK j \in Jobs : Revoke(j)
      BY <1>1, <2>1 DEF BrowserNext, ReadEmail, Reject, Requested, Completed, SessionAudit,
                        DeleteUser, ChangeEmail
    <2>3. s \in Revocable(j)
      BY <1>1, <2>2 DEF Revoke
    <2> DEFINE row == [job |-> j, user |-> job[j].user, what |-> "requested"]
    <2>4. row \in audit
      BY <1>1, <2>2 DEF BrowserInv, StageOK, Revoke
    <2> QED
      BY <2>3, <2>4 DEF Revocable, SessionsOf
  <1>2. BrowserInv /\ [BrowserNext]_browserVars =>
          [\A s \in Sessions : owner[s] # None /\ owner'[s] = None => Recorded(s)]_browserVars
    BY <1>1
  <1> QED
    BY <1>2, BrowserInvHolds, PTL DEF BrowserSpec, RevocationRecorded

============================================================================
