----------------------------- MODULE FrontDoor -----------------------------
(***************************************************************************)
(* The public front door (internal/external): the landing page and its     *)
(* return cookie, the sign-in round trip, logout and the session-status    *)
(* endpoint, used by the tabs of one browser.                              *)
(*                                                                         *)
(* A request carries the cookies the browser has when it is sent; the      *)
(* cookies an answer sets reach the browser when it is delivered.  Between *)
(* the two another tab's answer may be delivered, the session may end and  *)
(* the process may come back with another configuration.                   *)
(***************************************************************************)
EXTENDS Naturals, FiniteSets

CONSTANTS
    Tabs,
    MaxSessions,   \* bound: sessions created
    Origins,       \* records [scheme, host]
    Configs,       \* records [origins, hosts, key]: the Options
    Asked,         \* the return URLs that links and tabs name
    Foreign,       \* those of cookies that the front door did not set
    None, Keep,    \* no value; a cookie left alone
    Spoiled        \* a signature that no key verifies

(* A return URL by what decides its fate: a path on this host; one that     *)
(* begins "//host" or "/\host"; "/~/path", one that comes to begin so only  *)
(* when http.Redirect has cleaned it or a browser has left out the          *)
(* characters browsers ignore; an http(s) URL; or anything else (it carries *)
(* user information, or has another scheme, or a host that is in no list).  *)
(* origin is where a browser goes, None for this host.  A "/~/path" has     *)
(* bytes that net/http neither writes in a cookie nor reads from one.       *)
Destination ==
    [form : {"path", "//path", "/~/path", "url", "other"}, origin : Origins \union {None}]

Home == [form |-> "path", origin |-> None]
Target == [form |-> "target", origin |-> None]

(* A return cookie and the key its signature verifies with: None when it is *)
(* not signed, Spoiled when it lost bytes after it was signed.              *)
Cookies == [dest : Destination, key : {c.key : c \in Configs} \union {None, Spoiled}]

ASSUME FrontDoorConstants ==
    /\ MaxSessions \in Nat
    /\ \A c \in Configs : c.origins \subseteq Origins /\ c.key # Spoiled
    /\ Spoiled # None
    /\ \A d \in Asked \union Foreign : d \in Destination
    /\ \A d \in Foreign : d.form # "/~/path"
    /\ None \notin Nat /\ None \notin Cookies /\ None \notin Destination \union {Target}
    /\ Keep \notin Nat /\ Keep \notin Cookies /\ Keep # None

VARIABLES
    config,      \* the Options of the running process
    live,        \* sessions in the store
    created,     \* how many were ever created
    session,     \* the browser's session cookie
    ret,         \* the browser's scitrera_post_login_rd cookie
    at,          \* at[t]: where tab t is
    req,         \* req[t]: its request, with the cookies it was sent with
    ans,         \* ans[t]: the answer on its way
    out,         \* the browser was told it is logged out, and not signed in since
    owed         \* the return cookie last set, until a landing followed it

frontVars == <<config, live, created, session, ret, at, req, ans, out, owed>>

NoAnswer == [kind |-> "none", to |-> None, ret |-> Keep, session |-> Keep]
NoRequest == [path |-> "none", method |-> "none", dest |-> None,
              session |-> None, ret |-> None, out |-> FALSE, owed |-> None]

FrontDoorInit ==
    /\ config \in Configs
    /\ live = {} /\ created = 0
    /\ session = None /\ ret = None
    /\ at = [t \in Tabs |-> "idle"]
    /\ req = [t \in Tabs |-> NoRequest]
    /\ ans = [t \in Tabs |-> NoAnswer]
    /\ out = FALSE /\ owed = None

-----------------------------------------------------------------------------

(* sanitizeRedirect: a path is told by its first two characters; origins,   *)
(* when configured, replace the host list.                                  *)
SanitizeRedirect(c, d) ==
    \/ d.form \in {"path", "/~/path"}
    \/ d.form = "url" /\ (IF c.origins # {} THEN d.origin \in c.origins ELSE d.origin.host \in c.hosts)

Accepted(c, d) == d # None /\ SanitizeRedirect(c, d)

SignReturnValue(c, d) == [dest |-> d, key |-> c.key]

(* What http.SetCookie may make of d when some of its bytes cannot be in a  *)
(* cookie and are left out, those that browsers ignore among them: a path   *)
(* may then begin "//".                                                     *)
Stripped(d) ==
    IF d.form \in {"path", "/~/path"}
      THEN {Home} \union [form : {"//path"}, origin : Origins]
      ELSE {d}

(* setReturnCookie: the value is signed before it is written.               *)
SetReturnCookie(c, d) ==
    (IF d.form = "/~/path" THEN {} ELSE {SignReturnValue(c, d)})
      \union {[dest |-> e, key |-> IF c.key = None THEN None ELSE Spoiled] : e \in Stripped(d)}

(* A value that still ends in its signature: in a URL without a path that   *)
(* makes another host.                                                      *)
Tailed(d) == {d} \union (IF d.form = "url" THEN {[form |-> "other", origin |-> None]} ELSE {})

(* Without a key the value is taken as it is, a signature of an earlier     *)
(* configuration included; with one it must be signed by it.                *)
VerifyReturnValue(c, cookie) ==
    CASE cookie.key = c.key -> {cookie.dest}
      [] c.key = None /\ cookie.key # None -> Tailed(cookie.dest)
      [] OTHER -> {None}

ReadReturnCookie(c, cookie) == IF cookie = None THEN {None} ELSE VerifyReturnValue(c, cookie)

(* Mutant: the captured destination was checked when it was captured.       *)
PostLoginUnchecked(c, rd, captured) ==
    IF Accepted(c, rd) THEN rd ELSE IF captured # None THEN captured ELSE Target

(* Mutant: there is no destination to begin with.                           *)
PostLoginNoTarget(c, rd, captured) ==
    IF Accepted(c, rd) THEN rd ELSE IF Accepted(c, captured) THEN captured ELSE None

(* Where a signed-in browser goes from "/", given what it asks for and what *)
(* its return cookie holds.                                                 *)
PostLogin(c, rd, captured) ==
    IF Accepted(c, rd) THEN rd ELSE IF Accepted(c, captured) THEN captured ELSE Target

-----------------------------------------------------------------------------

(* A tab sends a request, with the cookies that its handler will read.      *)
Send(t, r) ==
    /\ at[t] = "idle"
    /\ at' = [at EXCEPT ![t] = "sent"]
    /\ req' = [req EXCEPT ![t] = r]
    /\ UNCHANGED <<config, live, created, session, ret, ans, out, owed>>

SendLanding(t) ==
    \/ \E d \in Asked \union {None} :
         Send(t, [NoRequest EXCEPT !.path = "landing", !.method = "GET", !.dest = d,
                                   !.session = session, !.ret = ret, !.out = out, !.owed = owed])
    \/ Send(t, [NoRequest EXCEPT !.path = "landing", !.method = "POST"])
SendLogin(t) == \E d \in Asked \union {None} :
    Send(t, [NoRequest EXCEPT !.path = "login", !.method = "GET", !.dest = d])
SendLogout(t) ==
    \/ Send(t, [NoRequest EXCEPT !.path = "logout", !.method = "POST", !.session = session])
    \/ Send(t, [NoRequest EXCEPT !.path = "logout", !.method = "GET"])
SendCheckz(t) ==
    Send(t, [NoRequest EXCEPT !.path = "checkz", !.method = "GET", !.session = session, !.out = out])

(* An answer; of its request only the path still matters.                   *)
Answer(t, a) ==
    /\ at' = [at EXCEPT ![t] = "answered"]
    /\ ans' = [ans EXCEPT ![t] = a]
    /\ req' = [req EXCEPT ![t] = [NoRequest EXCEPT !.path = req[t].path]]
    /\ UNCHANGED <<config, session, ret, out, owed>>

(* An answer that sets no cookie and redirects nowhere ends the exchange.   *)
Dismiss(t) ==
    /\ at' = [at EXCEPT ![t] = "idle"]
    /\ req' = [req EXCEPT ![t] = NoRequest]
    /\ UNCHANGED <<config, session, ret, ans, out, owed>>

Reply(kind) == [NoAnswer EXCEPT !.kind = kind]
RedirectTo(d) == [Reply("redirect") EXCEPT !.to = d]
Unstored == UNCHANGED <<live, created>>

(* store.Get by the session cookie: there, not there, or an error.          *)
Lookup(r) == {IF r.session \in live THEN "live" ELSE "gone"}
               \union (IF r.session = None THEN {} ELSE {"error"})

(* Mutant: the cookie is left to expire.                                    *)
ClearReturnCookieKeeps(a) == a

ClearReturnCookie(a) == [a EXCEPT !.ret = None]

HandleLanding(t) ==
    LET r == req[t] IN
    /\ at[t] = "sent" /\ r.path = "landing" /\ Unstored
    /\ \/ r.method # "GET" /\ Dismiss(t)
       \/ /\ r.method = "GET" /\ "live" \in Lookup(r)
          /\ \E captured \in ReadReturnCookie(config, r.ret) :
                Answer(t, ClearReturnCookie(RedirectTo(PostLogin(config, r.dest, captured))))
       \/ /\ r.method = "GET" /\ Lookup(r) # {"live"} /\ Accepted(config, r.dest)
          /\ \E cookie \in SetReturnCookie(config, r.dest) :
                Answer(t, [Reply("page") EXCEPT !.ret = cookie])
       \/ /\ r.method = "GET" /\ Lookup(r) # {"live"} /\ ~Accepted(config, r.dest)
          /\ Dismiss(t)

(* sanitizeLoginNext drops a next that is not allowed; the login handler    *)
(* behind it keeps one that begins with "/", and sends the browser away to  *)
(* the provider.                                                            *)
SanitizeLoginNext(c, d) == IF Accepted(c, d) THEN d ELSE None
LoginNext(d) == IF d # None /\ d.form \in {"path", "//path", "/~/path"} THEN d ELSE None

HandleLogin(t) ==
    /\ at[t] = "sent" /\ req[t].path = "login"
    /\ at' = [at EXCEPT ![t] = "away"]
    /\ req' = [req EXCEPT ![t].dest = LoginNext(SanitizeLoginNext(config, @))]
    /\ UNCHANGED <<config, live, created, session, ret, ans, out, owed>>

(* The provider sends the browser back.                                     *)
ReturnFromProvider(t) ==
    /\ at[t] = "away"
    /\ at' = [at EXCEPT ![t] = "sent"]
    /\ req' = [req EXCEPT ![t].path = "callback"]
    /\ UNCHANGED <<config, live, created, session, ret, ans, out, owed>>

(* The callback creates a session and redirects to next, "/" when there is  *)
(* none; or it fails.                                                       *)
HandleCallback(t) ==
    /\ at[t] = "sent" /\ req[t].path = "callback"
    /\ \/ /\ created < MaxSessions
          /\ created' = created + 1 /\ live' = live \union {created + 1}
          /\ Answer(t, [RedirectTo(IF req[t].dest = None THEN Home ELSE req[t].dest)
                          EXCEPT !.session = created + 1])
       \/ Dismiss(t) /\ Unstored

(* Mutant: the status of the answer is not looked at.                       *)
RedirectLogoutAlways(a) == [RedirectTo(Target) EXCEPT !.session = a.session]

(* A successful logout answer becomes a redirect that keeps its cookies;    *)
(* any other is passed on as it is.                                         *)
RedirectLogout(a) ==
    IF a.kind = "ok" THEN [RedirectTo(Target) EXCEPT !.session = a.session] ELSE a

(* methodGuard, then the logout handler behind it: the session is deleted   *)
(* and its cookie cleared, or an error leaves either undone.                *)
HandleLogout(t) ==
    LET r == req[t] IN
    /\ at[t] = "sent" /\ r.path = "logout" /\ created' = created
    /\ \/ r.method # "POST" /\ live' = live /\ Dismiss(t)
       \/ /\ r.method = "POST" /\ live' = live \ {r.session}
          /\ Answer(t, RedirectLogout([Reply("ok") EXCEPT !.session = None]))
       \/ /\ r.method = "POST" /\ live' = live
          /\ \E cookie \in {Keep, None} :
                Answer(t, RedirectLogout([Reply("error") EXCEPT !.session = cookie]))

(* handleCheckz: the origin the request comes from, which may be refused,   *)
(* and the session; then, in another step, the user's tenants, whose lookup *)
(* may fail without failing the answer.                                     *)
HandleCheckz(t) ==
    /\ at[t] = "sent" /\ req[t].path = "checkz" /\ Unstored
    /\ \/ Dismiss(t)
       \/ /\ "live" \in Lookup(req[t])
          /\ at' = [at EXCEPT ![t] = "tenants"]
          /\ req' = [req EXCEPT ![t].session = None]
          /\ UNCHANGED <<config, session, ret, ans, out, owed>>

LookupTenants(t) ==
    /\ at[t] = "tenants" /\ Unstored
    /\ Answer(t, Reply("valid"))

-----------------------------------------------------------------------------

(* The browser applies an answer's cookies; or the answer never arrives.    *)
Deliver(t) ==
    LET a == ans[t]
        told == a.kind = "redirect" /\ req[t].path \in {"logout", "callback"} IN
    /\ at[t] = "answered"
    /\ ret' = (IF a.ret = Keep THEN ret ELSE a.ret)
    /\ session' = (IF a.session = Keep THEN session ELSE a.session)
    /\ out' = (IF told THEN req[t].path = "logout" ELSE out)
    /\ owed' = (IF a.kind = "redirect" /\ req[t].path = "landing" THEN None
                 ELSE IF a.ret \notin {Keep, None} THEN a.ret ELSE owed)
    /\ at' = [at EXCEPT ![t] = "idle"]
    /\ req' = [req EXCEPT ![t] = NoRequest]
    /\ ans' = [ans EXCEPT ![t] = NoAnswer]
    /\ UNCHANGED <<config, live, created>>

Lose(t) ==
    /\ at[t] # "idle"
    /\ at' = [at EXCEPT ![t] = "idle"]
    /\ req' = [req EXCEPT ![t] = NoRequest]
    /\ ans' = [ans EXCEPT ![t] = NoAnswer]
    /\ UNCHANGED <<config, live, created, session, ret, out, owed>>

(* Ten minutes pass.                                                        *)
ReturnCookieExpires ==
    /\ ret # None /\ ret' = None /\ owed' = None
    /\ UNCHANGED <<config, live, created, session, at, req, ans, out>>

(* Another host of the domain sets a cookie of that name, unsigned.         *)
ForeignCookie(d) ==
    /\ ret' = [dest |-> d, key |-> None]
    /\ owed' = [dest |-> d, key |-> None]
    /\ UNCHANGED <<config, live, created, session, at, req, ans, out>>

(* A session expires or is revoked.                                         *)
SessionEnds(s) ==
    /\ live' = live \ {s}
    /\ UNCHANGED <<config, created, session, ret, at, req, ans, out, owed>>

(* The process is replaced by one with another configuration.               *)
Restart(c) ==
    /\ c # config /\ config' = c
    /\ UNCHANGED <<live, created, session, ret, at, req, ans, out, owed>>

FrontDoorNext ==
    \/ \E t \in Tabs :
         \/ SendLanding(t) \/ SendLogin(t) \/ SendLogout(t) \/ SendCheckz(t)
         \/ HandleLanding(t) \/ HandleLogin(t) \/ ReturnFromProvider(t) \/ HandleCallback(t)
         \/ HandleLogout(t) \/ HandleCheckz(t) \/ LookupTenants(t)
         \/ Deliver(t) \/ Lose(t)
    \/ ReturnCookieExpires
    \/ \E d \in Foreign : ForeignCookie(d)
    \/ \E s \in live : SessionEnds(s)
    \/ \E c \in Configs : Restart(c)

FrontDoorSpec == FrontDoorInit /\ [][FrontDoorNext]_frontVars

-----------------------------------------------------------------------------

(* The state's shape; a redirect always names where to.                     *)
FrontDoorTypeOK ==
    /\ config \in Configs
    /\ created \in 0 .. MaxSessions /\ live \subseteq 1 .. created
    /\ session \in 1 .. created \union {None}
    /\ ret \in Cookies \union {None} /\ owed \in Cookies \union {None}
    /\ at \in [Tabs -> {"idle", "sent", "away", "tenants", "answered"}]
    /\ out \in BOOLEAN
    /\ \A t \in Tabs :
         /\ req[t].dest \in Asked \union {None}
         /\ ans[t].to \in Destination \union {Target, None}
         /\ ans[t].kind = "redirect" => ans[t].to # None
         /\ ans[t].ret \in Cookies \union {None, Keep}
         /\ ans[t].session \in 1 .. created \union {None, Keep}

(* Where a browser that is given d ends up is this host, or one that the    *)
(* configuration c names.                                                   *)
Trusted(c, d) ==
    \/ d = Target \/ d.form = "path"
    \/ /\ d.form \in {"//path", "/~/path", "url"}
       /\ IF c.origins # {} THEN d.origin \in c.origins ELSE d.origin.host \in c.hosts

(* The step in which a handler answers tab t with a redirect.               *)
Redirects(t) == at[t] = "sent" /\ at'[t] = "answered" /\ ans'[t].kind = "redirect"
LandingRedirects(t) == Redirects(t) /\ req[t].path = "landing"

(* Every redirect of the landing page, the sign-in and the logout goes to   *)
(* the target or where the configuration in force at that moment allows,    *)
(* although next and the return cookie may be older than that configuration,*)
(* or not of this server's making.  The one exception is a "/~/path" that   *)
(* the request itself names: sanitizeRedirect takes it for a path of this   *)
(* host, and no return cookie ever brings one back.                         *)
RedirectsAllowed ==
    [][\A t \in Tabs : Redirects(t) =>
          \/ Trusted(config, ans'[t].to)
          \/ ans'[t].to.form = "/~/path" /\ ans'[t].to = req[t].dest]_frontVars

(* A landing's redirect goes where this navigation asked: to its explicit   *)
(* destination, which no cookie that another tab left diverts (the comment  *)
(* in handleLanding), or else to a destination that was still owed to this  *)
(* browser when it asked.  A landing that was already answered with a       *)
(* redirect consumed it, and with a key configured only a cookie that this  *)
(* server signed with that key counts.                                      *)
LandsWhereAsked ==
    [][\A t \in Tabs : LandingRedirects(t) =>
          LET to == ans'[t].to
              due == req[t].owed
          IN  \/ Accepted(config, req[t].dest) /\ to = req[t].dest
              \/ ~Accepted(config, req[t].dest) /\ to = Target
              \/ /\ ~Accepted(config, req[t].dest)
                 /\ due # None /\ to = due.dest
                 /\ config.key # None => due.key = config.key]_frontVars

(* Once the browser was shown that it is logged out, nothing it asks later  *)
(* is answered as signed in, by the landing page or by checkz, until it has *)
(* signed in again, whatever its other tabs had under way.                  *)
LoggedOutStaysOut ==
    [][\A t \in Tabs :
          req[t].out => ~LandingRedirects(t) /\ ans'[t].kind # "valid"]_frontVars

=============================================================================
