-------------------------- MODULE BrowserSessions --------------------------
(***************************************************************************)
(* Operators revoke users' browser sessions (userSessions and sessionAudit *)
(* in internal/admin/browser_sessions.go): the user's email is read from   *)
(* PostgreSQL, a request is recorded there, Redis revokes, the completion  *)
(* is recorded.  Each step may fail, and may fail after it took effect.    *)
(*                                                                         *)
(* Redis is external: a session belongs to an email, one session or all of *)
(* an email's sessions are revoked atomically.                             *)
(***************************************************************************)
EXTENDS FiniteSets

CONSTANTS
    Jobs,         \* DELETE requests of operators
    Users,
    Emails,       \* normalised
    Sessions,     \* browser sessions; each is created once
    None

ASSUME BrowserAssumption ==
    None \notin Jobs \cup Users \cup Emails \cup Sessions

VARIABLES
    email,        \* users.email; None: no such user
    owner,        \* Redis: the email of each live session, or None
    made,         \* sessions created so far
    audit,        \* auth_admin_audit: rows of session actions
    job,          \* the handler of each request
    seen          \* history: the email's sessions when the job read it

browserVars == <<email, owner, made, audit, job, seen>>

AllOfThem == "all"        \* DELETE without a session id

(* Audit rows name the operator's request by its job.                       *)
AuditRows == [job : Jobs, user : Users, what : {"requested", "completed"}]

NewJob == [stage |-> "new", user |-> None, email |-> None, target |-> None]

BrowserTypeOK ==
    /\ email \in [Users -> Emails \cup {None}]
    /\ owner \in [Sessions -> Emails \cup {None}]
    /\ made \subseteq Sessions
    /\ \A s \in Sessions : owner[s] # None => s \in made
    /\ audit \subseteq AuditRows
    /\ job \in [Jobs -> [stage : {"new", "read", "requested", "revoked", "done", "failed"},
                         user : Users \cup {None}, email : Emails \cup {None},
                         target : Sessions \cup {AllOfThem, None}]]
    /\ \A j \in Jobs : job[j].stage \notin {"new", "failed"} => job[j].email # None
    /\ seen \in [Jobs -> SUBSET made]

BrowserInit ==
    /\ email \in {e \in [Users -> Emails \cup {None}] :
                    \A u, v \in Users : u # v /\ e[u] # None => e[u] # e[v]}
    /\ owner = [s \in Sessions |-> None]
    /\ made = {}
    /\ audit = {}
    /\ job = [j \in Jobs |-> NewJob]
    /\ seen = [j \in Jobs |-> {}]

SessionsOf(e) == {s \in Sessions : owner[s] = e}

----------------------------------------------------------------------------

(* The handler reads the user's email.                                      *)
ReadEmail(j, u, target) ==
    /\ job[j].stage = "new"
    /\ email[u] # None
    /\ job' = [job EXCEPT ![j] = [stage |-> "read", user |-> u, email |-> email[u],
                                  target |-> target]]
    /\ seen' = [seen EXCEPT ![j] = SessionsOf(email[u])]
    /\ UNCHANGED <<email, owner, made, audit>>

(* No such user, a store that cannot be managed, a malformed id, an error.  *)
Reject(j) ==
    /\ job[j].stage \in {"new", "read"}
    /\ job' = [job EXCEPT ![j].stage = "failed"]
    /\ UNCHANGED <<email, owner, made, audit, seen>>

(* sessionAudit: one row is inserted, or it fails, with or without the row. *)
SessionAudit(j, from, what, to) ==
    LET row == [job |-> j, user |-> job[j].user, what |-> what]
    IN  /\ job[j].stage = from
        /\ \/ audit' = audit \cup {row} /\ job' = [job EXCEPT ![j].stage = to]
           \/ /\ audit' \in {audit, audit \cup {row}}
              /\ job' = [job EXCEPT ![j].stage = "failed"]
        /\ UNCHANGED <<email, owner, made, seen>>

(* Mutant: a request that cannot be recorded goes on.                       *)
RequestedAnyway(j) ==
    /\ job[j].stage = "read"
    /\ audit' \in {audit, audit \cup {[job |-> j, user |-> job[j].user, what |-> "requested"]}}
    /\ job' = [job EXCEPT ![j].stage = "requested"]
    /\ UNCHANGED <<email, owner, made, seen>>

Requested(j) == SessionAudit(j, "read", "requested", "requested")

(* What Redis removes: of this email, one session or all.                   *)
Revocable(j) ==
    {s \in SessionsOf(job[j].email) : job[j].target \in {AllOfThem, s}}

(* Mutant: a failing store counts as done.                                  *)
RevokeIgnored(j) ==
    /\ job[j].stage = "requested"
    /\ \/ owner' = [s \in Sessions |-> IF s \in Revocable(j) THEN None ELSE owner[s]]
       \/ owner' = owner
    /\ job' = [job EXCEPT ![j].stage = "revoked"]
    /\ UNCHANGED <<email, made, audit, seen>>

(* RevokeSession or RevokeAllSessions: done, or failed with or without      *)
(* effect.                                                                  *)
Revoke(j) ==
    LET without == [s \in Sessions |-> IF s \in Revocable(j) THEN None ELSE owner[s]]
    IN  /\ job[j].stage = "requested"
        /\ \/ owner' = without /\ job' = [job EXCEPT ![j].stage = "revoked"]
           \/ owner' \in {owner, without} /\ job' = [job EXCEPT ![j].stage = "failed"]
        /\ UNCHANGED <<email, made, audit, seen>>

Completed(j) == SessionAudit(j, "revoked", "completed", "done")

----------------------------------------------------------------------------
(* People sign in, operators change and the platform deletes users.         *)
SignIn(s, e) ==
    /\ s \notin made
    /\ made' = made \cup {s}
    /\ owner' = [owner EXCEPT ![s] = e]
    /\ UNCHANGED <<email, audit, job, seen>>

DeleteUser(u) ==
    /\ email[u] # None
    /\ email' = [email EXCEPT ![u] = None]
    /\ UNCHANGED <<owner, made, audit, job, seen>>

ChangeEmail(u, e) ==
    /\ email[u] # None
    /\ \A v \in Users : email[v] # e
    /\ email' = [email EXCEPT ![u] = e]
    /\ UNCHANGED <<owner, made, audit, job, seen>>

BrowserNext ==
    \/ \E j \in Jobs :
          \/ \E u \in Users, target \in Sessions \cup {AllOfThem} : ReadEmail(j, u, target)
          \/ Reject(j) \/ Requested(j) \/ Revoke(j) \/ Completed(j)
    \/ \E s \in Sessions, e \in Emails : SignIn(s, e)
    \/ \E u \in Users : DeleteUser(u) \/ \E e \in Emails : ChangeEmail(u, e)

BrowserSpec == BrowserInit /\ [][BrowserNext]_browserVars

----------------------------------------------------------------------------
(* Properties.                                                              *)

(* "Record the request durably before touching Redis": whenever sessions go *)
(* by revocation, a request row of some job for a user whose email it read  *)
(* is there, and no session of another email goes with them.                *)
RevocationRecorded ==
    [][\A s \in Sessions : owner[s] # None /\ owner'[s] = None =>
          \E row \in audit :
              /\ row.what = "requested"
              /\ row.user = job[row.job].user
              /\ owner[s] = job[row.job].email
              /\ job[row.job].target \in {s, AllOfThem}]_browserVars

(* A completion row means it: every session the email had when the request  *)
(* read it, and that the request was about, is gone for good, whatever      *)
(* sign-ins, other revocations and changes of the email came in between.    *)
(* The state keeps its shape.                                               *)
CompletionTrue ==
    /\ BrowserTypeOK
    /\ \A row \in audit : row.what = "completed" =>
          \A s \in seen[row.job] : job[row.job].target \in {s, AllOfThem} => owner[s] = None

=============================================================================
