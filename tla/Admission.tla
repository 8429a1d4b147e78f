----------------------------- MODULE Admission -----------------------------
(***************************************************************************)
(* The admission decision of internal/resolver: which of a member's        *)
(* tenants survive the provider allowlist, the claim checks and the        *)
(* membership's own overrides (applyAuthChecks, resolver.go), whom         *)
(* auto-add may enroll (autoAddAllowed, enrollment.go), and which tenant   *)
(* the identity is pinned to (the end of Resolve).                         *)
(*                                                                         *)
(* A claim is a nonempty string of Words, the empty string, something that *)
(* is not a string, or missing.  A check asks for one string, for one of a *)
(* list, or is of a type the code does not support.                        *)
(***************************************************************************)
EXTENDS Naturals, Sequences, Functions

CONSTANTS
    Words,        \* nonempty claim values
    OrgIds,       \* those that parse as a UUID, not nil, not the consumers' tenant
    ClaimNames,   \* the claims checks ask for, "hd" and "tid" among them
    Wants,        \* the check values stored in tenant_config and in overrides
    Providers,    \* provider names; "" is a session without one
    Slugs,        \* a user's enabled memberships, in slug order
    Lower,        \* strings.ToLower on slugs; its domain is every slug there is
    Nil           \* no slug

Blank == "blank"          \* the empty string
Missing == "missing"
NotString == "not a string"
NoRule == [kind |-> "none", vals |-> {}]

Got == Words \cup {Blank, NotString, Missing}
Claims == [ClaimNames -> Got]

AllWants == [kind : {"is", "oneOf", "other"}, vals : SUBSET (Words \cup {Blank, NotString})]

(* auth:checks:<provider> or an override of it: a rule per claim name.      *)
Checks == [ClaimNames -> Wants \cup {NoRule}]
NoChecks == [k \in ClaimNames |-> NoRule]

(* auth:providers: clean says that every entry is a nonempty string.        *)
Allowlists ==
    {[kind |-> k, names |-> {}, clean |-> TRUE] : k \in {"unset", "malformed"}}
       \cup [kind : {"list"}, names : SUBSET (Providers \ {""}), clean : BOOLEAN]

(* What the loop reads of one tenant.  Checks that are not a map count as   *)
(* none; an override may be absent.                                         *)
Policy ==
    {pol \in [providers : Allowlists, isMap : BOOLEAN, checks : Checks,
              overridden : BOOLEAN, override : Checks] :
        /\ ~pol.isMap => pol.checks = NoChecks
        /\ ~pol.overridden => pol.override = NoChecks}

ASSUME AdmissionAssumption ==
    /\ {Blank, NotString, Missing} \cap Words = {}
    /\ OrgIds \subseteq Words
    /\ {"hd", "tid"} \subseteq ClaimNames
    /\ Wants \subseteq AllWants
    /\ \A w \in Wants : w.kind = "is" => \E v \in Words \cup {Blank} : w.vals = {v}
    /\ \A w \in Wants : w.kind = "other" => w.vals = {}
    /\ Slugs \in Seq(DOMAIN Lower)
    /\ Nil \notin DOMAIN Lower \cup Range(Lower)

----------------------------------------------------------------------------
(* Mutant: a blank option in a list matches a blank claim.                  *)
MeetsBlank(w, g) == w.kind \in {"is", "oneOf"} /\ g \in {Blank} \cup Words /\ g \in w.vals

(* One iteration of evaluateChecks.  A list never matches a blank claim.    *)
Meets(w, g) ==
    \/ w.kind = "oneOf" /\ g \in Words /\ g \in w.vals
    \/ w.kind = "is" /\ g \in Words \cup {Blank} /\ g \in w.vals

EvaluateChecks(ch, cl) == \A k \in ClaimNames : ch[k] # NoRule => Meets(ch[k], cl[k])

(* A missing or blank Google hd needs an explicit blank option and an       *)
(* existing membership; the other checks stay mandatory.                    *)
EvaluateTenantChecks(p, ch, cl, registeredMember) ==
    IF p = "google" /\ ch["hd"] # NoRule /\ cl["hd"] \in {Missing, Blank}
    THEN /\ registeredMember
         /\ ch["hd"].kind # "other" /\ Blank \in ch["hd"].vals
         /\ EvaluateChecks([ch EXCEPT !["hd"] = NoRule], cl)
    ELSE EvaluateChecks(ch, cl)

Unrestricted(list) == list.kind # "list" \/ (list.names = {} /\ list.clean)

ProviderAllowed(list, p) == Unrestricted(list) \/ p \in list.names

(* Mutant: the override stands alone.                                       *)
MergedAlone(pol) ==
    IF pol.overridden THEN pol.override ELSE IF pol.isMap THEN pol.checks ELSE NoChecks

(* The override's rules replace the tenant's, claim by claim.               *)
Merged(pol) ==
    LET ch == IF pol.isMap THEN pol.checks ELSE NoChecks
    IN  IF pol.overridden
        THEN [k \in ClaimNames |-> IF pol.override[k] # NoRule THEN pol.override[k] ELSE ch[k]]
        ELSE ch

(* The loop body of applyAuthChecks, once its lookups have succeeded.       *)
Admits(pol, p, cl) ==
    /\ ProviderAllowed(pol.providers, p)
    /\ ~(pol.overridden /\ pol.override = NoChecks)
    /\ EvaluateTenantChecks(p, Merged(pol), cl, TRUE)

(* autoAddAllowed.  Enrollment reads no overrides.                          *)
OrgClaim(p) == IF p = "google" THEN "hd" ELSE "tid"

(* Mutant: the list's names are not compared.                               *)
CleanAllowlistOnly(list, p) == list.kind = "unset" \/ (list.kind = "list" /\ list.clean)

CleanAllowlist(list, p) ==
    \/ list.kind = "unset"
    \/ list.kind = "list" /\ list.clean /\ (list.names = {} \/ p \in list.names)

AutoAddAllowed(pol, p, cl, verified) ==
    /\ CleanAllowlist(pol.providers, p)
    /\ pol.isMap
    /\ \/ p = "google" /\ verified
       \/ p \in {"azure", "entra", "microsoft"} /\ cl["tid"] \in OrgIds
    /\ cl[OrgClaim(p)] \in Words
    /\ pol.checks[OrgClaim(p)] # NoRule
    /\ EvaluateTenantChecks(p, pol.checks, cl, FALSE)

----------------------------------------------------------------------------
(* One decision: the loop over the user's tenants and the end of Resolve.   *)

VARIABLES
    provider, claims, verified,   \* the sign-in
    pos,          \* the loop's index in Slugs
    stage,        \* "next", "judge", "decide" or "done"
    policy,       \* what the loop has read of the tenant at pos
    kept,         \* the tenants that survived, in order
    identity,     \* the identity's default tenant; Nil: rejected
    asked         \* history: the stored default and the addressed tenant it
                  \* was decided with

admissionVars == <<provider, claims, verified, pos, stage, policy, kept, identity, asked>>

(* users.default_tenant_slug is a column of its own: the query reads it     *)
(* without the memberships, and it may name any tenant or none.             *)
Defaults == DOMAIN Lower \cup {Nil}
Requests == Range(Lower) \cup {Nil}
NotAsked == [default |-> Nil, requested |-> Nil]

NoPolicy == [providers |-> [kind |-> "unset", names |-> {}, clean |-> TRUE],
             isMap |-> FALSE, checks |-> NoChecks, overridden |-> FALSE, override |-> NoChecks]

AdmissionTypeOK ==
    /\ provider \in Providers
    /\ claims \in Claims
    /\ verified \in BOOLEAN
    /\ pos \in 1 .. Len(Slugs) + 1
    /\ stage \in {"next", "judge", "decide", "done"}
    /\ policy \in Policy
    /\ kept \in Seq(Range(Slugs))
    /\ identity \in Defaults \cup Requests
    /\ asked \in [default : Defaults, requested : Requests]

AdmissionInit ==
    /\ provider \in Providers
    /\ claims \in Claims
    /\ verified \in BOOLEAN
    /\ pos = 1
    /\ stage = "next"
    /\ policy = NoPolicy
    /\ kept = <<>>
    /\ identity = Nil
    /\ asked = NotAsked

(* Without a provider name there is no rule to apply: all tenants pass, and *)
(* so does the stored default (see SurvivingDefault).                       *)
PassThrough ==
    /\ stage = "next"
    /\ provider = ""
    /\ kept' = Slugs
    /\ stage' = "decide"
    /\ UNCHANGED <<provider, claims, verified, pos, policy, identity, asked>>

(* auth:providers, auth:checks and the membership's override are read, or a *)
(* lookup error drops the tenant.                                           *)
ReadTenant ==
    /\ stage = "next"
    /\ provider # ""
    /\ pos <= Len(Slugs)
    /\ \/ /\ \E pol \in Policy : policy' = pol
          /\ stage' = "judge"
          /\ pos' = pos
       \/ /\ pos' = pos + 1
          /\ UNCHANGED <<policy, stage>>
    /\ UNCHANGED <<provider, claims, verified, kept, identity, asked>>

(* The tenant read last is kept or dropped.                                 *)
Judge ==
    /\ stage = "judge"
    /\ kept' = IF Admits(policy, provider, claims) THEN Append(kept, Slugs[pos]) ELSE kept
    /\ policy' = NoPolicy
    /\ pos' = pos + 1
    /\ stage' = "next"
    /\ UNCHANGED <<provider, claims, verified, identity, asked>>

LoopDone ==
    /\ stage = "next"
    /\ provider # ""
    /\ pos = Len(Slugs) + 1
    /\ stage' = "decide"
    /\ UNCHANGED <<provider, claims, verified, pos, policy, kept, identity, asked>>

(* strings.EqualFold against the requested slug, which is lower case.       *)
HasSlug(ts, requested) == \E t \in Range(ts) : Lower[t] = requested

(* Mutant: a default that did not survive is kept.                          *)
DefaultAsStored(default) == default

(* applyAuthChecks' second result: the user's default, if it survived; the  *)
(* early return for a session without a provider gives it back as stored.   *)
SurvivingDefault(default) ==
    IF provider = "" \/ default \in Range(kept) THEN default ELSE Nil

(* The default the identity gets: the addressed tenant, the user's own      *)
(* surviving default, or the first tenant that survived.                    *)
PinnedTenant(default, requested) ==
    CASE requested # Nil -> requested
      [] requested = Nil /\ SurvivingDefault(default) # Nil -> SurvivingDefault(default)
      [] OTHER -> kept[1]

(* Any default may be stored and any tenant asked for.  The sign-in is      *)
(* rejected or gets its identity.                                           *)
Decide ==
    /\ stage = "decide"
    /\ \E default \in Defaults, requested \in Requests :
          /\ identity' = IF kept = <<>> \/ (requested # Nil /\ ~HasSlug(kept, requested))
                         THEN Nil
                         ELSE PinnedTenant(default, requested)
          /\ asked' = [default |-> default, requested |-> requested]
    /\ stage' = "done"
    /\ UNCHANGED <<provider, claims, verified, pos, policy, kept>>

AdmissionNext == PassThrough \/ ReadTenant \/ Judge \/ LoopDone \/ Decide

AdmissionSpec == AdmissionInit /\ [][AdmissionNext]_admissionVars

----------------------------------------------------------------------------
(* Properties.  The first four speak of the policy the loop looks at.       *)

(* The rule in force for claim k: the override's, or else the tenant's.     *)
RuleOf(pol, k) == IF pol.override[k] # NoRule THEN pol.override[k] ELSE pol.checks[k]

(* What docs/admission.md promises, said claim by claim: a tenant survives  *)
(* exactly when the provider is not excluded and each rule in force lists   *)
(* the claim's string; only a missing or empty Google hd may instead rest   *)
(* on an explicit "" option (a scalar "" also equals an empty claim).       *)
AdmitsAsDocumented ==
    stage = "judge" =>
        (Admits(policy, provider, claims) <=>
            /\ policy.providers.kind = "list" =>
                  \/ provider \in policy.providers.names
                  \/ policy.providers.names = {} /\ policy.providers.clean
            /\ policy.overridden => \E k \in ClaimNames : policy.override[k] # NoRule
            /\ \A k \in ClaimNames :
                  LET rule == RuleOf(policy, k)
                  IN  \/ rule = NoRule
                      \/ rule.kind # "other" /\ claims[k] \in rule.vals \cap Words
                      \/ /\ Blank \in rule.vals /\ rule.kind # "other"
                         /\ \/ rule.kind = "is" /\ claims[k] = Blank
                            \/ provider = "google" /\ k = "hd" /\ claims[k] \in {Blank, Missing})

(* A membership's override replaces rules one by one and frees none: a      *)
(* surviving tenant's own rules hold for every claim the override does not  *)
(* name ("can be replaced, but not deleted", membership_auth.go).           *)
OverrideFreesNothing ==
    stage = "judge" /\ policy.overridden /\ Admits(policy, provider, claims) =>
        LET own == [k \in ClaimNames |->
                       IF policy.override[k] = NoRule THEN policy.checks[k] ELSE NoRule]
        IN  EvaluateTenantChecks(provider, own, claims, TRUE)

(* Who is enrolled gets in: the policy that lets auto-add enroll a sign-in  *)
(* admits the same sign-in as a member (a new membership has no override),  *)
(* although the two read allowlists and blank options differently.          *)
EnrolledIsAdmitted ==
    stage = "judge" /\ AutoAddAllowed(policy, provider, claims, verified) =>
        Admits([policy EXCEPT !.overridden = FALSE, !.override = NoChecks], provider, claims)

(* Enrollment rests on an organization: a nonempty claim that an explicit   *)
(* rule lists, never a blank option, an absent rule or an unverified Google *)
(* address (docs/admission.md, "organization authority").                   *)
EnrollmentNeedsOrganization ==
    stage = "judge" /\ AutoAddAllowed(policy, provider, claims, verified) =>
        /\ provider = "google" => verified
        /\ claims[OrgClaim(provider)] \in policy.checks[OrgClaim(provider)].vals \cap Words
        /\ provider # "google" => claims["tid"] \in OrgIds

(* The two evaluators of a stored policy agree where it matters: whoever    *)
(* autoAddAllowed enrolls applyAuthChecks lets in, on an organization's     *)
(* authority.                                                               *)
EnrollmentRules == EnrolledIsAdmitted /\ EnrollmentNeedsOrganization

(* An identity names a tenant that survived (up to letter case: a slug from *)
(* before the migration may be stored in mixed case), for every order of    *)
(* kept and dropped tenants and every stored default and request.  The one  *)
(* exception is what the code passes "through unchanged": a session without *)
(* a provider that addresses no tenant gets the stored default, whether or  *)
(* not it is still an enabled membership.                                   *)
IdentityPermitted ==
    identity # Nil =>
        \/ \E t \in Range(kept) : identity \in {t, Lower[t]}
        \/ provider = "" /\ asked.requested = Nil /\ identity = asked.default

=============================================================================
