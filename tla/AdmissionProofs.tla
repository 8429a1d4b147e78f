-------------------------- MODULE AdmissionProofs --------------------------
(* The rules of admission for every set of claims, checks and providers.    *)
EXTENDS Admission, TLAPS

----------------------------------------------------------------------------
(* The evaluation.                                                          *)

(* The rules in force: the override's where it has one, else the tenant's.  *)
LEMMA MergedRules ==
    ASSUME NEW pol \in Policy
    PROVE  /\ Merged(pol) \in [ClaimNames -> Wants \cup {NoRule}]
           /\ \A k \in ClaimNames : Merged(pol)[k] = RuleOf(pol, k)
  <1>1. /\ pol.checks \in Checks /\ pol.override \in Checks
        /\ ~pol.isMap => pol.checks = NoChecks
        /\ ~pol.overridden => pol.override = NoChecks
    BY DEF Policy
  <1>2. NoChecks \in Checks /\ \A k \in ClaimNames : NoChecks[k] = NoRule
    BY DEF NoChecks, Checks
  <1>3. (IF pol.isMap THEN pol.checks ELSE NoChecks) = pol.checks
    BY <1>1
  <1>4. CASE pol.overridden
    <2>1. Merged(pol) = [k \in ClaimNames |-> IF pol.override[k] # NoRule
                                              THEN pol.override[k] ELSE pol.checks[k]]
      BY <1>3, <1>4 DEF Merged
    <2> QED
      BY <1>1, <2>1 DEF RuleOf, Checks
  <1>5. CASE ~pol.overridden
    <2>1. Merged(pol) = pol.checks
      BY <1>3, <1>5 DEF Merged
    <2> QED
      BY <1>1, <1>2, <1>5, <2>1 DEF RuleOf, Checks
  <1> QED
    BY <1>4, <1>5

(* A policy that enrolls a sign-in admits it as a member.                   *)
LEMMA EnrolledMember ==
    ASSUME NEW pol \in Policy, NEW p \in Providers, NEW cl \in Claims, NEW v \in BOOLEAN,
           AutoAddAllowed(pol, p, cl, v)
    PROVE  Admits([pol EXCEPT !.overridden = FALSE, !.override = NoChecks], p, cl)
  <1> DEFINE q == [pol EXCEPT !.overridden = FALSE, !.override = NoChecks]
  <1>1. /\ q.overridden = FALSE /\ q.isMap = pol.isMap
        /\ q.checks = pol.checks /\ q.providers = pol.providers
    BY DEF Policy
  <1> HIDE DEF q
  <1>2. pol.isMap /\ EvaluateTenantChecks(p, pol.checks, cl, FALSE)
    BY DEF AutoAddAllowed
  <1>3. Merged(q) = pol.checks
    BY <1>1, <1>2 DEF Merged
  <1>4. EvaluateTenantChecks(p, pol.checks, cl, TRUE)
    BY <1>2 DEF EvaluateTenantChecks
  <1>5. ProviderAllowed(pol.providers, p)
    BY DEF AutoAddAllowed, CleanAllowlist, ProviderAllowed, Unrestricted
  <1>6. Admits(q, p, cl)
    BY <1>1, <1>3, <1>4, <1>5 DEF Admits
  <1> QED
    BY <1>6 DEF q

(* What enrollment rests on.                                                *)
LEMMA EnrollmentAuthority ==
    ASSUME NEW pol \in Policy, NEW p \in Providers, NEW cl \in Claims, NEW v \in BOOLEAN,
           AutoAddAllowed(pol, p, cl, v)
    PROVE  /\ p = "google" => v
           /\ cl[OrgClaim(p)] \in pol.checks[OrgClaim(p)].vals \cap Words
           /\ p # "google" => cl["tid"] \in OrgIds
  <1> USE AdmissionAssumption
  <1>1. /\ OrgClaim(p) \in ClaimNames /\ cl[OrgClaim(p)] \in Words
        /\ pol.checks[OrgClaim(p)] # NoRule
        /\ EvaluateTenantChecks(p, pol.checks, cl, FALSE)
    BY DEF AutoAddAllowed, OrgClaim
  <1>2. ~(p = "google" /\ cl["hd"] \in {Missing, Blank})
    BY <1>1 DEF OrgClaim
  <1>3. EvaluateChecks(pol.checks, cl)
    BY <1>1, <1>2 DEF EvaluateTenantChecks
  <1>4. Meets(pol.checks[OrgClaim(p)], cl[OrgClaim(p)])
    BY <1>1, <1>3 DEF EvaluateChecks
  <1>5. cl[OrgClaim(p)] \in pol.checks[OrgClaim(p)].vals
    BY <1>4 DEF Meets
  <1> QED
    BY <1>1, <1>5 DEF AutoAddAllowed

(* Leaving rules out of a map that is satisfied leaves it satisfied.        *)
LEMMA FewerRules ==
    ASSUME NEW p, NEW cl, NEW all \in [ClaimNames -> Wants \cup {NoRule}],
           NEW few \in [ClaimNames -> Wants \cup {NoRule}],
           \A k \in ClaimNames : few[k] \in {all[k], NoRule},
           EvaluateTenantChecks(p, all, cl, TRUE)
    PROVE  EvaluateTenantChecks(p, few, cl, TRUE)
  <1> USE AdmissionAssumption
  <1> DEFINE blank == p = "google" /\ cl["hd"] \in {Missing, Blank}
  <1>1. CASE blank /\ all["hd"] # NoRule
    <2>1. /\ all["hd"].kind # "other" /\ Blank \in all["hd"].vals
          /\ EvaluateChecks([all EXCEPT !["hd"] = NoRule], cl)
      BY <1>1 DEF EvaluateTenantChecks
    <2>2. \A k \in ClaimNames : k # "hd" /\ few[k] # NoRule => Meets(few[k], cl[k])
      BY <2>1 DEF EvaluateChecks
    <2>3. CASE few["hd"] # NoRule
      <3>1. few["hd"] = all["hd"]
        BY <2>3
      <3>2. EvaluateChecks([few EXCEPT !["hd"] = NoRule], cl)
        BY <2>2 DEF EvaluateChecks
      <3> QED
        BY <1>1, <2>1, <2>3, <3>1, <3>2 DEF EvaluateTenantChecks
    <2>4. CASE few["hd"] = NoRule
      <3>1. EvaluateChecks(few, cl)
        BY <2>2, <2>4 DEF EvaluateChecks
      <3> QED
        BY <2>4, <3>1 DEF EvaluateTenantChecks
    <2> QED
      BY <2>3, <2>4
  <1>2. CASE ~(blank /\ all["hd"] # NoRule)
    <2>1. EvaluateChecks(all, cl)
      BY <1>2 DEF EvaluateTenantChecks
    <2>2. EvaluateChecks(few, cl)
      BY <2>1 DEF EvaluateChecks
    <2>3. ~(blank /\ few["hd"] # NoRule)
      BY <1>2
    <2> QED
      BY <2>2, <2>3 DEF EvaluateTenantChecks
  <1> QED
    BY <1>1, <1>2

(* The documented meaning of a rule w for claim k.                          *)
Documented(p, k, w, g) ==
    \/ w = NoRule
    \/ w.kind # "other" /\ g \in w.vals \cap Words
    \/ /\ Blank \in w.vals /\ w.kind # "other"
       /\ \/ w.kind = "is" /\ g = Blank
          \/ p = "google" /\ k = "hd" /\ g \in {Blank, Missing}

(* evaluateTenantChecks, with its special case for hd, computes it.         *)
LEMMA EvaluationMeaning ==
    ASSUME NEW p, NEW cl \in Claims, NEW ch \in [ClaimNames -> Wants \cup {NoRule}]
    PROVE  EvaluateTenantChecks(p, ch, cl, TRUE)
             <=> \A k \in ClaimNames : Documented(p, k, ch[k], cl[k])
  <1> USE AdmissionAssumption
  <1> DEFINE open(k) == p = "google" /\ k = "hd" /\ cl[k] \in {Blank, Missing}
  <1>1. \A w \in Wants : w.kind \in {"is", "oneOf", "other"}
    BY DEF AllWants
  <1>2. ASSUME NEW k \in ClaimNames, ch[k] # NoRule, ~open(k)
        PROVE  Meets(ch[k], cl[k]) <=> Documented(p, k, ch[k], cl[k])
    <2>1. ch[k] \in Wants /\ ch[k].kind \in {"is", "oneOf", "other"}
      BY <1>1, <1>2
    <2> QED
      BY <1>2, <2>1 DEF Meets, Documented
  <1>3. CASE open("hd") /\ ch["hd"] # NoRule
    <2> DEFINE rest == [ch EXCEPT !["hd"] = NoRule]
    <2>1. EvaluateTenantChecks(p, ch, cl, TRUE)
            <=> /\ ch["hd"].kind # "other" /\ Blank \in ch["hd"].vals
                /\ EvaluateChecks(rest, cl)
      BY <1>3 DEF EvaluateTenantChecks
    <2>2. (ch["hd"].kind # "other" /\ Blank \in ch["hd"].vals)
             <=> Documented(p, "hd", ch["hd"], cl["hd"])
      BY <1>3 DEF Documented
    <2>3. EvaluateChecks(rest, cl) <=>
             \A k \in ClaimNames : k # "hd" => Documented(p, k, ch[k], cl[k])
      <3>1. EvaluateChecks(rest, cl) <=>
               \A k \in ClaimNames : k # "hd" /\ ch[k] # NoRule => Meets(ch[k], cl[k])
        BY DEF EvaluateChecks
      <3>2. \A k \in ClaimNames : ch[k] = NoRule => Documented(p, k, ch[k], cl[k])
        BY DEF Documented
      <3> HIDE DEF rest
      <3> QED
        BY <3>1, <3>2, <1>2
    <2> HIDE DEF rest
    <2> QED
      BY <2>1, <2>2, <2>3
  <1>4. CASE ~(open("hd") /\ ch["hd"] # NoRule)
    <2>1. EvaluateTenantChecks(p, ch, cl, TRUE) <=> EvaluateChecks(ch, cl)
      BY <1>4 DEF EvaluateTenantChecks
    <2>2. \A k \in ClaimNames : ch[k] = NoRule => Documented(p, k, ch[k], cl[k])
      BY DEF Documented
    <2>3. \A k \in ClaimNames : ch[k] # NoRule => ~open(k)
      BY <1>4
    <2>4. EvaluateChecks(ch, cl) <=> \A k \in ClaimNames : Documented(p, k, ch[k], cl[k])
      BY <1>2, <2>2, <2>3 DEF EvaluateChecks
    <2> QED
      BY <2>1, <2>4
  <1> QED
    BY <1>3, <1>4

----------------------------------------------------------------------------
(* The decision.                                                            *)

(* The loop judges within bounds, and no identity exists before the end.    *)
AdmissionInv ==
    /\ AdmissionTypeOK
    /\ stage = "judge" => pos <= Len(Slugs)
    /\ stage # "done" => identity = Nil
    /\ IdentityPermitted

LEMMA NoPolicyTyped == NoPolicy \in Policy
  <1>1. NoChecks \in Checks
    BY DEF NoChecks, Checks
  <1>2. [kind |-> "unset", names |-> {}, clean |-> TRUE] \in Allowlists
    BY DEF Allowlists
  <1> QED
    BY <1>1, <1>2 DEF NoPolicy, Policy

LEMMA SlugsTyped ==
    /\ Slugs \in Seq(Range(Slugs)) /\ Len(Slugs) \in Nat
    /\ \A i \in 1 .. Len(Slugs) : Slugs[i] \in Range(Slugs)
    /\ Nil \notin DOMAIN Lower \cup Range(Lower)
    /\ Range(Slugs) \subseteq DOMAIN Lower
    /\ \A t \in DOMAIN Lower : Lower[t] \in Range(Lower)
  <1>1. Slugs \in Seq(DOMAIN Lower)
    BY AdmissionAssumption
  <1>2. Len(Slugs) \in Nat /\ Slugs \in [1 .. Len(Slugs) -> DOMAIN Lower]
    BY <1>1
  <1>3. \A i \in 1 .. Len(Slugs) : Slugs[i] \in Range(Slugs)
    BY <1>2 DEF Range
  <1>4. Slugs \in Seq(Range(Slugs))
    BY <1>1, <1>2, <1>3
  <1>5. Range(Slugs) \subseteq DOMAIN Lower /\ \A t \in DOMAIN Lower : Lower[t] \in Range(Lower)
    BY <1>2 DEF Range
  <1> QED
    BY <1>2, <1>3, <1>4, <1>5, AdmissionAssumption

(* Each step of the decision keeps the invariant; only Decide names a       *)
(* tenant.                                                                  *)
LEMMA AdmissionStep ==
    ASSUME AdmissionInv, [AdmissionNext]_admissionVars
    PROVE  AdmissionInv'
  <1> USE SlugsTyped DEF AdmissionInv, AdmissionTypeOK
  <1>1. CASE PassThrough
    <2>1. identity' = Nil
      BY <1>1 DEF PassThrough
    <2> QED
      BY <1>1, <2>1 DEF PassThrough, IdentityPermitted
  <1>2. CASE ReadTenant
    <2>1. identity' = Nil
      BY <1>2 DEF ReadTenant
    <2>2. policy' \in Policy
      BY <1>2 DEF ReadTenant
    <2>3. /\ pos' \in 1 .. Len(Slugs) + 1 /\ stage' \in {"next", "judge"}
          /\ stage' = "judge" => pos' <= Len(Slugs)
      <3>1. pos \in Nat /\ 1 <= pos /\ Len(Slugs) \in Nat
        OBVIOUS
      <3>2. stage = "next" /\ pos <= Len(Slugs)
        BY <1>2 DEF ReadTenant
      <3>3. \/ stage' = "judge" /\ pos' = pos
            \/ pos' = pos + 1 /\ stage' = stage
        BY <1>2 DEF ReadTenant
      <3> QED
        BY <3>1, <3>2, <3>3
    <2>4. UNCHANGED <<provider, claims, verified, kept, identity, asked>>
      BY <1>2 DEF ReadTenant
    <2> QED
      BY <2>1, <2>2, <2>3, <2>4 DEF IdentityPermitted
  <1>3. CASE Judge
    <2>1. identity' = Nil
      BY <1>3 DEF Judge
    <2>2. Slugs[pos] \in Range(Slugs) /\ pos' \in 1 .. Len(Slugs) + 1
      BY <1>3 DEF Judge
    <2>3. kept' \in Seq(Range(Slugs))
      BY <1>3, <2>2 DEF Judge
    <2> QED
      BY <1>3, <2>1, <2>2, <2>3, NoPolicyTyped DEF Judge, IdentityPermitted
  <1>4. CASE LoopDone
    <2>1. identity' = Nil
      BY <1>4 DEF LoopDone
    <2> QED
      BY <1>4, <2>1 DEF LoopDone, IdentityPermitted
  <1>5. CASE Decide
    <2>1. PICK default \in Defaults, requested \in Requests :
            /\ identity' = IF kept = <<>> \/ (requested # Nil /\ ~HasSlug(kept, requested))
                           THEN Nil
                           ELSE PinnedTenant(default, requested)
            /\ asked' = [default |-> default, requested |-> requested]
      BY <1>5 DEF Decide
    <2>2. /\ kept' = kept /\ stage' = "done" /\ UNCHANGED <<provider, claims, verified, pos, policy>>
          /\ asked' \in [default : Defaults, requested : Requests]
          /\ asked'.default = default /\ asked'.requested = requested
      BY <1>5, <2>1 DEF Decide
    <2>3. Range(kept) \subseteq Range(Slugs) /\ (kept # <<>> => kept[1] \in Range(kept))
      BY DEF Range
    <2>4. CASE kept = <<>> \/ (requested # Nil /\ ~HasSlug(kept, requested))
      <3>1. identity' = Nil
        BY <2>1, <2>4
      <3> QED
        BY <2>2, <3>1 DEF IdentityPermitted, Defaults
    <2>5. CASE kept # <<>> /\ requested # Nil /\ HasSlug(kept, requested)
      <3>1. identity' = requested
        BY <2>1, <2>5 DEF PinnedTenant
      <3>2. PICK t \in Range(kept) : Lower[t] = requested
        BY <2>5 DEF HasSlug
      <3> QED
        BY <2>2, <2>5, <3>1, <3>2 DEF IdentityPermitted
    <2>6. CASE kept # <<>> /\ requested = Nil
      <3>1. identity' \in Range(kept) \/ (provider = "" /\ identity' = default)
        BY <2>1, <2>3, <2>6 DEF PinnedTenant, SurvivingDefault
      <3>2. identity' \in Defaults
        BY <2>3, <3>1 DEF Defaults
      <3> QED
        BY <2>2, <2>3, <2>6, <3>1, <3>2 DEF IdentityPermitted
    <2> QED
      BY <2>4, <2>5, <2>6
  <1>6. CASE UNCHANGED admissionVars
    BY <1>6 DEF admissionVars, IdentityPermitted
  <1> QED
    BY <1>1, <1>2, <1>3, <1>4, <1>5, <1>6 DEF AdmissionNext

LEMMA AdmissionInvHolds == AdmissionSpec => []AdmissionInv
  <1>1. AdmissionInit => AdmissionInv
    BY SlugsTyped, NoPolicyTyped
       DEF AdmissionInit, AdmissionInv, AdmissionTypeOK, IdentityPermitted, NotAsked, Defaults, Requests
  <1> QED
    BY <1>1, AdmissionStep, PTL DEF AdmissionSpec

(* Whatever tenants were dropped, by policy or by a failed lookup, and      *)
(* whatever default is stored and whatever tenant is asked for, the end of  *)
(* Resolve pins an identity to a tenant that survived applyAuthChecks; only *)
(* a session without a provider that addresses no tenant gets the stored    *)
(* default as it is.                                                        *)
THEOREM IdentityPermittedHolds == AdmissionSpec => [](AdmissionTypeOK /\ IdentityPermitted)
  <1>1. AdmissionInv => AdmissionTypeOK /\ IdentityPermitted
    BY DEF AdmissionInv
  <1> QED
    BY <1>1, AdmissionInvHolds, PTL

(* autoAddAllowed is never laxer than applyAuthChecks: for all checks,      *)
(* allowlists and claims, whoever may be enrolled is admitted as a member,  *)
(* and enrollment rests on a listed organization claim.                     *)
THEOREM EnrollmentRulesHold == AdmissionSpec => []EnrollmentRules
  <1>1. AdmissionInv => EnrollmentRules
    <2> SUFFICES ASSUME AdmissionInv
                 PROVE  EnrollmentRules
      OBVIOUS
    <2> policy \in Policy /\ provider \in Providers /\ claims \in Claims /\ verified \in BOOLEAN
      BY DEF AdmissionInv, AdmissionTypeOK
    <2>1. EnrolledIsAdmitted
      BY EnrolledMember DEF EnrolledIsAdmitted
    <2>2. EnrollmentNeedsOrganization
      BY EnrollmentAuthority DEF EnrollmentNeedsOrganization
    <2> QED
      BY <2>1, <2>2 DEF EnrollmentRules
  <1> QED
    BY <1>1, AdmissionInvHolds, PTL

(* The merge in applyAuthChecks deletes no rule: a tenant that survives     *)
(* under an override satisfies each of its own rules the override leaves    *)
(* alone, the blank Google hd included.                                     *)
THEOREM OverrideFreesNothingHolds == AdmissionSpec => []OverrideFreesNothing
  <1>1. AdmissionInv => OverrideFreesNothing
    <2> SUFFICES ASSUME AdmissionInv, Admits(policy, provider, claims)
                 PROVE  EvaluateTenantChecks(provider,
                          [k \in ClaimNames |-> IF policy.override[k] = NoRule
                                                THEN policy.checks[k] ELSE NoRule],
                          claims, TRUE)
      BY DEF OverrideFreesNothing
    <2> DEFINE own == [k \in ClaimNames |-> IF policy.override[k] = NoRule
                                            THEN policy.checks[k] ELSE NoRule]
    <2>1. policy \in Policy /\ policy.checks \in [ClaimNames -> Wants \cup {NoRule}]
      BY DEF AdmissionInv, AdmissionTypeOK, Policy, Checks
    <2>2. own \in [ClaimNames -> Wants \cup {NoRule}]
      BY <2>1
    <2>3. /\ Merged(policy) \in [ClaimNames -> Wants \cup {NoRule}]
          /\ \A k \in ClaimNames : Merged(policy)[k] = RuleOf(policy, k)
      BY <2>1, MergedRules
    <2>4. \A k \in ClaimNames : own[k] \in {Merged(policy)[k], NoRule}
      BY <2>3 DEF RuleOf
    <2>5. EvaluateTenantChecks(provider, Merged(policy), claims, TRUE)
      BY DEF Admits
    <2> HIDE DEF own
    <2>6. EvaluateTenantChecks(provider, own, claims, TRUE)
      BY <2>2, <2>3, <2>4, <2>5, FewerRules
    <2> QED
      BY <2>6 DEF own
  <1> QED
    BY <1>1, AdmissionInvHolds, PTL

(* applyAuthChecks computes what docs/admission.md promises, for every      *)
(* policy, override, provider and set of claims: the early exits, the merge *)
(* and the special case for hd add up to one condition per claim.           *)
THEOREM AdmitsAsDocumentedHolds == AdmissionSpec => []AdmitsAsDocumented
  <1>1. AdmissionInv => AdmitsAsDocumented
    <2> SUFFICES ASSUME AdmissionInv
                 PROVE  AdmitsAsDocumented
      OBVIOUS
    <2>1. policy \in Policy /\ claims \in Claims /\ policy.override \in Checks
      BY DEF AdmissionInv, AdmissionTypeOK, Policy
    <2>2. ProviderAllowed(policy.providers, provider) <=>
            (policy.providers.kind = "list" =>
                \/ provider \in policy.providers.names
                \/ policy.providers.names = {} /\ policy.providers.clean)
      BY DEF ProviderAllowed, Unrestricted
    <2>3. policy.override = NoChecks <=> \A k \in ClaimNames : policy.override[k] = NoRule
      BY <2>1 DEF NoChecks, Checks
    <2>4. EvaluateTenantChecks(provider, Merged(policy), claims, TRUE)
            <=> \A k \in ClaimNames : Documented(provider, k, RuleOf(policy, k), claims[k])
      <3>1. /\ Merged(policy) \in [ClaimNames -> Wants \cup {NoRule}]
            /\ \A k \in ClaimNames : Merged(policy)[k] = RuleOf(policy, k)
        BY <2>1, MergedRules
      <3>2. EvaluateTenantChecks(provider, Merged(policy), claims, TRUE)
              <=> \A k \in ClaimNames : Documented(provider, k, Merged(policy)[k], claims[k])
        BY <2>1, <3>1, EvaluationMeaning
      <3> QED
        BY <3>1, <3>2
    <2> QED
      BY <2>2, <2>3, <2>4 DEF AdmitsAsDocumented, Admits, Documented
  <1> QED
    BY <1>1, AdmissionInvHolds, PTL

=============================================================================
