CONSTANTS
    Words = {"w1", "w2"}
    OrgIds = {"w1"}
    ClaimNames = {"hd", "tid"}
    Wants <- MCWants
    Providers = {"", "google", "microsoft"}
    Slugs <- MCSlugs
    Lower <- MCLower
    Nil = Nil
SPECIFICATION AdmissionSpec
INVARIANTS IdentityPermitted AdmitsAsDocumented OverrideFreesNothing
    EnrollmentRules
CHECK_DEADLOCK FALSE
