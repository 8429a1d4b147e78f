---------------------------- MODULE Identifiers ----------------------------
(***************************************************************************)
(* How a user's email or a tenant's domain is spelled, and the places that *)
(* normalise a spelling: the operator API (internal/admin/validation.go),  *)
(* the unique indexes and the lookups in SQL (migrations/001_auth.sql,     *)
(* mtdb.go), and the resolver (resolver.go).                               *)
(*                                                                         *)
(* A spelling is a name together with what writers vary: capitals (only    *)
(* ASCII ones, or others too), what surrounds it (spaces only, or other    *)
(* white space too), the Unicode or the ASCII form of an international     *)
(* domain, dots at the end.                                                *)
(***************************************************************************)
EXTENDS Naturals, FiniteSets

CONSTANTS
    Names,
    LowersAll      \* lower() of this database's collation knows every letter

Spellings ==
    [name : Names, upper : {"none", "ascii", "other"}, padded : {"none", "space", "other"},
     unicode : BOOLEAN, dots : 0 .. 2]

Kinds == {"user", "domain"}

(* A row of public.users, by its email, or of public.tenant_domains.        *)
Rows == [kind : Kinds, text : Spellings]

(* strings.ToLower and strings.TrimSpace                                    *)
Lower(s) == [s EXCEPT !.upper = "none"]
Trim(s) == [s EXCEPT !.padded = "none"]
ToASCII(s) == [s EXCEPT !.unicode = FALSE]

(* Mutant: the domain is stored in the form it was typed.                   *)
DomainAsTyped(s) == [Trim(Lower(s)) EXCEPT !.dots = 0]

(* domain(), and email(), which normalises what follows the @ with it.      *)
Domain(s) == [ToASCII(Trim(Lower(s))) EXCEPT !.dots = 0]
Email(s) == Domain(Lower(Trim(s)))

Validated(kind, s) == IF kind = "user" THEN Email(s) ELSE Domain(s)

(* One dot at the end of a domain is taken off, a second leaves an empty    *)
(* label; net/mail refuses an address that ends in a dot.                   *)
Valid(kind, s) == s.dots <= (IF kind = "user" THEN 0 ELSE 1)

(* lower(), which follows the collation, and btrim(), which takes off       *)
(* spaces and nothing else; what is not at the end rtrim() does not see.    *)
SqlLower(s) == IF s.upper = "other" /\ ~LowersAll THEN s ELSE Lower(s)
SqlTrim(s) == IF s.padded = "other" THEN s ELSE Trim(s)
SqlUndot(s) == IF s.padded = "other" THEN s ELSE [s EXCEPT !.dots = 0]

(* lower(btrim(email)), and lower(rtrim(btrim(domain), '.')): the columns   *)
(* of the normalised indexes, and the left side of each lookup.             *)
SqlEmail(s) == SqlLower(SqlTrim(s))
SqlDomain(s) == SqlLower(SqlUndot(SqlTrim(s)))
SqlKey(row) == IF row.kind = "user" THEN SqlEmail(row.text) ELSE SqlDomain(row.text)

(* Mutant: the claim is looked up as it came.                               *)
ClaimKeyAsIs(s) == s

(* Resolve lowers the address claim, emailDomain what follows its @, and    *)
(* neither does anything else.                                              *)
ClaimKey(s) == Lower(s)

(* What a provider sends: an address, with no space around it or dot at its *)
(* end.                                                                     *)
Claims == {s \in Spellings : s.padded = "none" /\ s.dots = 0}

(* What SQL brings to the form that the resolver looks up.                  *)
Normalisable(s) == s.padded # "other" /\ (s.upper # "other" \/ LowersAll)

(* GetUserWithTenants, GetTenantByDomain: the rows a lookup matches.        *)
Found(rows, kind, key) == {r \in rows : r.kind = kind /\ SqlKey(r) = key}

(* What the normalised unique indexes accept.                               *)
Unambiguous(rows) ==
    \A r, s \in rows : r.kind = s.kind /\ SqlKey(r) = SqlKey(s) => r = s

=============================================================================
