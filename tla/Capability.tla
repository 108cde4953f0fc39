------------------------------ MODULE Capability ------------------------------
(***************************************************************************)
(* The predicates every other part decides with: identity.Principal        *)
(* (identity/principal.go) and capability.Descriptor                       *)
(* (capability/capability.go).                                             *)
(*                                                                         *)
(* A string is "" or something else, which is all the code asks of it.     *)
(* Capability names and IDs are natural numbers, in the byte order of the  *)
(* strings they stand for; 0 is the empty string.                          *)
(***************************************************************************)
EXTENDS Naturals

CONSTANT Roles   \* the role names in use

SubjectUser == "user"
SubjectService == "service"

\* identity.Principal.  AuthMethod and CredentialID matter to
\* Authentication.Valid only; scopes and attributes decide nothing.
Principal == [subject : STRING, tenant : STRING, user : STRING,
              client : STRING, roles : SUBSET Roles]

\* Principal.Valid
Valid(p) ==
  /\ p.tenant # ""
  /\ \/ p.subject = SubjectUser /\ p.user # ""
     \/ p.subject = SubjectService /\ p.client # ""

\* Principal.IsUser
IsUser(p) == p.subject = SubjectUser /\ p.tenant # "" /\ p.user # ""

\* Principal.IsService
IsService(p) == p.subject = SubjectService /\ p.tenant # "" /\ p.client # ""

\* Principal.HasAllRoles
HasAllRoles(p, required) == required \subseteq p.roles

-------------------------------------------------------------------------------

IdentityAny == "any"
IdentityUser == "user"
IdentityService == "service"

\* Descriptor.  `described` : version and description are not empty;
\* `nameOK` : the name matches toolNamePattern; `schemas` : both schemas are
\* set.  ID and name are numbers, as said above.
Descriptor == [id : Nat, name : Nat, described : BOOLEAN, nameOK : BOOLEAN,
               risk : STRING, readOnly : BOOLEAN, need : STRING,
               roles : SUBSET Roles, schemas : BOOLEAN]

\* normalizedIdentityRequirement : the empty requirement means "any", an
\* unknown one is turned into the empty string, which Validate refuses.
NormalizedIdentityRequirement(need) ==
  CASE need = "" -> IdentityAny
    [] need \in {IdentityAny, IdentityUser, IdentityService} -> need
    [] OTHER -> ""

\* Descriptor.Validate returned nil
Validates(d) ==
  /\ d.id # 0 /\ d.name # 0 /\ d.described
  /\ d.nameOK
  /\ d.risk \in {"R0", "R1"}
  /\ d.readOnly
  /\ NormalizedIdentityRequirement(d.need) # ""
  /\ d.schemas

\* Descriptor.AllowsPrincipal
AllowsPrincipal(d, p) ==
  LET need == NormalizedIdentityRequirement(d.need)
  IN \/ need = IdentityAny /\ Valid(p)
     \/ need = IdentityUser /\ IsUser(p)
     \/ need = IdentityService /\ IsService(p)

===============================================================================
