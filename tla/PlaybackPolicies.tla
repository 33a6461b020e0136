-------------------------- MODULE PlaybackPolicies --------------------------
(***************************************************************************)
(* The policies that may apply to one camera, one per level, and           *)
(* PoliciesService.resolve, which merges them field by field.  The scalar  *)
(* stands for ttlSeconds, maxViewers and allowNoReferer, which one loop    *)
(* treats alike.  domains has no null: what is not given is the empty      *)
(* list, and the empty list allows every domain.                           *)
(***************************************************************************)
EXTENDS Naturals, Optional

CONSTANTS
  Scalars, SystemScalar,  \* values of a scalar; the built-in default
  Domains                 \* patterns of allowed domains

ASSUME PolicyAssumption == SystemScalar \in Scalars /\ None \notin Scalars

PolicyLevel == {"CAMERA", "SITE", "PROJECT", "SYSTEM"}
Policies == [scalar : Scalars \cup {None}, domains : SUBSET Domains]

VARIABLES
  policy,  \* rows by level; <<>>: no row.  cameraId, siteId and projectId are unique; of
           \* the SYSTEM level there is one, the seeded one
  seeding  \* PoliciesService.onModuleInit: place

policyVars == <<policy, seeding>>
NoPolicy == <<>>
Set(l) == policy[l] # NoPolicy
SystemDefault == [scalar |-> SystemScalar, domains |-> {}]

\* The database as it was left: SYSTEM may not be there before the first boot.
PolicyInit ==
  /\ policy = [l \in PolicyLevel |-> NoPolicy] /\ seeding = "find"

SeedFind ==
  /\ seeding = "find" /\ seeding' = IF Set("SYSTEM") THEN "done" ELSE "create"
  /\ UNCHANGED policy

SeedCreate ==
  /\ seeding = "create" /\ seeding' = "done"
  /\ policy' = [policy EXCEPT !["SYSTEM"] = SystemDefault]

PolicyReboot == seeding = "done" /\ seeding' = "find" /\ UNCHANGED policy

PutPolicy(l, p) == policy' = [policy EXCEPT ![l] = p] /\ UNCHANGED seeding

\* create: a second row for the same camera, site or project is refused.
CreatePolicy(l) ==
  /\ seeding = "done" /\ ~Set(l)
  /\ \E p \in Policies : PutPolicy(l, p)

\* update: any field; domains may be emptied and not be taken back.
UpdatePolicy(l) ==
  /\ seeding = "done" /\ Set(l)
  /\ \E p \in Policies : PutPolicy(l, p)

\* remove: not the system default.
RemovePolicy(l) == seeding = "done" /\ l # "SYSTEM" /\ Set(l) /\ PutPolicy(l, NoPolicy)

PolicyNext ==
  \/ SeedFind \/ SeedCreate \/ PolicyReboot
  \/ \E l \in PolicyLevel : CreatePolicy(l) \/ UpdatePolicy(l) \/ RemovePolicy(l)

PolicySpec == PolicyInit /\ [][PolicyNext]_policyVars

(***************************************************************************)
(* resolve: the rows in order of priority; for a scalar the first that is  *)
(* not null, for domains the first.                                        *)
(***************************************************************************)
\* Mutant of LEVEL_PRIORITY: a site's policy before a camera's.
PrioritySiteFirst(l) == CASE l = "SITE" -> 0 [] l = "CAMERA" -> 1 [] l = "PROJECT" -> 2 [] l = "SYSTEM" -> 3
LEVEL_PRIORITY(l) == CASE l = "CAMERA" -> 0 [] l = "SITE" -> 1 [] l = "PROJECT" -> 2 [] l = "SYSTEM" -> 3

Applying == {l \in PolicyLevel : Set(l)}
FirstOf(levels) == CHOOSE l \in levels : \A m \in levels : LEVEL_PRIORITY(l) <= LEVEL_PRIORITY(m)

ResolvedScalar ==
  LET given == {l \in Applying : policy[l].scalar # None} IN
  IF given = {} THEN SystemScalar ELSE policy[FirstOf(given)].scalar

ResolvedDomains == IF Applying = {} THEN SystemDefault.domains ELSE policy[FirstOf(Applying)].domains

(***************************************************************************)
(* Properties.                                                             *)
(***************************************************************************)
PolicyTypeOK ==
  /\ policy \in [PolicyLevel -> Policies \cup {NoPolicy}]
  /\ seeding \in {"find", "create", "done"}

Own(l, above) == IF Set(l) /\ policy[l].scalar # None THEN policy[l].scalar ELSE above
Inherited == Own("CAMERA", Own("SITE", Own("PROJECT", Own("SYSTEM", SystemScalar))))

\* "Camera overrides Site, Site overrides Project, Project overrides System":
\* a scalar is what the nearest level gives, whatever policies were added, edited,
\* emptied and removed at which level.
\* (PoliciesService.resolve, policies.service.ts:184)
ScalarsInherited == ResolvedScalar = Inherited
=============================================================================
