------------------------------ MODULE Members ------------------------------
(***************************************************************************)
(* Members of one organisation: UsersService.create, updateRole and        *)
(* removeMember, which counts the admins before it removes one.            *)
(***************************************************************************)
EXTENDS Naturals, FiniteSets

CONSTANTS
  People,    \* users
  Removals   \* calls of removeMember at the same time

ASSUME MemberAssumption == IsFiniteSet(People)

VARIABLES
  role,     \* Member rows: none, admin, or any other role
  removal,  \* calls: place, member
  stale     \* history: calls since whose look at the admins one of them ceased to be
            \* one, or the member to be removed became one

memberVars == <<role, removal, stale>>

NoRemoval == [at |-> "idle", who |-> {}]
Admins == {u \in People : role[u] = "admin"}

MemberInit ==
  /\ role \in [People -> {"none", "admin", "other"}] /\ Admins # {}
  /\ removal = [c \in Removals |-> NoRemoval] /\ stale = {}

Looked == {c \in Removals : removal[c].at # "idle"}

\* create adds a member, updateRole writes any role, a last admin's too.
SetRole(u) ==
  /\ \E r \in {"admin", "other"} :
       /\ role' = [role EXCEPT ![u] = r]
       /\ stale' = IF (role[u] = "admin") # (r = "admin") THEN stale \cup Looked ELSE stale
  /\ UNCHANGED removal

RemoveRead(c) ==
  /\ removal[c].at = "idle"
  /\ \E u \in People :
       /\ role[u] # "none"
       /\ removal' = [removal EXCEPT ![c] =
            [at |-> IF role[u] = "admin" THEN "count" ELSE "delete", who |-> {u}]]
  /\ UNCHANGED <<role, stale>>

\* Mutant of Enough: the one to be removed is not counted.
EnoughWithOne == Cardinality(Admins) >= 1
Enough == Cardinality(Admins) > 1

RemoveCount(c) ==
  /\ removal[c].at = "count"
  /\ removal' = [removal EXCEPT ![c] = IF Enough THEN [@ EXCEPT !.at = "delete"] ELSE NoRemoval]
  /\ stale' = stale \ {c}
  /\ UNCHANGED role

RemoveDelete(c) ==
  LET who == removal[c].who IN
  /\ removal[c].at = "delete"
  /\ role' = [u \in People |-> IF u \in who THEN "none" ELSE role[u]]
  /\ removal' = [removal EXCEPT ![c] = NoRemoval]
  /\ stale' = (IF who \cap Admins # {} THEN stale \cup Looked ELSE stale) \ {c}

MemberNext ==
  \/ \E u \in People : SetRole(u)
  \/ \E c \in Removals : RemoveRead(c) \/ RemoveCount(c) \/ RemoveDelete(c)

MemberSpec == MemberInit /\ [][MemberNext]_memberVars

(***************************************************************************)
(* Properties.                                                             *)
(***************************************************************************)
MemberTypeOK ==
  /\ role \in [People -> {"none", "admin", "other"}]
  /\ removal \in [Removals -> [at : {"idle", "count", "delete"}, who : SUBSET People]]
  /\ stale \subseteq Removals

\* "Cannot remove the last admin": a removal leaves an organisation without one
\* only if an admin was removed or demoted, or the member made one, after the
\* removal had looked.  A demotion may do it at any time.
\* (UsersService.removeMember, users.service.ts:133)
LastAdminRemovedOnlyWhenStale ==
  [][Admins # {} /\ Admins' = {} =>
       \/ \E u \in People : role[u] = "admin" /\ role'[u] = "other"
       \/ \E c \in stale : removal[c].at = "delete" /\ removal'[c].at = "idle"]_memberVars
=============================================================================
