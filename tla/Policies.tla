------------------------------ MODULE Policies ------------------------------
(***************************************************************************)
(* Policies and their revisions: server/api/reconcile_routes.py over the   *)
(* tables of server/db/models/policy.py.  A revision is identified by its  *)
(* policy and number; its document stands for its config_hash, which is    *)
(* unique in a workspace.                                                  *)
(***************************************************************************)
EXTENDS Requests

CONSTANTS
  PolicyNames,
  Documents,    \* valid policy documents, one per config_hash
  Invalid       \* a document load_policy_document rejects

VARIABLES
  policies,   \* per policy: its workspace and name
  revisions   \* the revision rows

policyVars == <<policies, revisions>>

Revision(ws, p, n, document) == [ws |-> ws, policy |-> p, number |-> n, document |-> document]

RevisionsOf(p) == {v \in revisions : v.policy = p}

\* _latest_revision: the one with the highest number
latest_revision(p) ==
  CHOOSE v \in RevisionsOf(p) : \A u \in RevisionsOf(p) : u.number <= v.number

\* The unique constraints of policy_revisions
RevisionTaken(v) ==
  \E u \in revisions :
    \/ u.policy = v.policy /\ u.number = v.number
    \/ u.ws = v.ws /\ u.document = v.document

NameTaken(ws, name) == \E p \in DOMAIN policies : policies[p] = [ws |-> ws, name |-> name]

\* 422 for a document that does not validate, 409 for a name in use
CreatePolicyRead(r, name, document) ==
  /\ At(r, "authed", "policy.create")
  /\ \/ (document = Invalid \/ NameTaken(req[r].ws, name)) /\ Refuse(r)
     \/ /\ document # Invalid /\ ~NameTaken(req[r].ws, name)
        /\ Loaded(r, [name |-> name, document |-> document])
        /\ UNCHANGED <<users, workspaces, tokens, audit>>
  /\ UNCHANGED policyVars

\* The policy and its revision 1
create_policy(r) ==
  LET ws   == req[r].ws
      name == req[r].seen.name
      v    == Revision(ws, r, 1, req[r].seen.document) IN
  /\ At(r, "ready", "policy.create")
  /\ \/ /\ NameTaken(ws, name) \/ RevisionTaken(v)
        /\ RollBack(r)
        /\ UNCHANGED policyVars
     \/ /\ ~(NameTaken(ws, name) \/ RevisionTaken(v))
        /\ policies'  = Insert(policies, r, [ws |-> ws, name |-> name])
        /\ revisions' = revisions \cup {v}
        /\ Commit(r, r)
        /\ UNCHANGED <<users, workspaces, tokens>>

\* 404, 422, or nothing to do when the latest revision says the same; the
\* next number is computed from the revision read here
CreateRevisionRead(r, p, document) ==
  LET latest == latest_revision(p) IN
  /\ At(r, "authed", "policy.revise")
  /\ \/ (policies[p].ws # req[r].ws \/ document = Invalid) /\ Refuse(r)
     \/ policies[p].ws = req[r].ws /\ latest.document = document /\ Nothing(r)
     \/ /\ policies[p].ws = req[r].ws /\ document \notin {Invalid, latest.document}
        /\ Loaded(r, [revision |-> Revision(req[r].ws, p, latest.number + 1, document)])
        /\ UNCHANGED <<users, workspaces, tokens, audit>>
  /\ UNCHANGED policyVars

create_policy_revision(r) ==
  LET v == req[r].seen.revision IN
  /\ At(r, "ready", "policy.revise")
  /\ \/ RevisionTaken(v) /\ RollBack(r) /\ UNCHANGED revisions
     \/ /\ ~RevisionTaken(v)
        /\ revisions' = revisions \cup {v}
        /\ Commit(r, v.policy)
        /\ UNCHANGED <<users, workspaces, tokens>>
  /\ UNCHANGED policies

PolicyNext ==
  \E r \in Requests :
    \/ \E name \in PolicyNames, document \in Documents \cup {Invalid} :
         CreatePolicyRead(r, name, document)
    \/ create_policy(r)
    \/ \E p \in DOMAIN policies, document \in Documents \cup {Invalid} :
         CreateRevisionRead(r, p, document)
    \/ create_policy_revision(r)

-----------------------------------------------------------------------------
(* Properties *)

\* The numbers of every policy's revisions are 1, 2, ... without a gap or a
\* repetition, and every policy has one: two edits that read the same latest
\* revision cannot both take the next number, and a policy is never seen
\* without its first revision.
RevisionsAreNumbered ==
  \A p \in DOMAIN policies :
    /\ {v.number : v \in RevisionsOf(p)} = 1..Cardinality(RevisionsOf(p))
    /\ RevisionsOf(p) # {}

=============================================================================
