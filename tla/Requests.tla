------------------------------ MODULE Requests ------------------------------
(***************************************************************************)
(* One request against /api/v1: who sends it (server/api/deps.py,          *)
(* server/security.py), the session it works in (server/app.py,            *)
(* server/db/session.py) and the audit event it leaves (server/audit.py),  *)
(* with the tables those use: users, workspaces and api_tokens.            *)
(*                                                                         *)
(* The tables hold COMMITTED rows (PostgreSQL, READ COMMITTED).  A handler *)
(* reads rows without locks and writes at the end, in one transaction with *)
(* its audit event; everything other requests commit in between is         *)
(* invisible to it.  A unique or foreign-key constraint that fails at the  *)
(* end rolls the whole transaction back and is answered with a 500.  The   *)
(* ORM writes only the columns a handler changed.  A new row is named by   *)
(* the request that inserts it, as uuid4 names it in the code.             *)
(***************************************************************************)
EXTENDS Naturals, FiniteSets

CONSTANTS
  Requests,   \* bound: the requests sent
  Ops,        \* the operations they may call
  None        \* NULL

VARIABLES
  req,         \* per request: step, operation, caller, workspace, rows loaded
  users,       \* the e-mail addresses of the users
  workspaces,  \* per workspace: its slug
  tokens,      \* per API token: workspace, scopes, expiry, revocation, use
  audit        \* the audit events

requestVars == <<req, users, workspaces, tokens, audit>>

-----------------------------------------------------------------------------
(* Rows and answers *)

Insert(table, id, row) == [x \in DOMAIN table \cup {id} |-> IF x = id THEN row ELSE table[x]]

Delete(table, ids) == [x \in DOMAIN table \ ids |-> table[x]]

\* 2xx with a change, 2xx with none, 4xx or 503, 500
Answers == {"done", "same", "refused", "failed"}

RequestPc == {"new", "identified", "authed", "ready"} \cup Answers

NoRows == [none |-> TRUE]

NewRequest == [pc |-> "new", op |-> "none", tok |-> None, ws |-> None, seen |-> NoRows]

\* The scope each operation requires
ScopeOf ==
  [op \in Ops |->
     CASE op \in {"source_collection.create", "source_collection.scan"} -> "sources"
       [] op \in {"pipeline_config.create", "build.create", "manifest.verify"} -> "builds"
       [] op \in {"target.create", "target.update", "target.delete"} -> "targets"
       [] op = "snapshot.create" -> "snapshots"
       [] op \in {"policy.create", "policy.revise", "reconciliation.evaluate"} -> "policies"
       [] op \in {"reconciliation.create", "reconciliation.plan"} -> "reconciliations"
       [] OTHER -> "admin"]

At(r, pc, op) == req[r].pc = pc /\ req[r].op = op

\* The session is closed, after its commit ("done") or without one, and the
\* answer sent; who sent a request that changed nothing is not kept
Answer(r, a) ==
  req' = [req EXCEPT ![r] = IF a = "done" THEN [@ EXCEPT !.pc = a, !.seen = NoRows]
                            ELSE [NewRequest EXCEPT !.pc = a]]

\* The handler has read what it decides on
Loaded(r, rows) == req' = [req EXCEPT ![r].pc = "ready", ![r].seen = rows]

\* A 4xx, or a 2xx that found nothing to do: nothing was written
Refuse(r) == Answer(r, "refused") /\ UNCHANGED <<users, workspaces, tokens, audit>>

Nothing(r) == Answer(r, "same") /\ UNCHANGED <<users, workspaces, tokens, audit>>

\* AuditLog.record: one more event, in the caller's transaction
record(r, entity) ==
  audit' = audit \cup {[request |-> r, actor |-> req[r].tok, action |-> req[r].op, entity |-> entity]}

\* Mutant: the audit event is committed on its own
RollBack_keeps_event(r) ==
  /\ Answer(r, "failed")
  /\ record(r, r)
  /\ UNCHANGED <<users, workspaces, tokens>>

\* IntegrityError or StaleDataError: rows and audit event go together
RollBack(r) == Answer(r, "failed") /\ UNCHANGED <<users, workspaces, tokens, audit>>

\* The rows are written, the event is recorded, the transaction commits
Commit(r, entity) == Answer(r, "done") /\ record(r, entity)

-----------------------------------------------------------------------------
(* Who calls *)

Expired(t) == tokens[t].expires_at = "past"

\* authenticate: no bearer token, a malformed one, or one no row matches
RefuseUnknown(r) ==
  /\ req[r].pc = "new"
  /\ Refuse(r)

\* authenticate: the row behind the selector, as it is now
authenticate(r, op, t, ws) ==
  /\ req[r].pc = "new"
  /\ tokens[t].revoked_at = "null"
  /\ ~Expired(t)
  /\ req' = [req EXCEPT ![r] =
       [pc |-> "identified", op |-> op, tok |-> t, ws |-> ws, seen |-> tokens[t]]]
  /\ UNCHANGED <<users, workspaces, tokens, audit>>

has_scope(t, s) == {s, "admin"} \cap tokens[t].scopes # {}

\* Mutant: the commit writes the loaded row back, not the changed column
require_scope_whole_row(r) ==
  LET t == req[r].tok IN
  /\ req[r].pc = "identified"
  /\ tokens' = [tokens EXCEPT ![t] = [req[r].seen EXCEPT !.last_used_at = "set"]]
  /\ \/ /\ tokens[t].ws = req[r].ws /\ has_scope(t, ScopeOf[req[r].op])
        /\ req' = [req EXCEPT ![r].pc = "authed", ![r].seen = NoRows]
     \/ /\ ~(tokens[t].ws = req[r].ws /\ has_scope(t, ScopeOf[req[r].op]))
        /\ Answer(r, "refused")
  /\ UNCHANGED <<users, workspaces, audit>>

\* authenticate's own commit, of last_used_at alone; then require_workspace
\* (404) and the check of require_scope (403)
require_scope(r) ==
  LET t == req[r].tok IN
  /\ req[r].pc = "identified"
  /\ tokens' = [tokens EXCEPT ![t].last_used_at = "set"]
  /\ \/ /\ tokens[t].ws = req[r].ws /\ has_scope(t, ScopeOf[req[r].op])
        /\ req' = [req EXCEPT ![r].pc = "authed", ![r].seen = NoRows]
     \/ /\ ~(tokens[t].ws = req[r].ws /\ has_scope(t, ScopeOf[req[r].op]))
        /\ Answer(r, "refused")
  /\ UNCHANGED <<users, workspaces, audit>>

\* The clock passes a token's expires_at
TokenExpires(t) ==
  /\ tokens[t].expires_at = "ahead"
  /\ tokens' = [tokens EXCEPT ![t].expires_at = "past"]
  /\ UNCHANGED <<req, users, workspaces, audit>>

-----------------------------------------------------------------------------
(* bootstrap *)

Token(ws, scopes, expires) ==
  [ws |-> ws, scopes |-> scopes, expires_at |-> expires, revoked_at |-> "null",
   last_used_at |-> "null"]

\* No user is there: 409 otherwise, and no token is asked for
BootstrapRead(r, email) ==
  /\ req[r].pc = "new"
  /\ \/ users # {} /\ Refuse(r)
     \/ /\ users = {}
        /\ req' = [req EXCEPT ![r].pc = "ready", ![r].op = "auth.bootstrap",
                              ![r].seen = [email |-> email]]
        /\ UNCHANGED <<users, workspaces, tokens, audit>>

\* First user, workspace, owner membership and admin token; e-mail and slug
\* are unique, and a caller that repeats itself repeats both
bootstrap(r) ==
  LET email == req[r].seen.email IN
  /\ At(r, "ready", "auth.bootstrap")
  /\ \/ email \in users /\ RollBack(r)
     \/ /\ email \notin users
        /\ users'      = users \cup {email}
        /\ workspaces' = Insert(workspaces, r, email)
        /\ tokens'     = Insert(tokens, r, Token(r, {"admin"}, "null"))
        /\ Commit(r, r)

-----------------------------------------------------------------------------
(* Workspaces and API tokens *)

\* The name is no identity: only the event tells
update_workspace(r) ==
  /\ At(r, "authed", "workspace.update")
  /\ Commit(r, req[r].ws)
  /\ UNCHANGED <<users, workspaces, tokens>>

\* 422 for an expiry that is not in the future
create_api_token(r, scopes, expires) ==
  /\ At(r, "authed", "api_token.create")
  /\ \/ expires = "past" /\ Refuse(r)
     \/ /\ expires # "past"
        /\ tokens' = Insert(tokens, r, Token(req[r].ws, scopes, expires))
        /\ Commit(r, r)
        /\ UNCHANGED <<users, workspaces>>

\* The row to revoke: 404 in another workspace, nothing to do when revoked
RevokeRead(r, t) ==
  /\ At(r, "authed", "api_token.revoke")
  /\ \/ tokens[t].ws # req[r].ws /\ Refuse(r)
     \/ tokens[t].ws = req[r].ws /\ tokens[t].revoked_at # "null" /\ Nothing(r)
     \/ /\ tokens[t].ws = req[r].ws /\ tokens[t].revoked_at = "null"
        /\ Loaded(r, [token |-> t])
        /\ UNCHANGED <<users, workspaces, tokens, audit>>

revoke_api_token(r) ==
  LET t == req[r].seen.token IN
  /\ At(r, "ready", "api_token.revoke")
  /\ tokens' = [tokens EXCEPT ![t].revoked_at = "set"]
  /\ Commit(r, t)
  /\ UNCHANGED <<users, workspaces>>

\* ops: the operations that are called
RequestNext(ops) ==
  \/ \E r \in Requests :
       \/ RefuseUnknown(r)
       \/ \E op \in ops \ {"auth.bootstrap"}, t \in DOMAIN tokens, ws \in DOMAIN workspaces :
            authenticate(r, op, t, ws)
       \/ require_scope(r)
       \/ \E email \in {"a", "b"} : "auth.bootstrap" \in ops /\ BootstrapRead(r, email)
       \/ bootstrap(r)
       \/ update_workspace(r)
       \/ \E expires \in {"null", "ahead", "past"} :
            create_api_token(r, {"policies", "targets"}, expires)
       \/ \E t \in DOMAIN tokens : RevokeRead(r, t)
       \/ revoke_api_token(r)
  \/ \E t \in DOMAIN tokens : TokenExpires(t)

=============================================================================
