------------------------------ MODULE Sources ------------------------------
(***************************************************************************)
(* Source collections, pipeline configs and the scan of a collection:      *)
(* server/api/pipeline_routes.py and run_scan_job of server/handlers.py    *)
(* over the tables of server/db/models/sources.py.  Discovery's own walk   *)
(* is module BuildPipeline; here it yields the tree as it is at one moment. *)
(*                                                                         *)
(* A source's portable id comes from namespace and URI, a version's from   *)
(* that and the content, and neither from the workspace.  Namespaces are   *)
(* unique in a workspace, so an asset is told by its collection and file;  *)
(* but collections of two workspaces may share a namespace, and then the   *)
(* ids of their versions.                                                  *)
(***************************************************************************)
EXTENDS Requests

CONSTANTS
  Namespaces,
  ConfigHashes,
  Scanned,      \* the collections whose scans are followed
  Files,        \* 1, 2, ...: discovery's sorted order
  Contents,
  MaxTreeEdits  \* bound: files changed, added or removed under the root

ASSUME FilesAssumption == Files \subseteq Nat /\ MaxTreeEdits \in Nat

VARIABLES
  collections,  \* per collection: workspace and namespace
  configs,      \* per pipeline config: workspace and hash
  tree,         \* per scanned collection and file under its root: the content, or "gone"
  assets,       \* per scanned collection: its source assets, "active" or "tombstone"
  versions,     \* the source version rows: workspace and portable id
  scans,        \* per scan job: where it is and what it has read
  edits

sourceVars == <<collections, configs, tree, assets, versions, scans, edits>>

scanVars == <<tree, assets, versions, scans, edits>>

-----------------------------------------------------------------------------
(* Collections and pipeline configs *)

Taken(table, row) == \E x \in DOMAIN table : table[x] = row

\* 422 for the root (no directory, or outside the allowed bases), 409 for the
\* namespace
CreateCollectionRead(r, ns, root_ok) ==
  LET row == [ws |-> req[r].ws, namespace |-> ns] IN
  /\ At(r, "authed", "source_collection.create")
  /\ \/ (~root_ok \/ Taken(collections, row)) /\ Refuse(r)
     \/ /\ root_ok /\ ~Taken(collections, row)
        /\ Loaded(r, row)
        /\ UNCHANGED <<users, workspaces, tokens, audit>>
  /\ UNCHANGED sourceVars

create_source_collection(r) ==
  LET row == req[r].seen IN
  /\ At(r, "ready", "source_collection.create")
  /\ \/ Taken(collections, row) /\ RollBack(r) /\ UNCHANGED collections
     \/ /\ ~Taken(collections, row)
        /\ collections' = Insert(collections, r, row)
        /\ Commit(r, r)
        /\ UNCHANGED <<users, workspaces, tokens>>
  /\ UNCHANGED <<configs, scanVars>>

\* The row of that exact content is returned when it is there
CreateConfigRead(r, hash) ==
  LET row == [ws |-> req[r].ws, hash |-> hash] IN
  /\ At(r, "authed", "pipeline_config.create")
  /\ \/ Taken(configs, row) /\ Nothing(r)
     \/ /\ ~Taken(configs, row)
        /\ Loaded(r, row)
        /\ UNCHANGED <<users, workspaces, tokens, audit>>
  /\ UNCHANGED sourceVars

create_pipeline_config(r) ==
  LET row == req[r].seen IN
  /\ At(r, "ready", "pipeline_config.create")
  /\ \/ Taken(configs, row) /\ RollBack(r) /\ UNCHANGED configs
     \/ /\ ~Taken(configs, row)
        /\ configs' = Insert(configs, r, row)
        /\ Commit(r, r)
        /\ UNCHANGED <<users, workspaces, tokens>>
  /\ UNCHANGED <<collections, scanVars>>

-----------------------------------------------------------------------------
(* The scan job *)

Present(c) == {f \in Files : tree[c][f] # "gone"}

\* core/ids.py: the portable id of a file's version
version_id(c, f, content) ==
  [namespace |-> collections[c].namespace, uri |-> f, content |-> content]

Version(c, f, content) == [ws |-> collections[c].ws, portable_id |-> version_id(c, f, content)]

NewScan(c) == [pc |-> "queued", collection |-> c, records |-> <<>>, existing |-> <<>>,
               checked |-> {}, missing |-> {}, quiet |-> TRUE]

DoneScan(c) == [NewScan(c) EXCEPT !.pc = "done"]

\* The collection's job is queued
scan_source_collection(r, c) ==
  /\ At(r, "authed", "source_collection.scan")
  /\ \/ collections[c].ws # req[r].ws /\ Refuse(r) /\ UNCHANGED scans
     \/ /\ collections[c].ws = req[r].ws
        /\ scans' = Insert(scans, r, NewScan(c))
        /\ Commit(r, c)
        /\ UNCHANGED <<users, workspaces, tokens>>
  /\ UNCHANGED <<collections, configs, tree, assets, versions, edits>>

\* Every other scan of the collection in flight has been overtaken
Disturb(s, c) ==
  [x \in DOMAIN scans |->
     IF x = s \/ scans[x].collection # c \/ scans[x].pc \in {"queued", "done"} THEN scans[x]
     ELSE [scans[x] EXCEPT !.quiet = FALSE]]

\* discover_sources: the files under the root, hashed
Discover(s) ==
  LET c == scans[s].collection IN
  /\ scans[s].pc = "queued"
  /\ scans' = [scans EXCEPT ![s].pc = "discovered", ![s].quiet = TRUE,
                            ![s].records = [f \in Present(c) |-> tree[c][f]]]
  /\ UNCHANGED <<requestVars, collections, configs, tree, assets, versions, edits>>

\* existing_assets
LoadAssets(s) ==
  /\ scans[s].pc = "discovered"
  /\ scans' = [scans EXCEPT ![s].pc = "checking",
                            ![s].existing = assets[scans[s].collection]]
  /\ UNCHANGED <<requestVars, collections, configs, tree, assets, versions, edits>>

Unchecked(s) == DOMAIN scans[s].records \ scans[s].checked

\* Some workspace has a version with that portable id
VersionExists(id) == \E v \in versions : v.portable_id = id

\* The id a scan gives to the version of a file it found
FoundId(s, f) == version_id(scans[s].collection, f, scans[s].records[f])

\* The loop's next record: is its version there already?  The lookup is by
\* portable id alone, so another workspace's row counts
CheckVersion(s) ==
  /\ scans[s].pc = "checking"
  /\ \E f \in Unchecked(s) :
       /\ \A g \in Unchecked(s) : f <= g
       /\ scans' = [scans EXCEPT
            ![s].checked = @ \cup {f},
            ![s].missing = @ \cup (IF VersionExists(FoundId(s, f)) THEN {} ELSE {f})]
  /\ UNCHANGED <<requestVars, collections, configs, tree, assets, versions, edits>>

\* The status each asset row gets: the files found are active, the others
\* tombstones; a row is only written when that differs from what was loaded
ScannedAssets(s) ==
  LET rows   == assets[scans[s].collection]
      found  == DOMAIN scans[s].records
      loaded == scans[s].existing
      new(f) == IF f \in found THEN "active" ELSE "tombstone" IN
  [f \in DOMAIN rows \cup found |->
     IF f \in DOMAIN loaded /\ loaded[f] = new(f) THEN rows[f]
     ELSE IF f \in DOMAIN loaded \cup found THEN new(f) ELSE rows[f]]

\* The version rows the scan inserts
NewVersions(s) ==
  {Version(scans[s].collection, f, scans[s].records[f]) : f \in scans[s].missing}

\* A row this scan inserts was inserted by another one first; portable ids
\* are unique in a workspace
ScanConflict(s) ==
  \/ (DOMAIN scans[s].records \ DOMAIN scans[s].existing) \cap DOMAIN assets[scans[s].collection] # {}
  \/ NewVersions(s) \cap versions # {}

\* Mutant: files that are gone keep their status
run_scan_job_no_tombstones(s) ==
  LET c == scans[s].collection IN
  /\ scans[s].pc = "checking" /\ Unchecked(s) = {} /\ ~ScanConflict(s)
  /\ assets' = [assets EXCEPT ![c] =
       [f \in DOMAIN @ \cup DOMAIN scans[s].records |->
          IF f \in DOMAIN scans[s].records THEN "active" ELSE @[f]]]
  /\ versions' = versions \cup NewVersions(s)
  /\ scans' = [Disturb(s, c) EXCEPT ![s] = DoneScan(c)]
  /\ UNCHANGED <<requestVars, collections, configs, tree, edits>>

\* The flush at the end, and the commit; a conflict rolls the attempt back
\* and the job is queued again
run_scan_job(s) ==
  LET c == scans[s].collection IN
  /\ scans[s].pc = "checking" /\ Unchecked(s) = {}
  /\ \/ /\ ~ScanConflict(s)
        /\ assets'   = [assets EXCEPT ![c] = ScannedAssets(s)]
        /\ versions' = versions \cup NewVersions(s)
        /\ scans'    = [Disturb(s, c) EXCEPT ![s] = DoneScan(c)]
     \/ /\ ScanConflict(s)
        /\ scans' = [scans EXCEPT ![s] = NewScan(c)]
        /\ UNCHANGED <<assets, versions>>
  /\ UNCHANGED <<requestVars, collections, configs, tree, edits>>

\* Somebody edits the tree of a collection
EditTree(c, f, content) ==
  /\ edits < MaxTreeEdits
  /\ tree[c][f] # content
  /\ edits' = edits + 1
  /\ tree'  = [tree EXCEPT ![c][f] = content]
  /\ scans' = Disturb(None, c)
  /\ UNCHANGED <<requestVars, collections, configs, assets, versions>>

SourceNext ==
  \/ \E r \in Requests :
       \/ \E ns \in Namespaces, root_ok \in BOOLEAN : CreateCollectionRead(r, ns, root_ok)
       \/ create_source_collection(r)
       \/ \E hash \in ConfigHashes : CreateConfigRead(r, hash)
       \/ create_pipeline_config(r)
       \/ \E c \in DOMAIN collections \cap Scanned : scan_source_collection(r, c)
  \/ \E s \in DOMAIN scans : Discover(s) \/ LoadAssets(s) \/ CheckVersion(s) \/ run_scan_job(s)
  \/ \E c \in Scanned, f \in Files, content \in Contents \cup {"gone"} : EditTree(c, f, content)

-----------------------------------------------------------------------------
(* Properties *)

\* The rows are those of the tree
ScannedTreeIsExact(c) ==
  /\ {f \in DOMAIN assets[c] : assets[c][f] = "active"} = Present(c)
  /\ \A f \in Present(c) : VersionExists(version_id(c, f, tree[c][f]))

\* A scan that no edit and no other scan's commit to its collection overtook
\* leaves exactly the tree behind: every file active with a version of its
\* content in the table, every other asset a tombstone, whatever earlier
\* scans, failed attempts and reverts of a file to an old content left there.
\* The version may be another workspace's: where two workspaces use one
\* namespace, the lookup finds either's row and the second inserts none.
QuietScanIsExact ==
  [][\A s \in DOMAIN scans :
       scans[s].pc = "checking" /\ scans'[s].pc = "done" /\ scans[s].quiet =>
         ScannedTreeIsExact(scans[s].collection)']_scanVars

=============================================================================
