----------------------------- MODULE StageCache -----------------------------
(***************************************************************************)
(* The file-level protocol of pipeline/cache.py: builds that share one     *)
(* stage-cache directory look a stage's key up, and on a miss compute the  *)
(* value and publish it with write_text to <key>.json.tmp and replace.     *)
(* The temporary name depends on the key alone, so two builds that miss    *)
(* the same key write to the same file.  A stage's key is one file pair,   *)
(* and builds of the same input use the same keys in the same order        *)
(* (parse, chunk, embed), so a key is its stage's number here.             *)
(*                                                                         *)
(* Names and inodes are kept apart: open(..., "w") truncates the inode a   *)
(* name points to, replace moves a name, and a file that was renamed under *)
(* an open descriptor is still the file that descriptor writes.            *)
(*                                                                         *)
(* A key does not determine its value's text.  A parse entry ends with the *)
(* measured duration_seconds (pipeline/build.py:332, parsers/base.py:129)  *)
(* and an embedding's is the provider's answer (build.py:620), so two      *)
(* builds write texts of different lengths; only the chunks of one parsed  *)
(* document (build.py:470) have one text.  A text goes out from offset 0   *)
(* in one write, so of a file the length of that text and its own length   *)
(* are kept: json.loads refuses a text with the tail of a longer one       *)
(* behind it.                                                              *)
(***************************************************************************)
EXTENDS Naturals, FiniteSets

CONSTANTS
  Builders,           \* builds in flight: worker processes and background tasks
  NStages,            \* keys one build goes through, in order
  Lengths,            \* per key: the lengths its value's text may have
  MaxBuilderCrashes   \* bound: processes killed inside a build

ASSUME CacheSizesAssumption ==
  /\ IsFiniteSet(Builders) /\ NStages \in Nat \ {0}
  /\ Lengths \in [1..NStages -> SUBSET (Nat \ {0})]

VARIABLES
  entry,     \* per key: the inode <key>.json names, or NoFile
  tmp,       \* per key: the inode <key>.json.tmp names, or NoFile
  content,   \* per inode: the length of the text at its start, and its size
  builderPc, \* per builder: where it is in its current stage
  stage,     \* per builder: the stage it is at
  fd,        \* per builder: the inode its open temporary file writes
  clashed,   \* history: the keys that two builders were putting at once
  builderCrashes

cacheVars == <<entry, tmp, content, builderPc, stage, fd, clashed, builderCrashes>>

NoFile == 0

Stages == 1..NStages

\* Names and descriptors reach at most this many files at once
Inodes == 1..(2 * NStages + Cardinality(Builders))

BuilderPc == {"get", "compute", "writing", "written", "done", "failed"}

Empty == [text |-> 0, size |-> 0]

\* json.loads reads the file: one whole text and nothing behind it
Readable(i) == content[i].text # 0 /\ content[i].text = content[i].size

\* A file after k bytes were written from its start on: what reaches further
\* stays, and the first n of the file's bytes are a value's text (0: are none)
Overwritten(file, n, k) == [text |-> n, size |-> IF k < file.size THEN file.size ELSE k]

CacheInit ==
  /\ entry     = [s \in Stages |-> NoFile]
  /\ tmp       = [s \in Stages |-> NoFile]
  /\ content   = [i \in Inodes |-> Empty]
  /\ builderPc = [b \in Builders |-> "get"]
  /\ stage     = [b \in Builders |-> 1]
  /\ fd        = [b \in Builders |-> NoFile]
  /\ clashed   = {}
  /\ builderCrashes = 0

-----------------------------------------------------------------------------
\* The stage's value is known: on to the next stage, or the build is over
StageDone(b) ==
  IF stage[b] < NStages
  THEN /\ stage' = [stage EXCEPT ![b] = @ + 1]
       /\ builderPc' = [builderPc EXCEPT ![b] = "get"]
  ELSE /\ builderPc' = [builderPc EXCEPT ![b] = "done"]
       /\ UNCHANGED stage

\* Some build is about to write the inode, or in the middle of it
BeingWritten(i) == \E b \in Builders : fd[b] = i

\* cache.get: a hit parses the file, a miss is None; what cannot be parsed
\* raises, and so does a text that is read while it goes out
cache_get(b) ==
  LET i == entry[stage[b]] IN
  /\ builderPc[b] = "get"
  /\ \/ /\ i = NoFile
        /\ builderPc' = [builderPc EXCEPT ![b] = "compute"]
        /\ UNCHANGED stage
     \/ /\ i # NoFile
        /\ Readable(i)
        /\ StageDone(b)
     \/ /\ i # NoFile
        /\ ~Readable(i) \/ BeingWritten(i)
        /\ builderPc' = [builderPc EXCEPT ![b] = "failed"]
        /\ UNCHANGED stage
  /\ UNCHANGED <<entry, tmp, content, fd, clashed, builderCrashes>>

\* The inodes no name and no descriptor refers to
Unused ==
  Inodes \ ({entry[s] : s \in Stages} \cup {tmp[s] : s \in Stages} \cup {fd[b] : b \in Builders})

Lowest(S) == CHOOSE i \in S : \A j \in S : i <= j

\* Builder c is inside put(s)
Putting(c, s) == builderPc[c] \in {"writing", "written"} /\ stage[c] = s

\* put, first half: write_text opens the temporary name, creating the file
\* or truncating the one another build left or is writing there
OpenTmp(b) ==
  LET s == stage[b]
      i == IF tmp[s] = NoFile THEN Lowest(Unused) ELSE tmp[s] IN
  /\ builderPc[b] = "compute"
  /\ tmp'     = [tmp EXCEPT ![s] = i]
  /\ content' = [content EXCEPT ![i] = Empty]
  /\ fd'      = [fd EXCEPT ![b] = i]
  /\ builderPc' = [builderPc EXCEPT ![b] = "writing"]
  /\ clashed' = clashed \cup {stage[c] : c \in {c \in Builders : Putting(c, s)}}
  /\ UNCHANGED <<entry, stage, builderCrashes>>

\* The text goes out through the descriptor, over what other builds wrote
\* into the same file, and the file is closed
FinishWrite(b) ==
  /\ builderPc[b] = "writing"
  /\ \E n \in Lengths[stage[b]] : content' = [content EXCEPT ![fd[b]] = Overwritten(@, n, n)]
  /\ fd' = [fd EXCEPT ![b] = NoFile]
  /\ builderPc' = [builderPc EXCEPT ![b] = "written"]
  /\ UNCHANGED <<entry, tmp, stage, clashed, builderCrashes>>

\* Mutant: the name is moved before the data is flushed, and the flush is lost
replace_unflushed(b) ==
  LET s == stage[b] IN
  /\ builderPc[b] \in {"writing", "written"}
  /\ fd' = [fd EXCEPT ![b] = NoFile]
  /\ \/ /\ tmp[s] # NoFile
        /\ entry' = [entry EXCEPT ![s] = tmp[s]]
        /\ tmp'   = [tmp EXCEPT ![s] = NoFile]
        /\ StageDone(b)
     \/ /\ tmp[s] = NoFile
        /\ builderPc' = [builderPc EXCEPT ![b] = "failed"]
        /\ UNCHANGED <<entry, tmp, stage>>
  /\ UNCHANGED <<content, clashed, builderCrashes>>

\* put, second half: whatever file the temporary name has now is published;
\* without one, replace raises FileNotFoundError and the build fails
replace(b) ==
  LET s == stage[b] IN
  /\ builderPc[b] = "written"
  /\ \/ /\ tmp[s] # NoFile
        /\ entry' = [entry EXCEPT ![s] = tmp[s]]
        /\ tmp'   = [tmp EXCEPT ![s] = NoFile]
        /\ StageDone(b)
     \/ /\ tmp[s] = NoFile
        /\ builderPc' = [builderPc EXCEPT ![b] = "failed"]
        /\ UNCHANGED <<entry, tmp, stage>>
  /\ UNCHANGED <<content, fd, clashed, builderCrashes>>

\* A later build job, or the retry of a failed one
NextBuild(b) ==
  /\ builderPc[b] \in {"done", "failed"}
  /\ builderPc' = [builderPc EXCEPT ![b] = "get"]
  /\ stage' = [stage EXCEPT ![b] = 1]
  /\ UNCHANGED <<entry, tmp, content, fd, clashed, builderCrashes>>

\* The bytes a killed builder still got out: none that changes the file, or
\* the first k of its text, which make none with what is behind them
LastBytes(b) ==
  \/ UNCHANGED content
  \/ /\ builderPc[b] = "writing"
     /\ \E n \in Lengths[stage[b]] : \E k \in 1..(n - 1) :
          content' = [content EXCEPT ![fd[b]] = Overwritten(@, 0, k)]

\* The process is killed; names stay as they are and its job is leased again
CacheCrash(b) ==
  /\ builderPc[b] \notin {"done", "failed"}
  /\ builderCrashes < MaxBuilderCrashes
  /\ builderCrashes' = builderCrashes + 1
  /\ builderPc' = [builderPc EXCEPT ![b] = "get"]
  /\ stage'   = [stage EXCEPT ![b] = 1]
  /\ LastBytes(b)
  /\ fd'      = [fd EXCEPT ![b] = NoFile]
  /\ UNCHANGED <<entry, tmp, clashed>>

cache_put(b) == OpenTmp(b) \/ FinishWrite(b) \/ replace(b)

CacheNext == \E b \in Builders : cache_get(b) \/ cache_put(b) \/ NextBuild(b) \/ CacheCrash(b)

CacheSpec == CacheInit /\ [][CacheNext]_cacheVars

\* A build that is not killed runs on to its end
FairCacheSpec == CacheSpec /\ \A b \in Builders : WF_cacheVars(cache_get(b) \/ cache_put(b))

-----------------------------------------------------------------------------
(* Properties *)

\* A build fails on the cache only at a key two builds were putting at once:
\* a process killed at any point of a put leaves nothing a later build trips
\* over, and a clash over one key never spoils another.
OnlyClashesFail == \A b \in Builders : builderPc[b] = "failed" => stage[b] \in clashed

\* A published entry that json.loads cannot read
Torn(s) == IF entry[s] = NoFile THEN FALSE ELSE ~Readable(entry[s])

\* The keys whose value has one text, as the chunks of a parsed document have
SameText == {s \in Stages : \A m, n \in Lengths[s] : m = n}

\* No entry is torn but at a key two builds were putting at once, whatever is
\* killed; and at a key whose value has one text only while a build has the
\* file open to write it, unless one was killed.  A key whose texts differ in
\* length has no such limit: the longer text's tail may stay behind the
\* shorter one, with every descriptor closed.
TornEntriesHaveACause ==
  \A s \in Stages : Torn(s) =>
    /\ s \in clashed
    /\ s \in SameText /\ builderCrashes = 0 => BeingWritten(entry[s])

\* A shared cache survives its writers but for clashes: no build fails on it,
\* and no entry is torn, but where two builds were putting one key at once,
\* and where a value has one text a torn entry does not outlive its writers.
CacheSurvives == OnlyClashesFail /\ TornEntriesHaveACause

\* Where a value has one text, a build that found an entry torn is not
\* condemned to find it so for ever: the entry is whole again later, if no
\* writer is killed.
EntriesHeal ==
  \A s \in SameText : Torn(s) ~> (~Torn(s) \/ builderCrashes > 0)

=============================================================================
