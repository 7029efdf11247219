--------------------------- MODULE ServicesProofs ---------------------------
(***************************************************************************)
(* What outlives a process -- the secret in the key file, what DELETE leaves *)
(* of a project, what the collection check reports --, what a search makes *)
(* of two stores that change under it, and what the watcher's debounce     *)
(* task remembers of a tree that changes under it.                         *)
(***************************************************************************)
EXTENDS Keyring, Projects, Search, Watcher, SequenceTheorems, FiniteSetTheorems, TLAPS

(* As long as there is no key file nobody has a secret; the one who creates it
   is the only one who ever writes a new secret. *)
NoSecretYet ==
  /\ \A s \in Servers : server[s].pc \notin {"write", "up"}
  /\ \A m \in Makers : ~Written(m)
  /\ \A a \in Adders : adder[a].pc \notin {"open", "write", "rename"}

OwnedBy(owner) ==
  /\ \A s \in Servers : ServerAt(s, "write") => s = owner
  /\ \A s \in Servers : ServerAt(s, "up") => server[s].ring.secret = owner
  /\ \A m \in Makers : Written(m) => text[m].secret = owner
  /\ \A a \in Adders : adder[a].pc \in {"open", "write"} => adder[a].read.secret = owner

KeyringInv ==
  /\ KeyringTypeOK
  /\ IF named["key"] = NoFile THEN NoSecretYet ELSE \E owner \in Servers : OwnedBy(owner)

LEMMA KeyringStarts == KeyringInit => KeyringInv
BY DEF KeyringInit, KeyringInv, KeyringTypeOK, NoSecretYet, Written, Empty, Text, Makers

LEMMA EmptyText == Empty \in Text /\ \A file \in Makers : text[file] = Empty => ~Written(file)
BY DEF Empty, Text, Written

ServerRecord == [pc : {"new", "create", "write", "load", "up", "failed"}, ring : Text]
AdderRecord == [pc : {"new", "open", "write", "rename", "added", "failed"},
                read : Text, file : Makers \cup {NoFile}]

(* A server or an add-key that goes where it has no secret in hand. *)
LEMMA ServerIdles ==
  ASSUME KeyringInv, NEW s \in Servers, NEW pc \in {"create", "load", "failed"},
         server' = [server EXCEPT ![s].pc = pc], UNCHANGED <<named, text, adder>>
  PROVE  KeyringInv'
<1>1. server \in [Servers -> ServerRecord]
  BY DEF KeyringInv, KeyringTypeOK, ServerRecord
<1>2. server' \in [Servers -> ServerRecord]
  BY <1>1 DEF ServerRecord
<1>3. KeyringTypeOK'
  BY <1>2 DEF KeyringInv, KeyringTypeOK, ServerRecord
<1>4. /\ \A t \in Servers \ {s} : server'[t] = server[t]
      /\ server'[s].pc = pc
  BY <1>1 DEF ServerRecord
<1>5. NoSecretYet => NoSecretYet'
  BY <1>4 DEF NoSecretYet, Written
<1>6. \A owner \in Servers : OwnedBy(owner) => OwnedBy(owner)'
  BY <1>4 DEF OwnedBy, ServerAt, Written
<1> QED BY <1>3, <1>5, <1>6 DEF KeyringInv

LEMMA AdderIdles ==
  ASSUME KeyringInv, NEW a \in Adders, AdderFails(a), UNCHANGED <<named, text, server>>
  PROVE  KeyringInv'
<1>1. adder \in [Adders -> AdderRecord]
  BY DEF KeyringInv, KeyringTypeOK, AdderRecord
<1>2. adder' \in [Adders -> AdderRecord]
  BY <1>1 DEF AdderFails, AdderRecord
<1>3. KeyringTypeOK'
  BY <1>2 DEF KeyringInv, KeyringTypeOK, AdderRecord
<1>4. /\ \A b \in Adders \ {a} : adder'[b] = adder[b]
      /\ adder'[a].pc = "failed"
  BY <1>1 DEF AdderFails, AdderRecord
<1>5. NoSecretYet => NoSecretYet'
  BY <1>4 DEF NoSecretYet, Written
<1>6. \A owner \in Servers : OwnedBy(owner) => OwnedBy(owner)'
  BY <1>4 DEF OwnedBy, ServerAt, Written
<1> QED BY <1>3, <1>5, <1>6 DEF KeyringInv

(* The servers. *)
LEMMA ServerSteps ==
  ASSUME KeyringInv, NEW s \in Servers,
         Start(s) \/ Create(s) \/ WriteSecret(s) \/ Load(s) \/ ServerDies(s)
  PROVE  KeyringInv'
<1> USE KeyringAssumption DEF KeyringInv, KeyringTypeOK, NoSecretYet, OwnedBy, ServerAt, Makers
<1>1. CASE Start(s)
  <2> HIDE DEF KeyringInv
  <2> QED BY <1>1, ServerIdles DEF Start
<1>2. CASE Create(s)
  <2>1. CASE named["key"] = NoFile
    <3>1. /\ named' = [named EXCEPT !["key"] = s]
          /\ server' = [server EXCEPT ![s].pc = "write"]
          /\ UNCHANGED <<text, adder>>
      BY <1>2, <2>1 DEF Create
    <3>2. KeyringTypeOK'
      BY <3>1
    <3>3. named'["key"] # NoFile
      BY <3>1
    <3>4. OwnedBy(s)'
      BY <2>1, <3>1 DEF Written
    <3> QED BY <3>2, <3>3, <3>4
  <2>2. CASE named["key"] # NoFile
    <3> HIDE DEF KeyringInv
    <3> QED BY <1>2, <2>2, ServerIdles DEF Create
  <2> QED BY <2>1, <2>2
<1>3. CASE WriteSecret(s)
  <2>1. /\ server[s].pc = "write" /\ UNCHANGED <<named, adder>>
        /\ text' = [text EXCEPT ![s] = [secret |-> s, kids |-> {}]]
        /\ server' = [server EXCEPT ![s].pc = "load"]
    BY <1>3 DEF WriteSecret
  <2>2. named["key"] # NoFile
    BY <2>1
  <2>3. PICK owner \in Servers : OwnedBy(owner)
    BY <2>2
  <2>4. s = owner
    BY <2>1, <2>3
  <2>5. KeyringTypeOK'
    <3>1. [secret |-> s, kids |-> {}] \in Text
      BY DEF Text
    <3> QED BY <2>1, <3>1
  <2>6. OwnedBy(owner)'
    BY <2>1, <2>3, <2>4 DEF Written
  <2> QED BY <2>1, <2>2, <2>5, <2>6
<1>4. CASE Load(s)
  <2>1. UNCHANGED <<named, text, adder>>
    BY <1>4 DEF Load
  <2>2. CASE named["key"] # NoFile /\ Written(named["key"])
    <3>1. server' = [server EXCEPT ![s] = [pc |-> "up", ring |-> text[named["key"]]]]
      BY <1>4, <2>2 DEF Load
    <3>2. PICK owner \in Servers : OwnedBy(owner)
      BY <2>2
    <3>3. named["key"] \in Makers /\ text[named["key"]] \in Text
      BY <2>2
    <3>4. text[named["key"]].secret = owner
      BY <2>2, <3>2, <3>3
    <3>5. KeyringTypeOK'
      BY <2>1, <3>1, <3>3
    <3>6. OwnedBy(owner)'
      BY <2>1, <3>1, <3>2, <3>4 DEF Written
    <3> QED BY <2>1, <2>2, <3>5, <3>6
  <2>3. CASE ~(named["key"] # NoFile /\ Written(named["key"]))
    <3>1. server' = [server EXCEPT ![s] = [pc |-> "failed", ring |-> Empty]]
      BY <1>4, <2>3 DEF Load
    <3> QED BY <2>1, <3>1, EmptyText DEF Written
  <2> QED BY <2>2, <2>3
<1>5. CASE ServerDies(s)
  BY <1>5, EmptyText DEF ServerDies, Written
<1> QED BY <1>1, <1>2, <1>3, <1>4, <1>5

(* add-key only ever copies the secret it has read. *)
LEMMA AdderSteps ==
  ASSUME KeyringInv, NEW a \in Adders,
         ReadKeys(a) \/ OpenTmp(a) \/ WriteKeys(a) \/ Rename(a) \/ AdderDies(a)
  PROVE  KeyringInv'
<1> USE KeyringAssumption
    DEF KeyringInv, KeyringTypeOK, NoSecretYet, OwnedBy, ServerAt, AdderAt, Makers
<1>1. CASE ReadKeys(a)
  <2>1. CASE named["key"] # NoFile /\ Written(named["key"])
    <3>1. /\ adder' = [adder EXCEPT ![a].pc = "open", ![a].read = text[named["key"]]]
          /\ UNCHANGED <<named, text, server>>
      BY <1>1, <2>1 DEF ReadKeys
    <3>2. named["key"] \in Makers /\ text[named["key"]] \in Text
      BY <2>1
    <3>3. KeyringTypeOK'
      <4>1. adder \in [Adders -> AdderRecord]
        BY DEF AdderRecord
      <4>2. [adder[a] EXCEPT !.pc = "open", !.read = text[named["key"]]] \in AdderRecord
        BY <3>2, <4>1 DEF AdderRecord
      <4>3. adder' = [adder EXCEPT ![a] = [adder[a] EXCEPT !.pc = "open",
                                                          !.read = text[named["key"]]]]
        BY <3>1, <4>1 DEF AdderRecord
      <4>4. adder' \in [Adders -> AdderRecord]
        BY <4>1, <4>2, <4>3
      <4> QED BY <3>1, <4>4 DEF AdderRecord
    <3>4. PICK owner \in Servers : OwnedBy(owner)
      BY <2>1
    <3>5. OwnedBy(owner)'
      BY <2>1, <3>1, <3>2, <3>4 DEF Written
    <3> QED BY <2>1, <3>1, <3>3, <3>5
  <2>2. CASE ~(named["key"] # NoFile /\ Written(named["key"]))
    <3> HIDE DEF KeyringInv
    <3> QED BY <1>1, <2>2, AdderIdles DEF ReadKeys
  <2> QED BY <2>1, <2>2
<1>2. CASE OpenTmp(a)
  <2> DEFINE file == IF named["tmp"] = NoFile THEN a ELSE named["tmp"]
  <2>1. /\ named' = [named EXCEPT !["tmp"] = file] /\ text' = [text EXCEPT ![file] = Empty]
        /\ adder' = [adder EXCEPT ![a].pc = "write", ![a].file = file]
        /\ adder[a].pc = "open" /\ UNCHANGED server
    BY <1>2 DEF OpenTmp
  <2>2. file \in Makers
    OBVIOUS
  <2> HIDE DEF file
  <2>3. KeyringTypeOK' /\ named'["key"] = named["key"]
    <3>1. adder \in [Adders -> AdderRecord]
      BY DEF AdderRecord
    <3>2. [adder[a] EXCEPT !.pc = "write", !.file = file] \in AdderRecord
      BY <2>2, <3>1 DEF AdderRecord
    <3>3. adder' = [adder EXCEPT ![a] = [adder[a] EXCEPT !.pc = "write", !.file = file]]
      BY <2>1, <3>1 DEF AdderRecord
    <3>4. adder' \in [Adders -> AdderRecord]
      BY <3>1, <3>2, <3>3
    <3>5. /\ named' \in [{"key", "tmp"} -> Makers \cup {NoFile}]
          /\ named'["key"] = named["key"]
      BY <2>1, <2>2
    <3>6. text' \in [Makers -> Text]
      BY <2>1, <2>2, EmptyText
    <3> QED BY <2>1, <3>4, <3>5, <3>6 DEF AdderRecord
  <2>4. named["key"] # NoFile
    BY <2>1
  <2>5. PICK owner \in Servers : OwnedBy(owner)
    BY <2>4
  <2>6. OwnedBy(owner)'
    BY <2>1, <2>2, <2>5 DEF Written
  <2> QED BY <2>3, <2>4, <2>6
<1>3. CASE WriteKeys(a)
  <2>1. /\ text' = [text EXCEPT ![adder[a].file] = [adder[a].read EXCEPT !.kids = @ \cup {a}]]
        /\ adder' = [adder EXCEPT ![a].pc = "rename"]
        /\ adder[a].pc = "write" /\ UNCHANGED <<named, server>>
    BY <1>3 DEF WriteKeys
  <2>2. named["key"] # NoFile
    BY <2>1
  <2>3. PICK owner \in Servers : OwnedBy(owner)
    BY <2>2
  <2>4. /\ [adder[a].read EXCEPT !.kids = @ \cup {a}] \in Text
        /\ [adder[a].read EXCEPT !.kids = @ \cup {a}].secret = owner
    BY <2>1, <2>3 DEF Text
  <2>5. KeyringTypeOK'
    <3>1. adder \in [Adders -> AdderRecord]
      BY DEF AdderRecord
    <3>2. adder' \in [Adders -> AdderRecord]
      BY <2>1, <3>1 DEF AdderRecord
    <3>3. text' \in [Makers -> Text]
      BY <2>1, <2>4
    <3> QED BY <2>1, <3>2, <3>3 DEF AdderRecord
  <2>6. OwnedBy(owner)'
    BY <2>1, <2>3, <2>4 DEF Written
  <2> QED BY <2>1, <2>2, <2>5, <2>6
<1>4. CASE Rename(a)
  <2>1. CASE named["tmp"] = NoFile
    <3> HIDE DEF KeyringInv
    <3> QED BY <1>4, <2>1, AdderIdles DEF Rename
  <2>2. CASE named["tmp"] # NoFile
    <3>1. /\ named' = [n \in {"key", "tmp"} |-> IF n = "key" THEN named["tmp"] ELSE NoFile]
          /\ adder' = [adder EXCEPT ![a].pc = "added"]
          /\ adder[a].pc = "rename" /\ UNCHANGED <<text, server>>
      BY <1>4, <2>2 DEF Rename
    <3>2. KeyringTypeOK' /\ named'["key"] # NoFile
      BY <2>2, <3>1
    <3>3. \E owner \in Servers : OwnedBy(owner)'
      BY <3>1 DEF Written
    <3> QED BY <3>2, <3>3
  <2> QED BY <2>1, <2>2
<1>5. CASE AdderDies(a)
  <2> HIDE DEF KeyringInv
  <2> QED BY <1>5, AdderIdles DEF AdderDies
<1> QED BY <1>1, <1>2, <1>3, <1>4, <1>5

LEMMA KeyringSteps == KeyringInv /\ [KeyringNext]_keyringVars => KeyringInv'
<1> SUFFICES ASSUME KeyringInv, [KeyringNext]_keyringVars PROVE KeyringInv'
  OBVIOUS
<1>1. CASE UNCHANGED keyringVars
  BY <1>1 DEF keyringVars, KeyringInv, KeyringTypeOK, NoSecretYet, OwnedBy, ServerAt, Written
<1> QED BY <1>1, ServerSteps, AdderSteps DEF KeyringNext

(* auth.rs: however many servers start at once and whoever rewrites, renames or
   dies, there is one secret. *)
THEOREM OneSecretEver == KeyringSpec => []OneDefaultSecret
<1>1. KeyringInv => OneDefaultSecret
  <2> SUFFICES ASSUME KeyringInv PROVE OneDefaultSecret
    OBVIOUS
  <2>1. CASE named["key"] = NoFile
    BY <2>1, KeyringAssumption DEF KeyringInv, NoSecretYet, OneDefaultSecret, ServerAt
  <2>2. CASE named["key"] # NoFile
    BY <2>2 DEF KeyringInv, OwnedBy, OneDefaultSecret
  <2> QED BY <2>1, <2>2
<1> QED BY KeyringStarts, KeyringSteps, <1>1, PTL DEF KeyringSpec

-----------------------------------------------------------------------------
(* A DELETE that no /index disturbs: what it has done stays done, and what it
   has listed is all there is. *)
QuietRemoval(p) ==
  /\ job[p] = "none"
  /\ removal[p].pc \in {"list", "drop", "done"} => rows[p] = "none"
  /\ removal[p].pc = "drop" =>
       /\ \A m \in Slugs : collection[p][m] = "missing" \/ m \in removal[p].todo
       /\ p \in previous => removal[p].old
  /\ removal[p].pc = "done" =>
       p \notin previous /\ \A m \in Slugs : collection[p][m] = "missing"

(* A pass under way: what has been broken all the time is still to be counted or,
   unless the estimate is off, in the report, and without exception where the
   collection has been missing, for then there is no estimate; and what is in the
   report with a right estimate and was left alone has the chunks it had at the
   start and no points. *)
PassIsRight ==
  pass.pc # "idle" =>
    /\ \A p \in ProjectGuids : Busy(p) => p \in pass.touched
    /\ \A p \in pass.broken : Broken(p)
    /\ \A p \in pass.lost : Lost(p)
    /\ pass.broken \subseteq pass.todo \cup pass.stale \cup pass.off
    /\ pass.lost \subseteq pass.todo \cup pass.stale
    /\ \A p \in (pass.todo \cup pass.stale) \ pass.touched : rows[p] = "chunks"
    /\ \A p \in pass.stale \ (pass.touched \cup pass.off) : ~HasPoints(p)
    /\ pass.pc = "report" => pass.todo = {}

ProjectsInv ==
  /\ ProjectsTypeOK
  /\ \A p \in ProjectGuids : removal[p].quiet => QuietRemoval(p)
  /\ PassIsRight

LEMMA ProjectsStart == ProjectsInit => ProjectsInv
BY DEF ProjectsInit, ProjectsInv, ProjectsTypeOK, PassIsRight, NoRemoval, Removal,
   NoPass, Pass

(* A pass stays right under a step that observes it, keeps the model and gives
   points to a busy project only. *)
LEMMA ObservedPass ==
  ASSUME ProjectsInv, Observe, UNCHANGED slug,
         \A p \in ProjectGuids : HasPoints(p)' => HasPoints(p) \/ Busy(p)
  PROVE  pass' \in Pass /\ PassIsRight'
<1>1. pass \in Pass
  BY DEF ProjectsInv, ProjectsTypeOK
<1>2. CASE pass.pc = "idle"
  BY <1>1, <1>2 DEF Observe, PassIsRight
<1>3. CASE pass.pc # "idle"
  <2>1. pass' = [pass EXCEPT !.broken = {p \in @ : Broken(p)'},
                             !.lost = {p \in @ : Lost(p)'},
                             !.touched = @ \cup {p \in ProjectGuids :
                                             Busy(p) \/ Busy(p)' \/ rows[p] # rows[p]'}]
    BY <1>3 DEF Observe
  <2>2. /\ pass'.pc = pass.pc /\ pass'.todo = pass.todo /\ pass'.stale = pass.stale
        /\ pass'.off = pass.off
        /\ pass'.broken = {p \in pass.broken : Broken(p)'}
        /\ pass'.lost = {p \in pass.lost : Lost(p)'}
        /\ pass'.touched = pass.touched \cup
             {p \in ProjectGuids : Busy(p) \/ Busy(p)' \/ rows[p] # rows[p]'}
    BY <1>1, <2>1 DEF Pass
  <2>3. pass' \in Pass
    BY <1>1, <2>1 DEF Pass
  <2>4. pass.todo \subseteq ProjectGuids /\ pass.stale \subseteq ProjectGuids
    BY <1>1 DEF Pass
  <2>5. PassIsRight
    BY DEF ProjectsInv
  <2>6. \A p \in (pass.todo \cup pass.stale) \ pass'.touched : rows'[p] = "chunks"
    BY <1>3, <2>2, <2>4, <2>5 DEF PassIsRight
  <2>7. \A p \in pass.stale \ (pass'.touched \cup pass.off) : ~HasPoints(p)'
    BY <1>3, <2>2, <2>4, <2>5 DEF PassIsRight
  <2> QED BY <1>3, <2>2, <2>3, <2>5, <2>6, <2>7 DEF PassIsRight
<1> QED BY <1>2, <1>3

(* POST /index. *)
LEMMA JobSteps ==
  ASSUME ProjectsInv, NEW p \in ProjectGuids,
         \/ StartJob(p) \/ EnsureRow(p) \/ EnsureProject(p) \/ StoreChunks(p)
         \/ StoreVectors(p) \/ EndJob(p)
  PROVE  ProjectsInv'
<1> USE DEF ProjectsTypeOK
<1>1. /\ UNCHANGED <<previous, slug>> /\ Observe /\ retried' \subseteq ProjectGuids
      /\ rows' \in [ProjectGuids -> {"none", "row", "chunks"}]
      /\ collection' \in [ProjectGuids -> [Slugs -> {"missing", "empty", "points"}]]
      /\ job' \in [ProjectGuids -> {"none", "row", "collection", "slice", "embed"}]
  <2>1. CASE StartJob(p)
    BY <2>1 DEF ProjectsInv, StartJob
  <2>2. CASE EnsureRow(p)
    BY <2>2 DEF ProjectsInv, EnsureRow, JobStep
  <2>3. CASE EnsureProject(p)
    BY <2>3 DEF ProjectsInv, EnsureProject, JobStep
  <2>4. CASE StoreChunks(p)
    BY <2>4 DEF ProjectsInv, StoreChunks, JobStep
  <2>5. CASE StoreVectors(p)
    BY <2>5 DEF ProjectsInv, StoreVectors, JobStep
  <2>6. CASE EndJob(p)
    BY <2>6 DEF ProjectsInv, EndJob
  <2> QED BY <2>1, <2>2, <2>3, <2>4, <2>5, <2>6
<1>2. \A q \in ProjectGuids \ {p} :
        rows'[q] = rows[q] /\ collection'[q] = collection[q] /\ job'[q] = job[q]
  BY DEF ProjectsInv, StartJob, EnsureRow, EnsureProject, StoreChunks, StoreVectors,
     EndJob, JobStep
<1>3. /\ removal' \in [ProjectGuids -> Removal]
      /\ \A q \in ProjectGuids \ {p} : removal'[q] = removal[q]
      /\ ~removal'[p].quiet
  <2>1. CASE StartJob(p)
    BY <2>1 DEF StartJob, Disturbed, ProjectsInv, Removal
  <2>2. CASE ~StartJob(p)
    <3>1. UNCHANGED removal /\ job[p] # "none"
      BY <2>2 DEF EnsureRow, EnsureProject, StoreChunks, StoreVectors, EndJob, JobStep
    <3> QED BY <3>1 DEF ProjectsInv, QuietRemoval
  <2> QED BY <2>1, <2>2
<1>4. \A q \in ProjectGuids : HasPoints(q)' => HasPoints(q) \/ Busy(q)
  <2>1. CASE StoreVectors(p)
    BY <1>1, <1>2, <2>1 DEF StoreVectors, JobStep, HasPoints, Busy
  <2>2. CASE EnsureProject(p)
    BY <1>1, <1>2, <2>2 DEF EnsureProject, JobStep, HasPoints, Busy
  <2>3. CASE UNCHANGED collection
    BY <1>1, <2>3 DEF HasPoints
  <2> QED BY <2>1, <2>2, <2>3 DEF StartJob, EnsureRow, StoreChunks, EndJob
<1>5. pass' \in Pass /\ PassIsRight'
  BY <1>1, <1>4, ObservedPass
<1>6. \A q \in ProjectGuids : removal'[q].quiet => QuietRemoval(q)'
  BY <1>1, <1>2, <1>3 DEF ProjectsInv, QuietRemoval
<1> QED BY <1>1, <1>3, <1>5, <1>6 DEF ProjectsInv

(* The retry worker and late upserts, which bring no collection into being. *)
LEMMA RetrySteps ==
  ASSUME ProjectsInv, NEW p \in ProjectGuids, StartRetry(p) \/ RetryStores(p) \/ EndRetry(p)
  PROVE  ProjectsInv'
<1>1. /\ UNCHANGED <<rows, previous, slug, job, removal>> /\ Observe
      /\ retried' \subseteq ProjectGuids
      /\ collection' \in [ProjectGuids -> [Slugs -> {"missing", "empty", "points"}]]
      /\ \A q \in ProjectGuids : HasPoints(q)' => HasPoints(q) \/ Busy(q)
      /\ \A q \in ProjectGuids : \A m \in Slugs :
           collection[q][m] = "missing" => collection'[q][m] = "missing"
  <2>1. CASE RetryStores(p)
    <3>1. /\ collection' = [collection EXCEPT ![p][slug] = "points"]
          /\ p \in retried /\ collection[p][slug] # "missing"
          /\ UNCHANGED <<rows, previous, slug, job, retried, removal>> /\ Observe
      BY <2>1 DEF RetryStores
    <3>2. \A q \in ProjectGuids \ {p} : collection'[q] = collection[q]
      BY <3>1 DEF ProjectsInv, ProjectsTypeOK
    <3>3. \A m \in Slugs \ {slug} : collection'[p][m] = collection[p][m]
      BY <3>1 DEF ProjectsInv, ProjectsTypeOK
    <3>4. collection' \in [ProjectGuids -> [Slugs -> {"missing", "empty", "points"}]]
      BY <3>1 DEF ProjectsInv, ProjectsTypeOK
    <3>5. \A q \in ProjectGuids : HasPoints(q)' => HasPoints(q) \/ Busy(q)
      BY <3>1, <3>2 DEF HasPoints, Busy
    <3> QED BY <3>1, <3>2, <3>3, <3>4, <3>5 DEF ProjectsInv, ProjectsTypeOK
  <2>2. CASE StartRetry(p) \/ EndRetry(p)
    BY <2>2 DEF ProjectsInv, ProjectsTypeOK, StartRetry, EndRetry, HasPoints
  <2> QED BY <2>1, <2>2
<1>2. pass' \in Pass /\ PassIsRight'
  BY <1>1, ObservedPass
<1>3. \A q \in ProjectGuids : removal'[q].quiet => QuietRemoval(q)'
  BY <1>1 DEF ProjectsInv, QuietRemoval
<1> QED BY <1>1, <1>2, <1>3 DEF ProjectsInv, ProjectsTypeOK

(* DELETE /files and the collector's sweep. *)
LEMMA FileSteps ==
  ASSUME ProjectsInv, NEW p \in ProjectGuids, DeleteFiles(p) \/ SweepVectors(p)
  PROVE  ProjectsInv'
<1>1. /\ UNCHANGED <<previous, slug, job, retried, removal>> /\ Observe
      /\ rows' \in [ProjectGuids -> {"none", "row", "chunks"}]
      /\ collection' \in [ProjectGuids -> [Slugs -> {"missing", "empty", "points"}]]
      /\ \A q \in ProjectGuids : rows[q] = "none" => rows'[q] = "none"
      /\ \A q \in ProjectGuids : rows[q] = "none" => collection'[q] = collection[q]
      /\ \A q \in ProjectGuids : HasPoints(q)' => HasPoints(q)
  <2>1. CASE DeleteFiles(p)
    BY <2>1 DEF ProjectsInv, ProjectsTypeOK, DeleteFiles, HasPoints
  <2>2. CASE SweepVectors(p)
    BY <2>2 DEF ProjectsInv, ProjectsTypeOK, SweepVectors, HasPoints
  <2> QED BY <2>1, <2>2
<1>2. pass' \in Pass /\ PassIsRight'
  BY <1>1, ObservedPass
<1>3. \A q \in ProjectGuids : removal[q].quiet => QuietRemoval(q)'
  <2> TAKE q \in ProjectGuids
  <2> HAVE removal[q].quiet
  <2>1. QuietRemoval(q)
    BY DEF ProjectsInv
  <2>2. CASE rows[q] = "none"
    BY <1>1, <2>1, <2>2 DEF QuietRemoval
  <2>3. CASE rows[q] # "none"
    <3>1. removal[q].pc \notin {"list", "drop", "done"}
      BY <2>1, <2>3 DEF QuietRemoval
    <3> QED BY <1>1, <2>1, <3>1 DEF QuietRemoval
  <2> QED BY <2>2, <2>3
<1> QED BY <1>1, <1>2, <1>3 DEF ProjectsInv, ProjectsTypeOK

(* DELETE of the project p. *)
LEMMA RemovalSteps ==
  ASSUME ProjectsInv, NEW p \in ProjectGuids,
         \/ StartRemoval(p) \/ DeleteRows(p) \/ ListCollections(p) \/ CannotList(p)
         \/ DropOne(p) \/ Removed(p) \/ AbortRemoval(p)
  PROVE  ProjectsInv'
<1> USE DEF ProjectsTypeOK
<1>1. removal \in [ProjectGuids -> Removal] /\ removal[p] \in Removal
  BY DEF ProjectsInv
<1>2. /\ UNCHANGED <<slug, job, retried>> /\ Observe
      /\ rows' \in [ProjectGuids -> {"none", "row", "chunks"}]
      /\ \A q \in ProjectGuids \ {p} : rows'[q] = rows[q]
  BY DEF ProjectsInv, StartRemoval, DeleteRows, ListCollections, CannotList, DropOne,
     Removed, AbortRemoval
<1>3. /\ collection' \in [ProjectGuids -> [Slugs -> {"missing", "empty", "points"}]]
      /\ previous' \subseteq ProjectGuids
      /\ \A q \in ProjectGuids \ {p} : collection'[q] = collection[q]
      /\ \A q \in ProjectGuids \ {p} : q \in previous' => q \in previous
      /\ \A q \in ProjectGuids : HasPoints(q)' => HasPoints(q)
  <2>1. CASE UNCHANGED <<collection, previous>>
    BY <1>2, <2>1 DEF ProjectsInv, HasPoints
  <2>2. CASE DropOne(p)
    <3>1. CASE \E m \in removal[p].todo :
                 /\ collection' = [collection EXCEPT ![p][m] = "missing"]
                 /\ UNCHANGED previous
      <4>1. PICK m \in removal[p].todo : collection' = [collection EXCEPT ![p][m] = "missing"]
        BY <3>1
      <4>2. m \in Slugs
        BY <1>1 DEF Removal
      <4>3. /\ collection'[p][m] = "missing"
            /\ \A q \in Slugs \ {m} : collection'[p][q] = collection[p][q]
            /\ \A q \in ProjectGuids \ {p} : collection'[q] = collection[q]
        BY <4>1, <4>2 DEF ProjectsInv
      <4>4. collection' \in [ProjectGuids -> [Slugs -> {"missing", "empty", "points"}]]
        BY <4>1, <4>2 DEF ProjectsInv
      <4>5. \A q \in ProjectGuids : HasPoints(q)' => HasPoints(q)
        BY <1>2, <4>3 DEF ProjectsInv, HasPoints
      <4> QED BY <1>2, <3>1, <4>3, <4>4, <4>5 DEF ProjectsInv
    <3>2. CASE UNCHANGED collection /\ previous' = previous \ {p}
      BY <1>2, <3>2 DEF ProjectsInv, HasPoints
    <3> QED BY <2>2, <3>1, <3>2 DEF DropOne
  <2> QED
    BY <2>1, <2>2 DEF StartRemoval, DeleteRows, ListCollections, CannotList, Removed,
       AbortRemoval
<1>4. PICK r \in Removal :
        /\ removal' = [removal EXCEPT ![p] = r]
        /\ r.quiet =>
             /\ job[p] = "none"
             /\ r.pc \in {"list", "drop", "done"} => rows'[p] = "none"
             /\ r.pc = "drop" =>
                  /\ \A m \in Slugs : collection'[p][m] = "missing" \/ m \in r.todo
                  /\ p \in previous' => r.old
             /\ r.pc = "done" =>
                  p \notin previous' /\ \A m \in Slugs : collection'[p][m] = "missing"
  <2>1. CASE StartRemoval(p)
    <3> DEFINE r == [NoRemoval EXCEPT !.pc = "rows", !.quiet = job[p] = "none"]
    <3>1. r \in Removal /\ r.pc = "rows" /\ (r.quiet <=> job[p] = "none")
      BY DEF NoRemoval, Removal
    <3>2. removal' = [removal EXCEPT ![p] = r]
      BY <2>1 DEF StartRemoval
    <3> HIDE DEF r
    <3> QED BY <3>1, <3>2
  <2>2. CASE DeleteRows(p)
    <3> DEFINE r == [removal[p] EXCEPT !.pc = "list"]
    <3>1. r \in Removal /\ r.pc = "list" /\ r.quiet = removal[p].quiet
      BY <1>1 DEF Removal
    <3>2. removal' = [removal EXCEPT ![p] = r] /\ rows'[p] = "none"
      BY <1>1, <2>2 DEF DeleteRows, ProjectsInv
    <3> HIDE DEF r
    <3> QED BY <3>1, <3>2 DEF ProjectsInv, QuietRemoval
  <2>3. CASE ListCollections(p)
    <3> DEFINE todo == {m \in Slugs : collection[p][m] # "missing"}
               r == [removal[p] EXCEPT !.pc = "drop", !.todo = todo, !.old = p \in previous]
    <3>1. /\ r \in Removal /\ r.pc = "drop" /\ r.quiet = removal[p].quiet
          /\ r.todo = todo /\ (r.old <=> p \in previous)
      <4>1. /\ removal[p].pc \in {"none", "rows", "list", "drop", "done"}
            /\ todo \in SUBSET Slugs
            /\ r = [removal[p] EXCEPT !.pc = "drop", !.todo = todo, !.old = p \in previous]
        BY <1>1 DEF Removal
      <4>2. (p \in previous) \in BOOLEAN
        OBVIOUS
      <4> HIDE DEF todo, r
      <4> QED BY <1>1, <4>1, <4>2 DEF Removal
    <3>2. /\ removal' = [removal EXCEPT ![p] = r] /\ removal[p].pc = "list"
          /\ UNCHANGED <<rows, collection, previous>>
      BY <2>3 DEF ListCollections, ToDrop
    <3> HIDE DEF r
    <3> QED BY <3>1, <3>2 DEF ProjectsInv, QuietRemoval
  <2>4. CASE CannotList(p)
    <3> DEFINE r == [pc |-> "drop", todo |-> {slug}, old |-> FALSE, quiet |-> FALSE]
    <3>1. r \in Removal /\ ~r.quiet
      BY DEF ProjectsInv, Removal
    <3>2. removal' = [removal EXCEPT ![p] = r]
      BY <2>4 DEF CannotList
    <3> HIDE DEF r
    <3> QED BY <3>1, <3>2
  <2>5. CASE DropOne(p)
    <3>1. removal[p].pc = "drop" /\ UNCHANGED <<rows, job>>
      BY <2>5 DEF DropOne
    <3>2. ASSUME NEW m \in removal[p].todo,
                 collection' = [collection EXCEPT ![p][m] = "missing"],
                 removal' = [removal EXCEPT ![p].todo = @ \ {m}], UNCHANGED previous
          PROVE  \E r \in Removal :
                   /\ removal' = [removal EXCEPT ![p] = r]
                   /\ r.pc = "drop" /\ r.quiet = removal[p].quiet /\ r.old = removal[p].old
                   /\ r.todo = removal[p].todo \ {m}
      <4> DEFINE r == [removal[p] EXCEPT !.todo = removal[p].todo \ {m}]
      <4>1. r \in Removal
        BY <1>1 DEF Removal
      <4> WITNESS r \in Removal
      <4> QED BY <1>1, <3>1, <3>2 DEF Removal
    <3>3. ASSUME removal[p].old, previous' = previous \ {p}, UNCHANGED collection,
                 removal' = [removal EXCEPT ![p].old = FALSE]
          PROVE  \E r \in Removal :
                   /\ removal' = [removal EXCEPT ![p] = r]
                   /\ r.pc = "drop" /\ r.quiet = removal[p].quiet
                   /\ r.todo = removal[p].todo
      <4> DEFINE r == [removal[p] EXCEPT !.old = FALSE]
      <4>1. r \in Removal
        BY <1>1 DEF Removal
      <4> WITNESS r \in Removal
      <4> QED BY <1>1, <3>1, <3>3 DEF Removal
    <3>4. removal[p].quiet => QuietRemoval(p)
      BY DEF ProjectsInv
    <3>5. CASE \E m \in removal[p].todo :
                 /\ collection' = [collection EXCEPT ![p][m] = "missing"]
                 /\ removal' = [removal EXCEPT ![p].todo = @ \ {m}]
                 /\ UNCHANGED previous
      <4>1. PICK m \in removal[p].todo :
                 /\ collection' = [collection EXCEPT ![p][m] = "missing"]
                 /\ removal' = [removal EXCEPT ![p].todo = @ \ {m}]
                 /\ UNCHANGED previous
        BY <3>5
      <4>2. /\ collection'[p][m] = "missing"
            /\ \A q \in Slugs \ {m} : collection'[p][q] = collection[p][q]
        BY <1>1, <4>1 DEF ProjectsInv, Removal
      <4>3. PICK r \in Removal :
                   /\ removal' = [removal EXCEPT ![p] = r]
                   /\ r.pc = "drop" /\ r.quiet = removal[p].quiet /\ r.old = removal[p].old
                   /\ r.todo = removal[p].todo \ {m}
        BY <3>2, <4>1
      <4>4. removal[p].quiet =>
              \A q \in Slugs : collection'[p][q] = "missing" \/ q \in r.todo
        BY <3>1, <3>4, <4>2, <4>3 DEF QuietRemoval
      <4> QED BY <3>1, <3>4, <4>1, <4>3, <4>4 DEF QuietRemoval
    <3>6. CASE /\ removal[p].old /\ previous' = previous \ {p} /\ UNCHANGED collection
               /\ removal' = [removal EXCEPT ![p].old = FALSE]
      BY <3>1, <3>3, <3>4, <3>6 DEF QuietRemoval
    <3> QED BY <2>5, <3>5, <3>6 DEF DropOne
  <2>6. CASE Removed(p)
    <3> DEFINE r == [removal[p] EXCEPT !.pc = "done"]
    <3>1. r \in Removal /\ r.pc = "done" /\ r.quiet = removal[p].quiet
      BY <1>1 DEF Removal
    <3>2. /\ removal' = [removal EXCEPT ![p] = r] /\ removal[p].pc = "drop"
          /\ removal[p].todo = {} /\ ~removal[p].old
          /\ UNCHANGED <<rows, collection, previous>>
      BY <1>1, <2>6 DEF Removed
    <3>3. removal[p].quiet => QuietRemoval(p)
      BY DEF ProjectsInv
    <3> HIDE DEF r
    <3>4. r.quiet =>
            /\ job[p] = "none" /\ rows'[p] = "none" /\ p \notin previous'
            /\ \A m \in Slugs : collection'[p][m] = "missing"
      BY <3>1, <3>2, <3>3 DEF QuietRemoval
    <3> QED BY <3>1, <3>2, <3>4
  <2>7. CASE AbortRemoval(p)
    <3>1. NoRemoval \in Removal /\ ~NoRemoval.quiet
      BY DEF NoRemoval, Removal
    <3> QED BY <2>7, <3>1 DEF AbortRemoval
  <2> QED BY <2>1, <2>2, <2>3, <2>4, <2>5, <2>6, <2>7
<1>5. /\ removal' \in [ProjectGuids -> Removal] /\ removal'[p] = r
      /\ \A q \in ProjectGuids \ {p} : removal'[q] = removal[q]
  BY <1>1, <1>4
<1>6. pass' \in Pass /\ PassIsRight'
  BY <1>2, <1>3, ObservedPass
<1>7. \A q \in ProjectGuids : removal'[q].quiet => QuietRemoval(q)'
  <2> TAKE q \in ProjectGuids
  <2>1. CASE q = p
    BY <1>2, <1>4, <1>5, <2>1 DEF QuietRemoval
  <2>2. CASE q # p
    BY <1>2, <1>3, <1>5, <2>2 DEF ProjectsInv, QuietRemoval
  <2> QED BY <2>1, <2>2
<1> QED BY <1>2, <1>3, <1>5, <1>6, <1>7 DEF ProjectsInv

(* Steps of the check itself, which look at the rest and leave it alone. *)
LEMMA LooksOnly ==
  ASSUME ProjectsInv,
         UNCHANGED <<rows, collection, previous, slug, job, retried, removal>>,
         pass' \in Pass, PassIsRight'
  PROVE  ProjectsInv'
<1>1. ProjectsTypeOK'
  BY DEF ProjectsInv, ProjectsTypeOK
<1>2. \A p \in ProjectGuids : removal'[p].quiet => QuietRemoval(p)'
  BY DEF ProjectsInv, QuietRemoval
<1> QED BY <1>1, <1>2 DEF ProjectsInv

LEMMA IdlePass == pass' = NoPass => pass' \in Pass /\ PassIsRight'
BY DEF NoPass, Pass, PassIsRight

LEMMA PassSteps ==
  ASSUME ProjectsInv,
         \/ StartPass \/ Report \/ Publish
         \/ \E p \in ProjectGuids : CountPoints(p) \/ CannotCount(p)
  PROVE  ProjectsInv'
<1>1. UNCHANGED <<rows, collection, previous, slug, job, retried, removal>>
  BY DEF StartPass, Report, Publish, CountPoints, CannotCount
<1>2. /\ \A p \in ProjectGuids : HasPoints(p)' = HasPoints(p) /\ Broken(p)' = Broken(p)
      /\ \A p \in ProjectGuids : Busy(p)' = Busy(p) /\ Lost(p)' = Lost(p)
  BY <1>1 DEF HasPoints, Broken, Busy, Lost
<1>3. pass \in Pass /\ PassIsRight
  BY DEF ProjectsInv, ProjectsTypeOK
<1>4. CASE StartPass
  <2> DEFINE chunks == {p \in ProjectGuids : rows[p] = "chunks"}
             broken == {p \in ProjectGuids : Broken(p)}
             lost == {p \in ProjectGuids : Lost(p)}
             busy == {p \in ProjectGuids : Busy(p)}
  <2>1. pass' = [pc |-> "count", todo |-> chunks, stale |-> {}, broken |-> broken,
                 lost |-> lost, touched |-> busy, off |-> {}]
    BY <1>4 DEF StartPass
  <2>2. pass' \in Pass
    BY <2>1 DEF Pass
  <2>3. broken \subseteq chunks /\ lost \subseteq chunks
    BY DEF Broken, Lost
  <2>4. PassIsRight'
    BY <1>1, <1>2, <2>1, <2>3 DEF PassIsRight
  <2> QED BY <1>1, <2>2, <2>4, LooksOnly
<1>5. CASE Report
  <2>1. /\ pass.pc = "count" /\ pass.todo = {}
        /\ pass' = [pass EXCEPT !.pc = "report"]
    BY <1>5 DEF Report
  <2>2. pass' \in Pass
    BY <1>3, <2>1 DEF Pass
  <2>3. /\ pass'.pc = "report" /\ pass'.todo = pass.todo /\ pass'.stale = pass.stale
        /\ pass'.broken = pass.broken /\ pass'.touched = pass.touched
        /\ pass'.lost = pass.lost /\ pass'.off = pass.off
    BY <1>3, <2>1 DEF Pass
  <2>4. PassIsRight'
    <3>1. pass.todo \subseteq ProjectGuids /\ pass.stale \subseteq ProjectGuids
          /\ pass.broken \subseteq ProjectGuids /\ pass.lost \subseteq ProjectGuids
      BY <1>3 DEF Pass
    <3> QED BY <1>1, <1>2, <1>3, <2>1, <2>3, <3>1 DEF PassIsRight
  <2> QED BY <1>1, <2>2, <2>4, LooksOnly
<1>6. CASE Publish
  BY <1>1, <1>6, IdlePass, LooksOnly DEF Publish
<1>7. ASSUME NEW p \in ProjectGuids, CountPoints(p) PROVE ProjectsInv'
  <2>1. PICK zero \in SaysZero(p) :
          pass' = [pass EXCEPT !.todo = @ \ {p},
                               !.stale = IF zero THEN @ \cup {p} ELSE @,
                               !.off = IF zero = HasPoints(p) THEN @ \cup {p} ELSE @]
    BY <1>7 DEF CountPoints
  <2>2. pass.pc = "count" /\ p \in pass.todo
    BY <1>7 DEF CountPoints
  <2>3. pass' \in Pass
    BY <1>3, <2>1 DEF Pass
  <2>4. /\ pass'.pc = "count" /\ pass'.todo = pass.todo \ {p}
        /\ pass'.stale = (IF zero THEN pass.stale \cup {p} ELSE pass.stale)
        /\ pass'.off = (IF zero = HasPoints(p) THEN pass.off \cup {p} ELSE pass.off)
        /\ pass'.broken = pass.broken /\ pass'.touched = pass.touched
        /\ pass'.lost = pass.lost
    BY <1>3, <2>1, <2>2 DEF Pass
  <2>5. pass.todo \subseteq ProjectGuids /\ pass.stale \subseteq ProjectGuids
        /\ pass.broken \subseteq ProjectGuids /\ pass.lost \subseteq ProjectGuids
    BY <1>3 DEF Pass
  <2>6. /\ zero \in BOOLEAN
        /\ Lost(p) => zero
        /\ Broken(p) => ~HasPoints(p)
    BY DEF SaysZero, Lost, Broken
  <2>7. HasPoints(p) \in BOOLEAN
    BY DEF HasPoints
  <2>8. pass'.broken \subseteq pass'.todo \cup pass'.stale \cup pass'.off
    <3>1. Broken(p) => p \in pass'.stale \cup pass'.off
      BY <2>4, <2>6, <2>7
    <3> QED BY <1>3, <2>2, <2>4, <3>1 DEF PassIsRight
  <2>9. pass'.lost \subseteq pass'.todo \cup pass'.stale
    BY <1>3, <2>2, <2>4, <2>6 DEF PassIsRight
  <2>10. \A q \in (pass'.todo \cup pass'.stale) \ pass'.touched : rows'[q] = "chunks"
    BY <1>1, <1>3, <2>2, <2>4 DEF PassIsRight
  <2>11. \A q \in pass'.stale \ (pass'.touched \cup pass'.off) : ~HasPoints(q)'
    <3>1. p \in pass'.stale \ pass'.off => ~HasPoints(p) \/ p \in pass.stale \ pass.off
      BY <2>4, <2>6, <2>7
    <3> QED BY <1>2, <1>3, <2>2, <2>4, <2>5, <3>1 DEF PassIsRight
  <2>12. /\ \A q \in pass'.broken : Broken(q)'
         /\ \A q \in pass'.lost : Lost(q)'
    BY <1>2, <1>3, <2>2, <2>4, <2>5 DEF PassIsRight
  <2>13. \A q \in ProjectGuids : Busy(q)' => q \in pass'.touched
    BY <1>2, <1>3, <2>2, <2>4 DEF PassIsRight
  <2>14. PassIsRight'
    BY <2>4, <2>8, <2>9, <2>10, <2>11, <2>12, <2>13 DEF PassIsRight
  <2> QED BY <1>1, <2>3, <2>14, LooksOnly
<1>8. ASSUME NEW p \in ProjectGuids, CannotCount(p) PROVE ProjectsInv'
  BY <1>1, <1>8, IdlePass, LooksOnly DEF CannotCount
<1> QED BY <1>4, <1>5, <1>6, <1>7, <1>8

LEMMA VolumeLost == ASSUME ProjectsInv, LoseVolume PROVE ProjectsInv'
<1>1. /\ collection' = [p \in ProjectGuids |-> [m \in Slugs |-> "missing"]]
      /\ previous' = {} /\ UNCHANGED <<rows, slug, job, retried, removal>> /\ Observe
  BY DEF LoseVolume
<1>2. \A p \in ProjectGuids : ~HasPoints(p)'
  BY <1>1 DEF ProjectsInv, ProjectsTypeOK, HasPoints
<1>3. pass' \in Pass /\ PassIsRight'
  BY <1>1, <1>2, ObservedPass
<1>4. \A p \in ProjectGuids : removal'[p].quiet => QuietRemoval(p)'
  BY <1>1 DEF ProjectsInv, QuietRemoval
<1> QED BY <1>1, <1>3, <1>4 DEF ProjectsInv, ProjectsTypeOK

LEMMA ServerRestarts ==
  ASSUME ProjectsInv, NEW m \in Slugs, NEW upgrade \in BOOLEAN, RestartServer(m, upgrade)
  PROVE  ProjectsInv'
<1>1. /\ slug' = m /\ UNCHANGED rows /\ pass' = NoPass
      /\ job' = [p \in ProjectGuids |-> "none"] /\ retried' \in {retried, {}}
      /\ removal' = [p \in ProjectGuids |->
                        IF removal[p].pc = "done" THEN removal[p] ELSE NoRemoval]
  BY DEF RestartServer
<1>2. /\ collection' \in [ProjectGuids -> [Slugs -> {"missing", "empty", "points"}]]
      /\ previous' \subseteq ProjectGuids
      /\ \A p \in ProjectGuids :
           (\A q \in Slugs : collection[p][q] = "missing") =>
             /\ p \in previous' => p \in previous
             /\ \A q \in Slugs : collection'[p][q] = "missing"
  <2>1. CASE upgrade
    BY <2>1 DEF RestartServer, ProjectsInv, ProjectsTypeOK
  <2>2. CASE ~upgrade
    BY <2>2 DEF RestartServer, ProjectsInv, ProjectsTypeOK
  <2> QED BY <2>1, <2>2
<1>3. NoRemoval \in Removal /\ ~NoRemoval.quiet
  BY DEF NoRemoval, Removal
<1>4. ProjectsTypeOK'
  BY <1>1, <1>2, <1>3, IdlePass DEF ProjectsInv, ProjectsTypeOK
<1>5. \A p \in ProjectGuids : removal'[p].quiet => QuietRemoval(p)'
  <2> TAKE p \in ProjectGuids
  <2> HAVE removal'[p].quiet
  <2>1. removal[p].pc = "done" /\ removal'[p] = removal[p] /\ QuietRemoval(p)
    BY <1>1, <1>3 DEF ProjectsInv
  <2> QED BY <1>1, <1>2, <2>1 DEF QuietRemoval
<1> QED BY <1>1, <1>4, <1>5, IdlePass DEF ProjectsInv

LEMMA ProjectsSteps == ProjectsInv /\ [ProjectsNext]_projectVars => ProjectsInv'
<1> SUFFICES ASSUME ProjectsInv, [ProjectsNext]_projectVars PROVE ProjectsInv'
  OBVIOUS
<1>1. CASE UNCHANGED projectVars
  BY <1>1 DEF projectVars, ProjectsInv, ProjectsTypeOK, QuietRemoval, PassIsRight,
     Broken, Busy, HasPoints, Lost
<1>2. ASSUME NEW p \in ProjectGuids, ProjectStep(p) PROVE ProjectsInv'
  BY <1>2, JobSteps, RetrySteps, FileSteps, RemovalSteps, PassSteps DEF ProjectStep
<1> QED
  BY <1>1, <1>2, PassSteps, VolumeLost, ServerRestarts DEF ProjectsNext

(* delete_project: for any number of projects and models, and whatever failed
   before, a DELETE that is answered 204 has left nothing, if its listing
   succeeded and no /index was under way. *)
THEOREM DeleteIsComplete == ProjectsSpec => []DeleteLeavesNothing
<1>1. ProjectsInv => DeleteLeavesNothing
  BY DEF ProjectsInv, QuietRemoval, DeleteLeavesNothing
<1> QED BY ProjectsStart, ProjectsSteps, <1>1, PTL DEF ProjectsSpec

(* check_once: a published report has missed no project whose collection was gone
   all the time, and none that was broken otherwise unless Qdrant's estimate of its
   points was off; and it names nothing that is not broken, was left alone by
   /index, DELETE and the retry worker, and was estimated right. *)
THEOREM ReportIsRight == ProjectsSpec => []StaleReportIsRight
<1>1. ProjectsInv => StaleReportIsRight
  BY DEF ProjectsInv, PassIsRight, StaleReportIsRight, Broken
<1> QED BY ProjectsStart, ProjectsSteps, <1>1, PTL DEF ProjectsSpec

-----------------------------------------------------------------------------
(* The search.  Rows never change their file nor turn back into unborn ones, so
   that a candidate stays wanted; a steady chunk is a candidate and a point when
   Qdrant ranks and, reached, is left out only for top_k winners. *)
SearchRecord ==
  [pc : {"embed", "candidates", "qdrant", "fetch", "done"}, want : Selectors,
   topK : TopKs, candidates : SUBSET Chunks, hits : SUBSET Chunks,
   answer : Seq(Chunks), status : {0, 200, 404, 499, 500, 503}]

SearchTyped ==
  /\ row \in [Chunks -> Row \cup {Unborn}] /\ points \subseteq Chunks
  /\ search \in SearchRecord

SteadyRight ==
  /\ \A c \in steady : c \in points /\ Wanted(c) /\ Active(c)
  /\ search.pc = "embed" => steady = {}
  /\ search.pc \in {"qdrant", "fetch"} => steady \subseteq search.candidates

Left(c) ==
  Cardinality(search.hits) = search.topK /\ \A h \in search.hits : ~Outscores(c, h)

StageRight ==
  /\ search.pc # "done" => search.answer = <<>> /\ search.status = 0
  /\ search.pc \in {"embed", "candidates", "qdrant"} => search.hits = {}
  /\ \A c \in search.candidates : Wanted(c)
  /\ search.hits \subseteq search.candidates
  /\ search.pc = "fetch" => search.hits # {} /\ \A c \in steady \ search.hits : Left(c)

SearchInv ==
  SearchTyped /\ (search.pc # "done" => SteadyRight /\ StageRight) /\ SearchIsHonest

LEMMA SearchStarts == SearchInit => SearchInv
<1> SUFFICES ASSUME SearchInit PROVE SearchInv
  OBVIOUS
<1>1. SearchTyped
  BY DEF SearchInit, SearchTyped, SearchRecord
<1> QED BY <1>1 DEF SearchInit, SearchInv, SteadyRight, StageRight, SearchIsHonest

(* While no answer is out there is nothing to be honest about. *)
LEMMA Unanswered == ASSUME search.status \notin {200, 404} PROVE SearchIsHonest
BY DEF SearchIsHonest

(* Steps of the other side. *)
LEMMA OthersStep ==
  ASSUME SearchInv,
         \/ \E f \in SourceFiles : ReplaceChunks(f)
         \/ \E c \in Chunks : Upsert(c) \/ Collect(c)
  PROVE  SearchInv'
<1>1. /\ SearchTyped /\ SteadyRight /\ StageRight
      /\ search.pc # "done" /\ UNCHANGED <<search, score>>
  BY DEF SearchInv, ReplaceChunks, Upsert, Collect, Searching
<1>2. SearchIsHonest'
  BY <1>1 DEF StageRight, SearchIsHonest
<1>3. CASE \E f \in SourceFiles : ReplaceChunks(f)
  <2>1. PICK f \in SourceFiles, new \in SUBSET {c \in Chunks : row[c] = Unborn} :
          LET old == {c \in Chunks : Active(c) /\ row[c].file = f}
          IN /\ row' = [c \in Chunks |->
                          IF c \in old THEN [file |-> f, status |-> "deleted"]
                          ELSE IF c \in new THEN [file |-> f, status |-> "active"]
                          ELSE row[c]]
             /\ steady' = steady \ old /\ points' = points
    BY <1>3 DEF ReplaceChunks
  <2>2. row' \in [Chunks -> Row \cup {Unborn}]
    BY <2>1, <1>1 DEF SearchTyped, Row
  <2>3. \A c \in Chunks : row[c] # Unborn => row'[c] # Unborn /\ row'[c].file = row[c].file
    BY <2>1, <1>1, SearchAssumption DEF SearchTyped, Row, Active
  <2>4. \A c \in steady' : c \in steady /\ c \in Chunks /\ row'[c] = row[c]
    BY <2>1, <1>1 DEF SearchTyped, SteadyRight, Wanted, Active
  <2>5. SearchTyped'
    BY <2>1, <2>2, <1>1 DEF SearchTyped
  <2>6. \A c \in Chunks : Wanted(c) => Wanted(c)'
    BY <2>3, <1>1 DEF Wanted
  <2>7. search.candidates \subseteq Chunks
    BY <1>1 DEF SearchTyped, SearchRecord
  <2>8. SteadyRight'
    BY <2>1, <2>4, <1>1 DEF SteadyRight, Wanted, Active
  <2>9. StageRight'
    BY <2>4, <2>6, <2>7, <1>1 DEF StageRight, Left, Outscores
  <2> QED BY <1>2, <2>5, <2>8, <2>9 DEF SearchInv
<1>4. CASE \E c \in Chunks : Upsert(c) \/ Collect(c)
  <2>1. PICK c \in Chunks : Upsert(c) \/ Collect(c)
    BY <1>4
  <2>2. UNCHANGED <<row, steady>> /\ points' \subseteq Chunks
    BY <2>1, <1>1 DEF Upsert, Collect, SearchTyped
  <2>3. \A d \in steady : d \in points'
    BY <2>1, <1>1 DEF Upsert, Collect, SteadyRight
  <2>4. SteadyRight'
    BY <2>2, <2>3, <1>1 DEF SteadyRight, Wanted, Active
  <2>5. StageRight' /\ SearchTyped'
    BY <2>2, <1>1 DEF StageRight, Left, Outscores, Wanted, SearchTyped
  <2> QED BY <1>2, <2>4, <2>5 DEF SearchInv
<1> QED BY <1>3, <1>4

(* The steps of the request that is being answered: how it ends. *)
LEMMA OverRecord ==
  ASSUME search \in SearchRecord, NEW over, over = [search EXCEPT !.pc = "done"]
  PROVE  /\ over \in SearchRecord /\ over.pc = "done"
         /\ over.answer = search.answer /\ over.hits = search.hits
         /\ over.want = search.want /\ over.topK = search.topK
         /\ over.candidates = search.candidates
<1>1. over.pc = "done" /\ DOMAIN over = DOMAIN search
  BY DEF SearchRecord
<1>2. /\ over.answer = search.answer /\ over.hits = search.hits
      /\ over.want = search.want /\ over.topK = search.topK
  BY DEF SearchRecord
<1>3. over.candidates = search.candidates
  BY DEF SearchRecord
<1>4. over \in SearchRecord
  BY DEF SearchRecord
<1> QED BY <1>1, <1>2, <1>3, <1>4

LEMMA AnswerRecord ==
  ASSUME SearchInv, NEW status \in {404, 499, 500, 503}, Ends(status)
  PROVE  /\ search' \in SearchRecord /\ search'.pc = "done" /\ search'.status = status
         /\ search'.answer = search.answer /\ search'.hits = search.hits
         /\ search'.topK = search.topK /\ search'.candidates = search.candidates
<1> DEFINE over == [search EXCEPT !.pc = "done"]
<1>1. /\ over \in SearchRecord /\ over.pc = "done"
      /\ over.answer = search.answer /\ over.hits = search.hits
      /\ over.topK = search.topK /\ over.candidates = search.candidates
  BY OverRecord DEF SearchInv, SearchTyped
<1>2. search' = [over EXCEPT !.status = status]
  BY DEF Ends, SearchInv, SearchTyped, SearchRecord
<1> HIDE DEF over
<1> QED BY <1>1, <1>2 DEF SearchRecord

LEMMA EndsWithout ==
  ASSUME SearchInv, NEW status \in {499, 500, 503}, Answers(status), UNCHANGED <<row, points>>
  PROVE  SearchInv'
<1>1. SearchTyped'
  BY AnswerRecord DEF SearchInv, SearchTyped, Answers
<1>2. search'.pc = "done" /\ search'.status = status
  BY AnswerRecord DEF Answers
<1> QED BY <1>1, <1>2 DEF SearchInv, SearchIsHonest

LEMMA EndsEmpty ==
  ASSUME SearchInv, search.pc # "done", Ends(404), UNCHANGED <<row, points, score>>,
         \A c \in steady' : Left(c)
  PROVE  SearchInv'
<1>1. SearchTyped'
  BY AnswerRecord DEF SearchInv, SearchTyped
<1>2. /\ search'.pc = "done" /\ search'.status = 404 /\ search'.answer = <<>>
      /\ search'.hits = search.hits /\ search'.topK = search.topK
      /\ search'.candidates = search.candidates
  BY AnswerRecord DEF SearchInv, StageRight
<1>3. \A c \in steady' :
        {h \in search.hits \cap search.candidates : ~Outscores(c, h)} = search.hits
  BY DEF SearchInv, StageRight, Left
<1>4. \A c \in steady' :
        Cardinality({h \in search.hits \cap search.candidates : ~Outscores(c, h)})
          = search.topK
  BY <1>3 DEF Left
<1>5. SearchIsHonest'
  BY <1>2, <1>4 DEF SearchIsHonest, Outscores
<1> QED BY <1>1, <1>2, <1>5 DEF SearchInv

LEMMA RequestSteps ==
  ASSUME SearchInv, EmbedQuery \/ ReadCandidates \/ RankPoints \/ FetchRows
                      \/ SearchFails \/ SearchLeft
  PROVE  SearchInv'
<1>1. /\ SearchTyped /\ SteadyRight /\ StageRight
      /\ search.pc # "done" /\ UNCHANGED <<row, points>>
  BY DEF SearchInv, EmbedQuery, ReadCandidates, RankPoints, FetchRows, SearchFails,
         SearchLeft, Searching, Goes
<1>2. CASE EmbedQuery
  <2>1. /\ search' = [search EXCEPT !.pc = "candidates"]
        /\ steady' = Findable /\ UNCHANGED score
    BY <1>2 DEF EmbedQuery
  <2>2. SearchTyped' /\ search'.pc = "candidates" /\ search.pc = "embed"
    BY <1>1, <1>2, <2>1 DEF SearchTyped, SearchRecord, EmbedQuery, Goes
  <2>3. SteadyRight'
    BY <1>1, <2>1, <2>2 DEF SteadyRight, Findable, Wanted, Active, SearchTyped, SearchRecord
  <2>4. StageRight' /\ search'.status = 0
    BY <1>1, <2>1, <2>2 DEF StageRight, Wanted, SearchTyped, SearchRecord
  <2> QED BY <2>2, <2>3, <2>4 DEF SearchInv, SearchIsHonest
<1>3. CASE ReadCandidates
  <2> DEFINE found == {c \in Chunks : Wanted(c) /\ Active(c)}
  <2>1. steady \subseteq found /\ search.pc = "candidates"
    BY <1>1, <1>3 DEF SteadyRight, SearchTyped, ReadCandidates, Goes
  <2>2. CASE found = {}
    BY <1>1, <1>3, <2>1, <2>2, EndsEmpty DEF ReadCandidates, Answers
  <2>3. CASE found # {}
    <3>1. /\ search' = [search EXCEPT !.pc = "qdrant", !.candidates = found]
          /\ UNCHANGED <<score, steady>>
      BY <1>3, <2>3 DEF ReadCandidates
    <3>2. /\ SearchTyped' /\ search'.pc = "qdrant" /\ search'.candidates = found
          /\ search'.hits = search.hits /\ search'.want = search.want
          /\ search'.answer = search.answer /\ search'.status = search.status
      <4> DEFINE next == [search EXCEPT !.pc = "qdrant"]
      <4>1. /\ next \in SearchRecord /\ next.pc = "qdrant"
            /\ next.hits = search.hits /\ next.want = search.want
            /\ next.answer = search.answer /\ next.status = search.status
        BY <1>1 DEF SearchTyped, SearchRecord
      <4>2. search' = [next EXCEPT !.candidates = found] /\ found \in SUBSET Chunks
        BY <1>1, <3>1 DEF SearchTyped, SearchRecord
      <4> HIDE DEF next, found
      <4>3. search' \in SearchRecord
        BY <4>1, <4>2 DEF SearchRecord
      <4> QED BY <1>1, <4>1, <4>2, <4>3 DEF SearchTyped, SearchRecord
    <3>3. SteadyRight'
      BY <1>1, <2>1, <3>1, <3>2 DEF SteadyRight, Wanted, Active
    <3>4. StageRight' /\ search'.status = 0
      BY <1>1, <2>1, <3>1, <3>2 DEF StageRight, Wanted
    <3> QED BY <3>2, <3>3, <3>4 DEF SearchInv, SearchIsHonest
  <2> QED BY <2>2, <2>3
<1>4. CASE RankPoints
  <2>0. PICK reached \in SUBSET InScope :
          \E hits \in SUBSET reached, similarity \in [reached -> Scores \cup {Unscorable}] :
          /\ \/ Cardinality(hits) = search.topK
             \/ Cardinality(hits) < search.topK /\ hits = reached
          /\ \A h \in hits, o \in reached \ hits : ~Higher(similarity[o], similarity[h])
          /\ steady' = steady \cap reached
          /\ IF hits = {} THEN Ends(404) /\ UNCHANGED score
             ELSE /\ search' = [search EXCEPT !.pc = "fetch", !.hits = hits]
                  /\ score' = [c \in Chunks |->
                                IF c \in reached THEN similarity[c] ELSE Unscorable]
    BY <1>4 DEF RankPoints
  <2>1. PICK hits \in SUBSET reached, similarity \in [reached -> Scores \cup {Unscorable}] :
          /\ \/ Cardinality(hits) = search.topK
             \/ hits = reached
          /\ \A h \in hits, o \in reached \ hits : ~Higher(similarity[o], similarity[h])
          /\ steady' = steady \cap reached
          /\ IF hits = {} THEN Ends(404) /\ UNCHANGED score
             ELSE /\ search' = [search EXCEPT !.pc = "fetch", !.hits = hits]
                  /\ score' = [c \in Chunks |->
                                IF c \in reached THEN similarity[c] ELSE Unscorable]
    BY <2>0
  <2>2. /\ search.pc = "qdrant" /\ steady' \subseteq reached /\ steady' \subseteq steady
        /\ reached \subseteq search.candidates /\ reached \subseteq Chunks
    BY <1>1, <1>4, <2>1 DEF RankPoints, Goes, InScope, SearchTyped
  <2>3. CASE hits = {}
    <3>1. search.hits = {}
      BY <1>1, <2>2 DEF StageRight
    <3>2. \A c \in steady' : Left(c)
      BY <2>1, <2>2, <2>3, <3>1 DEF Left
    <3> QED BY <1>1, <2>1, <2>3, <3>2, EndsEmpty
  <2>4. CASE hits # {}
    <3>1. /\ SearchTyped' /\ search'.pc = "fetch" /\ search'.hits = hits
          /\ search'.candidates = search.candidates /\ search'.want = search.want
          /\ search'.answer = search.answer /\ search'.status = search.status
          /\ search'.topK = search.topK
      <4> DEFINE next == [search EXCEPT !.pc = "fetch"]
      <4>1. /\ next \in SearchRecord /\ next.pc = "fetch"
            /\ next.candidates = search.candidates /\ next.want = search.want
            /\ next.answer = search.answer /\ next.status = search.status
            /\ next.topK = search.topK
        BY <1>1 DEF SearchTyped, SearchRecord
      <4>2. search' = [next EXCEPT !.hits = hits] /\ hits \in SUBSET Chunks
        BY <1>1, <2>1, <2>2, <2>4 DEF SearchTyped, SearchRecord
      <4> HIDE DEF next
      <4>3. search' \in SearchRecord
        BY <4>1, <4>2 DEF SearchRecord
      <4>4. /\ search'.pc = "fetch" /\ search'.hits = hits
            /\ search'.candidates = search.candidates /\ search'.want = search.want
            /\ search'.answer = search.answer /\ search'.status = search.status
            /\ search'.topK = search.topK
        BY <4>1, <4>2 DEF SearchRecord
      <4>5. UNCHANGED <<row, points>>
        BY <1>4 DEF RankPoints, Goes
      <4>6. SearchTyped'
        BY <1>1, <4>3, <4>5 DEF SearchTyped
      <4> QED BY <4>4, <4>5, <4>6
    <3>2. SteadyRight'
      BY <1>1, <2>2, <3>1 DEF SteadyRight, Wanted, Active
    <3>3. \A c \in reached : score'[c] = similarity[c]
      BY <2>1, <2>2, <2>4
    <3>4. \A c \in steady' \ hits : Left(c)'
      BY <2>1, <2>2, <3>1, <3>3 DEF Left, Outscores
    <3>5. StageRight' /\ search'.status = 0
      BY <1>1, <2>1, <2>2, <2>4, <3>1, <3>4 DEF StageRight, Wanted
    <3> QED BY <3>1, <3>2, <3>5 DEF SearchInv, SearchIsHonest
  <2> QED BY <2>3, <2>4
<1>5. CASE FetchRows
  <2> DEFINE found == {c \in search.hits : Active(c)}
             places == 1..Cardinality(found)
  <2>1. /\ search.pc = "fetch" /\ search.hits \subseteq Chunks
        /\ \A c \in steady : Active(c)
    BY <1>1, <1>5 DEF FetchRows, Goes, SteadyRight, SearchTyped, SearchRecord
  <2>2. CASE found = {}
    <3>1. \A c \in steady : Left(c)
      BY <1>1, <2>1, <2>2 DEF StageRight
    <3> QED BY <1>1, <1>5, <2>2, <3>1, EndsEmpty DEF FetchRows, Answers
  <2>3. CASE found # {}
    <3>1. PICK ranked \in [places -> found] :
            /\ {ranked[i] : i \in places} = found
            /\ \A i, j \in places : i < j => ~RanksBefore(ranked[j], ranked[i])
            /\ search' = [search EXCEPT !.pc = "done", !.answer = ranked, !.status = 200]
            /\ UNCHANGED <<score, steady>>
      BY <1>5, <2>3 DEF FetchRows
    <3>2. ranked \in Seq(Chunks)
      <4>1. Cardinality(found) \in Nat
        BY <2>1, SearchAssumption, FS_Subset, FS_CardinalityType
      <4>2. found \subseteq Chunks /\ ranked \in [1..Cardinality(found) -> found]
        BY <2>1, <3>1
      <4> HIDE DEF found
      <4> QED BY <4>1, <4>2
    <3>3. /\ SearchTyped' /\ search'.pc = "done" /\ search'.hits = search.hits
          /\ search'.candidates = search.candidates /\ search'.want = search.want
          /\ search'.answer = ranked /\ search'.topK = search.topK
          /\ search'.status = 200
      <4> DEFINE over == [search EXCEPT !.pc = "done"]
                 told == [over EXCEPT !.answer = ranked]
      <4>1. /\ over \in SearchRecord /\ over.pc = "done" /\ over.hits = search.hits
            /\ over.candidates = search.candidates /\ over.want = search.want
            /\ over.topK = search.topK
        BY <1>1, OverRecord DEF SearchTyped
      <4>2. search' = [told EXCEPT !.status = 200]
        BY <1>1, <3>1 DEF SearchTyped, SearchRecord
      <4> HIDE DEF over, found
      <4>3. /\ told.pc = "done" /\ told.hits = search.hits
            /\ told.candidates = search.candidates /\ told.want = search.want
            /\ told.topK = search.topK /\ told.answer = ranked
        <5>1. told.pc = "done" /\ told.hits = search.hits /\ told.want = search.want
          BY <4>1 DEF SearchRecord
        <5>2. /\ told.candidates = search.candidates /\ told.topK = search.topK
              /\ told.answer = ranked
          BY <4>1 DEF SearchRecord
        <5> QED BY <5>1, <5>2
      <4>4. told \in SearchRecord
        <5> DEFINE Answer == Seq(Chunks)
        <5>1. ranked \in Answer
          BY <3>2
        <5>2. over \in [pc : {"embed", "candidates", "qdrant", "fetch", "done"},
                        want : Selectors, topK : TopKs, candidates : SUBSET Chunks,
                        hits : SUBSET Chunks, answer : Answer,
                        status : {0, 200, 404, 499, 500, 503}]
          BY <4>1 DEF SearchRecord
        <5> HIDE DEF Answer
        <5>3. told \in [pc : {"embed", "candidates", "qdrant", "fetch", "done"},
                        want : Selectors, topK : TopKs, candidates : SUBSET Chunks,
                        hits : SUBSET Chunks, answer : Answer,
                        status : {0, 200, 404, 499, 500, 503}]
          BY <5>1, <5>2
        <5> QED BY <5>3 DEF SearchRecord, Answer
      <4> HIDE DEF told
      <4>5. search' \in SearchRecord
        BY <4>2, <4>4 DEF SearchRecord
      <4> QED BY <1>1, <4>2, <4>3, <4>4, <4>5 DEF SearchTyped, SearchRecord
    <3>4. DOMAIN ranked = places
      BY <3>1
    <3>5. \A c \in found : Active(c)' /\ Wanted(c)'
      BY <1>1, <3>3 DEF StageRight, Active, Wanted
    <3>6. \A i, j \in places :
            i < j /\ score[ranked[i]] = Unscorable => score[ranked[j]] = Unscorable
      BY <3>1 DEF RanksBefore
    <3>7. \A c \in steady \ found :
            Cardinality({h \in search.hits \cap search.candidates : ~Outscores(c, h)})
              = search.topK
      <4> SUFFICES ASSUME NEW c \in steady \ found
                   PROVE  Cardinality({h \in search.hits \cap search.candidates : ~Outscores(c, h)})
                            = search.topK
        OBVIOUS
      <4>1. Left(c)
        BY <1>1, <2>1 DEF StageRight
      <4>2. {h \in search.hits \cap search.candidates : ~Outscores(c, h)} = search.hits
        BY <1>1, <4>1 DEF StageRight, Left
      <4> QED BY <4>1, <4>2 DEF Left
    <3>8. {search'.answer[i] : i \in DOMAIN search'.answer} = found
      BY <3>1, <3>3, <3>4
    <3>9. SearchIsHonest'
      <4> HIDE DEF found, places
      <4>1. \A c \in steady \ found :
              Cardinality({h \in search.hits \cap search.candidates : ~Outscores(c, h)'})
                = search.topK
        BY <3>1, <3>7 DEF Outscores
      <4> QED BY <2>3, <3>1, <3>3, <3>4, <3>5, <3>6, <3>8, <4>1 DEF SearchIsHonest
    <3> QED BY <3>3, <3>9 DEF SearchInv
  <2> QED BY <2>2, <2>3
<1>6. CASE SearchFails \/ SearchLeft
  BY <1>1, <1>6, EndsWithout DEF SearchFails, SearchLeft, Goes
<1> QED BY <1>2, <1>3, <1>4, <1>5, <1>6

LEMMA SearchSteps == SearchInv /\ [SearchNext]_searchVars => SearchInv'
<1> SUFFICES ASSUME SearchInv, [SearchNext]_searchVars PROVE SearchInv'
  OBVIOUS
<1>1. CASE UNCHANGED searchVars
  BY <1>1 DEF searchVars, SearchInv, SearchTyped, SteadyRight, StageRight, SearchIsHonest,
              Left, Outscores, Wanted, Active
<1> QED BY <1>1, OthersStep, RequestSteps DEF SearchNext

(* search_core: however files are indexed, deleted and collected between the two
   reads of SQLite and the ranking, and whatever scores Qdrant gives, an answer
   names active chunks only, ranks no unscorable one above a scored one, and misses
   a chunk that could be found all the while only if Qdrant's query did not reach it,
   or for top_k others. *)
THEOREM SearchAnswersHonestly == SearchSpec => []SearchIsHonest
<1>1. SearchInv => SearchIsHonest
  BY DEF SearchInv
<1> QED BY <1>1, SearchStarts, SearchSteps, PTL DEF SearchSpec

-----------------------------------------------------------------------------
(* The watcher.  Its debounce task forgets no edit, for any number of paths,
   contents, edits, failures and restarts. *)

(* The event that says what the tree holds of a path now. *)
Verb(p) == IF disk[p] = Absent THEN "delete" ELSE "upsert"

(* An event of the path is in the channel. *)
Heard(p) == \E i \in 1 .. Len(events) : events[i][2] = p

Flush == task["flush"]

(* The last event of a path, in the channel or else in the buffer, is right. *)
LastWord(p) ==
  /\ \A i \in 1 .. Len(events) :
       events[i][2] = p /\ (\A j \in i + 1 .. Len(events) : events[j][2] # p)
         => events[i][1] = Verb(p)
  /\ ~Heard(p) => buf[p] \in {"none", Verb(p)}

(* With no event to come, the batch holds of a path what the tree does. *)
Handled(p) ==
  ~Heard(p) /\ buf[p] = "none" =>
    /\ p \in Flush.todo => disk[p] # Absent
    /\ p \in Flush.del => disk[p] = Absent
    /\ Flush.text[p] \in {Absent, disk[p]}

(* What the server took of the push under way is stored, or is being stored. *)
Pushed(p) ==
  At("flush", "index") /\ Flush.text[p] # Absent /\ p \notin Flush.todo =>
    /\ version[p] = Flush.text[p]
    /\ stage[p] = "published" \/ (stage[p] = "pending" /\ claim[p] = "flush")

(* The drift task is not at the path, and nothing was left behind there. *)
Undisturbed(p) ==
  /\ stage[p] # "failed" /\ claim[p] # "drift"
  /\ stage[p] = "pending" => claim[p] = "flush"

(* What DebounceForgetsNothing says of a path. *)
InOrder(p) == InSync(p) \/ Underway(p) \/ disk[p] \in Oversized

(* What the debounce task holds at each point of its pass. *)
FlushOrder ==
  /\ Flush.pc # "hash"
  /\ Flush.pc = "idle" => Flush.del = {}
  /\ Flush.pc \in {"idle", "delete"} => Flush.todo = {} /\ Flush.text = Nothing
  /\ Flush.pc = "index" => \A p \in Flush.todo : Flush.text[p] # Absent

(* A claim is held by a push that is out and has taken the path. *)
ClaimsPlaced ==
  \A p \in Paths :
    /\ claim[p] = "drift" => At("drift", "index")
    /\ claim[p] = "flush" => /\ At("flush", "index") /\ p \notin Flush.todo
                             /\ Flush.text[p] # Absent

(* What the debounce task owes a path nobody interfered with. *)
InHand(p) == LastWord(p) /\ Handled(p) /\ Pushed(p) /\ Undisturbed(p) /\ InOrder(p)

(* The parts of the type invariant, and the ways a task is written. *)
LEMMA TrackedTyped ==
  ASSUME WatcherTypeOK, NEW p \in Paths PROVE Tracked(p) \in Contents \cup {Absent}
BY DEF WatcherTypeOK, Tracked

(* The two states a task begins a pass with are tasks. *)
LEMMA IdleTyped == Idle \in Task /\ Hashing \in Task
BY DEF Idle, Hashing, Task, Nothing

(* One task is written; the other stays as it is. *)
LEMMA BecomeTyped ==
  ASSUME WatcherTypeOK, NEW t \in Tasks, NEW new \in Task, Become(t, new)
  PROVE  /\ task' \in [Tasks -> Task] /\ task'[t] = new
         /\ \A u \in Tasks : u # t => task'[u] = task[u]
BY DEF Become, WatcherTypeOK

(* The readings and the sending of a batch. *)
LEMMA ReadTyped ==
  ASSUME WatcherTypeOK, NEW t \in Tasks, NEW p \in Paths,
         Become(t, [task[t] EXCEPT !.todo = @ \ {p}, !.text[p] = Tracked(p)])
  PROVE  /\ task' \in [Tasks -> Task]
         /\ \A u \in Tasks : u # t => task'[u] = task[u]
         /\ task'[t].pc = task[t].pc /\ task'[t].del = task[t].del
         /\ task'[t].todo = task[t].todo \ {p}
         /\ task'[t].text[p] = Tracked(p)
         /\ \A q \in Paths \ {p} : task'[t].text[q] = task[t].text[q]
<1> DEFINE new == [task[t] EXCEPT !.todo = @ \ {p}, !.text[p] = Tracked(p)]
<1>1. task[t] \in Task /\ Tracked(p) \in Contents \cup {Absent}
  BY TrackedTyped DEF WatcherTypeOK
<1>2. /\ new \in Task /\ new.pc = task[t].pc /\ new.del = task[t].del
      /\ new.todo = task[t].todo \ {p} /\ new.text[p] = Tracked(p)
      /\ \A q \in Paths \ {p} : new.text[q] = task[t].text[q]
  BY <1>1 DEF Task
<1> HIDE DEF new
<1>3. Become(t, new)
  BY DEF new
<1> QED
  BY <1>2, <1>3, BecomeTyped

(* A batch is sent as it was read. *)
LEMMA SendTyped ==
  ASSUME WatcherTypeOK, NEW t \in Tasks, Send(t)
  PROVE  /\ task' \in [Tasks -> Task]
         /\ \A u \in Tasks : u # t => task'[u] = task[u]
         /\ task'[t].pc = IF ToPush(t) # {} THEN "index" ELSE "delete"
         /\ task'[t].todo = ToPush(t) /\ task'[t].del = task[t].del
         /\ task'[t].text = task[t].text
<1> DEFINE new == [task[t] EXCEPT !.pc = IF ToPush(t) # {} THEN "index" ELSE "delete",
                                  !.todo = ToPush(t)]
<1>1. task[t] \in Task /\ ToPush(t) \subseteq Paths
  BY DEF WatcherTypeOK, ToPush
<1>2. /\ new \in Task /\ new.pc = IF ToPush(t) # {} THEN "index" ELSE "delete"
      /\ new.todo = ToPush(t) /\ new.del = task[t].del /\ new.text = task[t].text
  BY <1>1 DEF Task
<1> HIDE DEF new
<1>3. Become(t, new)
  BY DEF Send, new
<1> QED
  BY <1>2, <1>3, BecomeTyped

(* The steps of the two tasks towards the server. *)
LEMMA TakeTyped ==
  ASSUME WatcherTypeOK, NEW t \in Tasks, NEW p \in Paths, Take(t, p)
  PROVE  /\ WatcherTypeOK'
         /\ \A u \in Tasks : u # t => task'[u] = task[u]
         /\ task'[t] = [task[t] EXCEPT !.todo = @ \ {p}]
<1>1. task[t] \in Task
  BY DEF WatcherTypeOK
<1>2. [task[t] EXCEPT !.todo = @ \ {p}] \in Task
  BY <1>1 DEF Task
<1>3. task' \in [Tasks -> Task] /\ task'[t] = [task[t] EXCEPT !.todo = @ \ {p}]
      /\ \A u \in Tasks : u # t => task'[u] = task[u]
  BY <1>2, BecomeTyped DEF Take
<1>4. task[t].text[p] \in Contents \cup {Absent}
  BY <1>1 DEF Task
<1> QED
  BY <1>3, <1>4 DEF Take, Touch, WatcherTypeOK, watchVars, serverVars

(* A push that is over leaves only its deletes. *)
LEMMA EndTyped ==
  ASSUME WatcherTypeOK, NEW t \in Tasks, NEW new \in {"published", "failed"}, End(t, new)
  PROVE  /\ task' \in [Tasks -> Task]
         /\ \A u \in Tasks : u # t => task'[u] = task[u]
         /\ task'[t].pc = "delete" /\ task'[t].todo = {} /\ task'[t].text = Nothing
         /\ task'[t].del = task[t].del
         /\ stage' \in [Paths -> {"absent", "pending", "published", "failed", "deleted"}]
         /\ claim' \in [Paths -> Tasks \cup {Nobody}]
         /\ UNCHANGED <<disk, events, buf, watching, version>>
<1> DEFINE over == [task[t] EXCEPT !.pc = "delete", !.todo = {}, !.text = Nothing]
<1>1. task[t] \in Task
  BY DEF WatcherTypeOK
<1>2. /\ over \in Task /\ over.pc = "delete" /\ over.todo = {} /\ over.text = Nothing
      /\ over.del = task[t].del
  BY <1>1 DEF Task, Nothing
<1> HIDE DEF over
<1>3. Become(t, over)
  BY DEF End, over
<1>4. /\ task' \in [Tasks -> Task] /\ task'[t] = over
      /\ \A u \in Tasks : u # t => task'[u] = task[u]
  BY <1>2, <1>3, BecomeTyped
<1> QED
  BY <1>2, <1>4 DEF End, WatcherTypeOK, watchVars

(* What holds of the tasks and the claims whatever was disturbed. *)
Ordered == WatcherTypeOK /\ FlushOrder /\ ClaimsPlaced

(* The steps that leave the tasks and the claims alone. *)
LEMMA QuietOrdered ==
  ASSUME Ordered, WatcherTypeOK', UNCHANGED <<task, claim>>
  PROVE  Ordered'
BY DEF Ordered, FlushOrder, ClaimsPlaced, Flush, At, Nothing

(* The steps of the drift task that touch no claim and are not in a push. *)
LEMMA DriftOrdered ==
  ASSUME Ordered, WatcherTypeOK', UNCHANGED claim, task'["flush"] = task["flush"],
         ~At("drift", "index")
  PROVE  Ordered'
BY DEF Ordered, FlushOrder, ClaimsPlaced, Flush, At, Nothing

(* An edit touches no task, *)
LEMMA EditOrdered ==
  ASSUME Ordered, NEW p \in Paths, NEW c \in Contents \cup {Absent}, Edit(p, c)
  PROVE  Ordered'
<1>1. disk' \in [Paths -> Contents \cup {Absent}]
  BY DEF Edit, Ordered, WatcherTypeOK
<1>2. events' \in Seq({"upsert", "delete"} \X Paths)
  <2> DEFINE e == <<IF c = Absent THEN "delete" ELSE "upsert", p>>
  <2>1. e \in {"upsert", "delete"} \X Paths
    OBVIOUS
  <2>2. events \in Seq({"upsert", "delete"} \X Paths)
    BY DEF Ordered, WatcherTypeOK
  <2> HIDE DEF e
  <2>3. Append(events, e) \in Seq({"upsert", "delete"} \X Paths)
    BY <2>1, <2>2
  <2>4. events' = events \/ events' = Append(events, e)
    BY DEF Edit, e
  <2> QED
    BY <2>2, <2>3, <2>4
<1>3. changes' \in 0 .. MaxChanges
  BY WatcherAssumption DEF Edit, Ordered, WatcherTypeOK
<1>4. excused' \subseteq Paths
  BY DEF Edit, Ordered, WatcherTypeOK
<1>5. UNCHANGED <<buf, watching, task, stage, version, claim>>
  BY DEF Edit, serverVars
<1>6. WatcherTypeOK'
  BY <1>1, <1>2, <1>3, <1>4, <1>5 DEF Ordered, WatcherTypeOK
<1> QED
  BY <1>5, <1>6, QuietOrdered

(* nor does receiving an event. *)
LEMMA ReceiveOrdered ==
  ASSUME Ordered, Receive
  PROVE  Ordered'
<1>1. events \in Seq({"upsert", "delete"} \X Paths) /\ events # <<>>
  BY DEF Receive, Ordered, WatcherTypeOK
<1>2. Head(events) \in {"upsert", "delete"} \X Paths
      /\ Tail(events) \in Seq({"upsert", "delete"} \X Paths)
  BY <1>1
<1>3. WatcherTypeOK'
  BY <1>2 DEF Receive, Ordered, WatcherTypeOK, serverVars
<1> QED
  BY <1>3, QuietOrdered DEF Receive, serverVars

(* The timers start a pass of the drift task. *)
LEMMA StartOrdered ==
  ASSUME Ordered, StartWatching \/ StartDrift
  PROVE  Ordered'
<1>1. CASE StartWatching
  <2>1. WatcherTypeOK'
    BY <1>1 DEF StartWatching, Ordered, WatcherTypeOK, serverVars
  <2> QED
    BY <1>1, <2>1, QuietOrdered DEF StartWatching, serverVars
<1>2. CASE StartDrift
  <2>1. task' \in [Tasks -> Task] /\ task'["flush"] = task["flush"]
    BY <1>2, IdleTyped, BecomeTyped DEF StartDrift, Ordered, Tasks
  <2>2. WatcherTypeOK'
    BY <1>2, <2>1 DEF StartDrift, Ordered, WatcherTypeOK, serverVars, watchVars
  <2> QED
    BY <1>2, <2>1, <2>2, DriftOrdered DEF StartDrift, serverVars, At
<1> QED
  BY <1>1, <1>2

(* The retry worker takes no claim. *)
LEMMA RetryOrdered ==
  ASSUME Ordered, NEW p \in Paths, NEW new \in {"published", "failed"}, Retry(p, new)
  PROVE  Ordered'
<1>1. WatcherTypeOK'
  BY DEF Retry, Ordered, WatcherTypeOK, watchVars
<1> QED
  BY <1>1, QuietOrdered DEF Retry

(* A restart drops all tasks and claims. *)
LEMMA RestartOrdered ==
  ASSUME Ordered, Restart
  PROVE  Ordered'
<1>1. task' \in [Tasks -> Task] /\ task'["flush"] = Idle
  BY IdleTyped DEF Restart, Tasks
<1>2. WatcherTypeOK'
  <2>1. changes' \in 0 .. MaxChanges
    BY WatcherAssumption DEF Restart, Ordered, WatcherTypeOK
  <2>2. /\ disk' \in [Paths -> Contents \cup {Absent}]
        /\ version' \in [Paths -> Contents \cup {Absent}]
        /\ stage' \in [Paths -> {"absent", "pending", "published", "failed", "deleted"}]
    BY DEF Restart, Ordered, WatcherTypeOK
  <2>3. buf' \in [Paths -> {"none", "upsert", "delete"}]
        /\ claim' \in [Paths -> Tasks \cup {Nobody}]
    BY DEF Restart
  <2>4. events' \in Seq({"upsert", "delete"} \X Paths) /\ watching' \in BOOLEAN
        /\ excused' \subseteq Paths
    <3>1. <<>> \in Seq({"upsert", "delete"} \X Paths)
      BY EmptySeq
    <3> QED
      BY <3>1 DEF Restart
  <2> QED
    BY <1>1, <2>1, <2>2, <2>3, <2>4 DEF WatcherTypeOK
<1>3. FlushOrder'
  BY <1>1 DEF FlushOrder, Flush, Idle
<1>4. ClaimsPlaced'
  BY WatcherAssumption DEF Restart, ClaimsPlaced
<1> QED
  BY <1>2, <1>3, <1>4 DEF Ordered

(* The drift task hashes, *)
LEMMA HashOrdered ==
  ASSUME Ordered, NEW p \in Paths, HashFile(p)
  PROVE  Ordered'
<1>1. task' \in [Tasks -> Task] /\ task'["flush"] = task["flush"]
  BY ReadTyped DEF HashFile, Ordered, Tasks
<1>2. WatcherTypeOK'
  BY <1>1 DEF HashFile, Ordered, WatcherTypeOK, serverVars, watchVars
<1> QED
  BY <1>1, <1>2, DriftOrdered DEF HashFile, serverVars, At

(* and asks for what has drifted. *)
LEMMA QueryOrdered ==
  ASSUME Ordered, Query
  PROVE  Ordered'
<1> DEFINE local == task["drift"].text
           new == [Idle EXCEPT !.pc = "read",
                     !.todo = Stale(local) \cup Missing(local), !.del = Orphaned(local)]
<1>1. new \in Task
  BY IdleTyped DEF Task, Idle, Nothing, Stale, Missing, Orphaned, Published
<1>2. Become("drift", new) \/ Become("drift", Idle)
  BY DEF Query
<1> HIDE DEF new
<1>3. task' \in [Tasks -> Task] /\ task'["flush"] = task["flush"]
  BY <1>1, <1>2, IdleTyped, BecomeTyped DEF Ordered, Tasks
<1>4. WatcherTypeOK'
  BY <1>3 DEF Query, Ordered, WatcherTypeOK, serverVars, watchVars
<1> QED
  BY <1>3, <1>4, DriftOrdered DEF Query, serverVars, At

(* A task reads its batch, *)
LEMMA ReadOrdered ==
  ASSUME Ordered, NEW t \in Tasks, NEW p \in Paths, Read(t, p)
  PROVE  Ordered'
<1>1. /\ task' \in [Tasks -> Task]
      /\ \A u \in Tasks : u # t => task'[u] = task[u]
      /\ task'[t].pc = "read" /\ task'[t].del = task[t].del
      /\ task'[t].todo = task[t].todo \ {p}
  BY ReadTyped DEF Read, Ordered, At
<1>2. WatcherTypeOK'
  BY <1>1 DEF Read, Ordered, WatcherTypeOK, serverVars, watchVars
<1>3. CASE t = "drift"
  BY <1>1, <1>2, <1>3, DriftOrdered DEF Read, serverVars, At, Tasks
<1>4. CASE t = "flush"
  <2>1. FlushOrder'
    BY <1>1, <1>4 DEF FlushOrder, Flush
  <2>2. ClaimsPlaced'
    BY <1>1, <1>4 DEF ClaimsPlaced, Ordered, At, Read, serverVars, Tasks
  <2> QED
    BY <1>2, <2>1, <2>2 DEF Ordered
<1> QED
  BY <1>3, <1>4 DEF Tasks

(* sends it, *)
LEMMA SendOrdered ==
  ASSUME Ordered, NEW t \in Tasks, Send(t)
  PROVE  Ordered'
<1>1. /\ task' \in [Tasks -> Task]
      /\ \A u \in Tasks : u # t => task'[u] = task[u]
      /\ task'[t].pc = IF ToPush(t) # {} THEN "index" ELSE "delete"
      /\ task'[t].todo = ToPush(t) /\ task'[t].del = task[t].del
      /\ task'[t].text = task[t].text
  BY SendTyped DEF Ordered
<1>2. WatcherTypeOK'
  BY <1>1 DEF Send, Ordered, WatcherTypeOK, serverVars, watchVars
<1>3. At(t, "read") /\ UNCHANGED claim
  BY DEF Send, serverVars
<1>4. CASE t = "drift"
  <2>1. UNCHANGED <<claim, task["flush"]>> /\ ~At("drift", "index")
    BY <1>1, <1>3, <1>4 DEF At, Tasks
  <2> QED
    BY <1>2, <2>1, DriftOrdered
<1>5. CASE t = "flush"
  <2>1. FlushOrder'
    <3>1. task["flush"].text \in [Paths -> Contents \cup {Absent}]
      BY DEF Ordered, WatcherTypeOK, Tasks, Task
    <3>2. ToPush("flush") = {} => task["flush"].text = Nothing
      BY <3>1 DEF ToPush, Nothing
    <3>3. \A p \in ToPush("flush") : task["flush"].text[p] # Absent
      BY DEF ToPush
    <3> QED
      BY <1>1, <1>5, <3>2, <3>3 DEF FlushOrder, Flush
  <2>2. ClaimsPlaced'
    BY <1>1, <1>3, <1>5 DEF ClaimsPlaced, Ordered, At, Tasks
  <2> QED
    BY <1>2, <2>1, <2>2 DEF Ordered
<1> QED
  BY <1>4, <1>5 DEF Tasks

(* and the server takes it, a claim for each path. *)
LEMMA TakeOrdered ==
  ASSUME Ordered, NEW t \in Tasks, NEW p \in Paths, Take(t, p)
  PROVE  Ordered'
<1>1. /\ WatcherTypeOK'
      /\ \A u \in Tasks : u # t => task'[u] = task[u]
      /\ task'[t] = [task[t] EXCEPT !.todo = @ \ {p}]
  BY TakeTyped DEF Ordered
<1>2. /\ task'[t].pc = "index" /\ task'[t].todo = task[t].todo \ {p}
      /\ task'[t].text = task[t].text /\ task'[t].del = task[t].del
      /\ task[t].pc = "index"
  BY <1>1 DEF Take, At, Ordered, WatcherTypeOK, Task
<1>3. FlushOrder'
  BY <1>1, <1>2 DEF Ordered, FlushOrder, Flush, Tasks
<1>4. claim' = claim \/ claim' = [claim EXCEPT ![p] = t]
  BY DEF Take, serverVars
<1>5. \A q \in Paths : claim'[q] = claim[q] \/ (q = p /\ claim'[q] = t)
  BY <1>4 DEF Ordered, WatcherTypeOK
<1>6. ClaimsPlaced'
  <2> SUFFICES ASSUME NEW q \in Paths
               PROVE  /\ claim'[q] = "drift" => At("drift", "index")'
                      /\ claim'[q] = "flush" => /\ At("flush", "index")'
                                                /\ q \notin task'["flush"].todo
                                                /\ task'["flush"].text[q] # Absent
    BY DEF ClaimsPlaced, Flush
  <2>1. \A u \in Tasks : At(u, "index") => At(u, "index")'
    BY <1>1, <1>2 DEF At
  <2>2. /\ task'["flush"].text = task["flush"].text
        /\ task'["flush"].todo \subseteq task["flush"].todo
    BY <1>1, <1>2 DEF Tasks
  <2>3. CASE claim'[q] = claim[q]
    BY <2>1, <2>2, <2>3 DEF Ordered, ClaimsPlaced, Flush, Tasks
  <2>4. CASE q = p /\ claim'[q] = t
    <3>1. t = "flush" => task["flush"].text[p] # Absent
      BY <1>2 DEF Take, Ordered, FlushOrder, Flush
    <3> QED
      BY <1>2, <2>1, <2>2, <2>4, <3>1 DEF At, Tasks
  <2> QED
    BY <1>5, <2>3, <2>4
<1> QED
  BY <1>1, <1>3, <1>6 DEF Ordered

(* The job of a request ends, one way or the other. *)
LEMMA EndOrdered ==
  ASSUME Ordered, NEW t \in Tasks, NEW new \in {"published", "failed"}, End(t, new),
         changes' \in 0 .. MaxChanges, excused' \subseteq Paths
  PROVE  Ordered'
<1>1. /\ task' \in [Tasks -> Task]
      /\ \A u \in Tasks : u # t => task'[u] = task[u]
      /\ task'[t].pc = "delete" /\ task'[t].todo = {} /\ task'[t].text = Nothing
      /\ stage' \in [Paths -> {"absent", "pending", "published", "failed", "deleted"}]
      /\ claim' \in [Paths -> Tasks \cup {Nobody}]
      /\ UNCHANGED <<disk, events, buf, watching, version>>
  BY EndTyped DEF Ordered
<1>2. WatcherTypeOK'
  BY <1>1 DEF Ordered, WatcherTypeOK
<1>3. FlushOrder'
  BY <1>1 DEF Ordered, FlushOrder, Flush, Tasks, Nothing
<1>4. \A q \in Paths : claim'[q] # t /\ (claim'[q] = Nobody \/ claim'[q] = claim[q])
  BY WatcherAssumption DEF End, Held, Tasks
<1>5. ClaimsPlaced'
  <2> SUFFICES ASSUME NEW q \in Paths
               PROVE  /\ claim'[q] = "drift" => At("drift", "index")'
                      /\ claim'[q] = "flush" => /\ At("flush", "index")'
                                                /\ q \notin task'["flush"].todo
                                                /\ task'["flush"].text[q] # Absent
    BY DEF ClaimsPlaced, Flush
  <2>1. CASE claim'[q] = "drift"
    <3>1. t # "drift" /\ claim[q] = "drift"
      BY <1>4, <2>1, WatcherAssumption
    <3> QED
      BY <1>1, <2>1, <3>1 DEF Ordered, ClaimsPlaced, At, Tasks
  <2>2. CASE claim'[q] = "flush"
    <3>1. t # "flush" /\ claim[q] = "flush"
      BY <1>4, <2>2, WatcherAssumption
    <3> QED
      BY <1>1, <2>2, <3>1 DEF Ordered, ClaimsPlaced, At, Flush, Tasks
  <2> QED
    BY <2>1, <2>2
<1> QED
  BY <1>2, <1>3, <1>5 DEF Ordered

(* A task is done with its batch, or gives it up, with no request out. *)
LEMMA DoneOrdered ==
  ASSUME Ordered, NEW t \in Tasks, Become(t, Idle), ~At(t, "index"),
         UNCHANGED <<disk, watchVars, version, claim>>,
         stage' \in [Paths -> {"absent", "pending", "published", "failed", "deleted"}],
         changes' \in 0 .. MaxChanges, excused' \subseteq Paths
  PROVE  Ordered'
<1>1. /\ task' \in [Tasks -> Task] /\ task'[t] = Idle
      /\ \A u \in Tasks : u # t => task'[u] = task[u]
  BY IdleTyped, BecomeTyped DEF Ordered
<1>2. WatcherTypeOK'
  BY <1>1 DEF Ordered, WatcherTypeOK, watchVars
<1>3. FlushOrder'
  BY <1>1 DEF Ordered, FlushOrder, Flush, Tasks, Idle, Nothing
<1>4. ClaimsPlaced'
  BY <1>1 DEF Ordered, ClaimsPlaced, Flush, At, Tasks, Idle
<1> QED
  BY <1>2, <1>3, <1>4 DEF Ordered

(* The ways a push or a pass ends. *)
LEMMA FinishOrdered ==
  ASSUME Ordered, NEW t \in Tasks, Answered(t) \/ PushFails(t) \/ Delete(t) \/ CallFails(t)
  PROVE  Ordered'
<1>1. changes \in 0 .. MaxChanges /\ excused \subseteq Paths /\ task[t] \in Task
  BY DEF Ordered, WatcherTypeOK
<1>2. CASE Answered(t)
  BY <1>1, <1>2, EndOrdered DEF Answered
<1>3. CASE PushFails(t)
  <2>1. changes' \in 0 .. MaxChanges /\ End(t, "failed")
    BY <1>1, <1>3, WatcherAssumption DEF PushFails
  <2>2. excused' \subseteq Paths
    BY <1>1, <1>3 DEF PushFails, Held, Task
  <2> QED
    BY <2>1, <2>2, EndOrdered
<1>4. CASE Delete(t)
  <2>1. ~At(t, "index") /\ UNCHANGED changes
    BY <1>4 DEF Delete, At
  <2>2. excused' \subseteq Paths
    BY <1>1, <1>4 DEF Delete, Task
  <2>3. stage' \in [Paths -> {"absent", "pending", "published", "failed", "deleted"}]
    BY <1>4 DEF Delete, Ordered, WatcherTypeOK
  <2> QED
    BY <1>1, <1>4, <2>1, <2>2, <2>3, DoneOrdered DEF Delete
<1>5. CASE CallFails(t)
  <2>1. ~At(t, "index")
    BY <1>5 DEF CallFails, At
  <2>2. changes' \in 0 .. MaxChanges
    BY <1>1, <1>5, WatcherAssumption DEF CallFails
  <2>3. excused' \subseteq Paths
    BY <1>1, <1>5 DEF CallFails, Task
  <2>4. stage' \in [Paths -> {"absent", "pending", "published", "failed", "deleted"}]
    BY <1>5 DEF CallFails, Ordered, WatcherTypeOK, serverVars
  <2> QED
    BY <1>5, <2>1, <2>2, <2>3, <2>4, DoneOrdered DEF CallFails, serverVars
<1> QED
  BY <1>2, <1>3, <1>4, <1>5

(* What the deadline makes of the buffer. *)
LEMMA StartFlushTyped ==
  ASSUME Ordered, StartFlush
  PROVE  /\ task' \in [Tasks -> Task] /\ task'["drift"] = task["drift"]
         /\ task'["flush"] = [Idle EXCEPT !.pc = "read",
                                !.todo = {p \in Paths : buf[p] = "upsert"},
                                !.del = {p \in Paths : buf[p] = "delete"}]
<1> DEFINE new == [Idle EXCEPT !.pc = "read",
                     !.todo = {p \in Paths : buf[p] = "upsert"},
                     !.del = {p \in Paths : buf[p] = "delete"}]
<1>1. new \in Task
  BY DEF Task, Idle, Nothing
<1>2. Become("flush", new)
  BY DEF StartFlush
<1> HIDE DEF new
<1>3. task' \in [Tasks -> Task] /\ task'["flush"] = new /\ task'["drift"] = task["drift"]
  BY <1>1, <1>2, BecomeTyped DEF Ordered, Tasks
<1> QED
  BY <1>3 DEF new

(* The deadline starts a pass of the debounce task. *)
LEMMA StartFlushOrdered ==
  ASSUME Ordered, StartFlush
  PROVE  Ordered'
<1>1. WatcherTypeOK'
  BY StartFlushTyped DEF StartFlush, Ordered, WatcherTypeOK, serverVars
<1>2. task'["flush"].pc = "read" /\ task'["drift"] = task["drift"]
  BY StartFlushTyped DEF Idle
<1>3. FlushOrder'
  BY <1>2 DEF FlushOrder, Flush
<1>4. ClaimsPlaced'
  BY <1>2 DEF StartFlush, Ordered, ClaimsPlaced, At, serverVars, Flush
<1> QED
  BY <1>1, <1>3, <1>4 DEF Ordered

(* Every step keeps the order of the tasks. *)
LEMMA StepOrdered ==
  ASSUME Ordered, WatcherNext
  PROVE  Ordered'
<1>1. CASE WatcherStep
  BY <1>1, StartOrdered, ReceiveOrdered, StartFlushOrdered, QueryOrdered, HashOrdered,
     ReadOrdered, TakeOrdered, SendOrdered, FinishOrdered DEF WatcherStep, TaskStep
<1>2. CASE WorkerStep
  BY <1>2, RetryOrdered DEF WorkerStep
<1>3. CASE Disturbance
  BY <1>3, EditOrdered, FinishOrdered, RestartOrdered DEF Disturbance
<1> QED
  BY <1>1, <1>2, <1>3 DEF WatcherNext

(* The inductive invariant. *)
WatcherInv == Ordered /\ \A p \in Paths \ excused : InHand(p)

(* A path of which a step changes nothing stays in hand. *)
LEMMA PathKept ==
  ASSUME NEW p \in Paths, InHand(p), task'["flush"] = task["flush"], UNCHANGED events,
         UNCHANGED <<disk[p], buf[p], stage[p], version[p], claim[p]>>
  PROVE  InHand(p)'
<1>1. Verb(p)' = Verb(p) /\ Heard(p)' = Heard(p) /\ InSync(p)' = InSync(p)
      /\ Underway(p)' = Underway(p) /\ Flush' = Flush /\ Tracked(p)' = Tracked(p)
  BY DEF Verb, Heard, InSync, Underway, Flush, Tracked
<1>2. LastWord(p)' /\ Handled(p)'
  BY <1>1 DEF InHand, LastWord, Handled
<1>3. Pushed(p)' /\ Undisturbed(p)' /\ InOrder(p)'
  BY <1>1 DEF InHand, Pushed, Undisturbed, InOrder, At, Flush
<1> QED
  BY <1>2, <1>3 DEF InHand

(* A settled path needs no excuse, unless the drift task has a push out. *)
LEMMA SettledIsInHand ==
  (Ordered /\ ~At("drift", "index")) => \A p \in Paths : Settled(p) => InHand(p)
<1> SUFFICES ASSUME Ordered, ~At("drift", "index"), NEW p \in Paths, Settled(p)
             PROVE  InHand(p)
  OBVIOUS
<1>1. events \in Seq({"upsert", "delete"} \X Paths)
  BY DEF Ordered, WatcherTypeOK
<1>2. /\ \A i \in 1 .. Len(events) : events[i][2] # p
      /\ buf[p] = "none" /\ p \notin Flush.todo /\ p \notin Flush.del
      /\ Flush.text[p] = Absent
      /\ InSync(p) /\ stage[p] \notin {"pending", "failed"}
  BY <1>1 DEF Settled, Underway, Flush
<1>3. claim[p] # "drift"
  BY DEF Ordered, ClaimsPlaced
<1> QED
  BY <1>2, <1>3 DEF InHand, LastWord, Handled, Pushed, Undisturbed, InOrder, Heard

(* The steps that leave every path in hand as it is. *)
LEMMA NothingMoves ==
  ASSUME WatcherInv, Ordered', excused \subseteq excused',
         task'["flush"] = task["flush"], UNCHANGED <<disk, events, buf, serverVars>>
  PROVE  WatcherInv'
<1> SUFFICES ASSUME NEW p \in Paths \ excused' PROVE InHand(p)'
  BY DEF WatcherInv
<1> QED
  BY PathKept DEF WatcherInv, serverVars

(* An edit is heard, or it is excused. *)
LEMMA EditInHand ==
  ASSUME WatcherInv, NEW p \in Paths, NEW c \in Contents \cup {Absent}, Edit(p, c)
  PROVE  WatcherInv'
<1> DEFINE e == <<IF c = Absent THEN "delete" ELSE "upsert", p>>
<1>1. Ordered'
  BY EditOrdered DEF WatcherInv
<1> SUFFICES ASSUME NEW q \in Paths \ excused' PROVE InHand(q)'
  BY <1>1 DEF WatcherInv
<1>2. UNCHANGED <<buf, watching, task, stage, version, claim>>
      /\ disk' = [disk EXCEPT ![p] = c] /\ excused \subseteq excused'
  BY DEF Edit, serverVars
<1>3. InHand(q) /\ disk \in [Paths -> Contents \cup {Absent}]
      /\ events \in Seq({"upsert", "delete"} \X Paths)
  BY <1>2 DEF WatcherInv, Ordered, WatcherTypeOK
<1>4. CASE UNCHANGED events /\ q # p
  BY <1>2, <1>3, <1>4, PathKept
<1>5. CASE UNCHANGED events /\ q = p
  <2>1. events' = Append(events, e)
    BY <1>5 DEF Edit
  <2>2. Len(events') = Len(events) + 1 /\ Len(events) \in Nat
    BY <1>3, <2>1
  <2> QED
    BY <1>5, <2>2
<1>6. CASE events' = Append(events, e)
  <2>1. /\ Len(events') = Len(events) + 1 /\ Len(events) \in Nat
        /\ \A i \in 1 .. Len(events) : events'[i] = events[i]
        /\ events'[Len(events) + 1] = e
    BY <1>3, <1>6
  <2>2. e[2] = p /\ e[1] = IF c = Absent THEN "delete" ELSE "upsert"
    OBVIOUS
  <2> HIDE DEF e
  <2>3. CASE q # p
    <3>1. disk'[q] = disk[q] /\ Verb(q)' = Verb(q)
      BY <1>2, <1>3, <2>3 DEF Verb
    <3>2. Heard(q)' = Heard(q)
      BY <2>1, <2>2, <2>3 DEF Heard
    <3>3. LastWord(q)'
      <4>1. \A i \in 1 .. Len(events') :
              events'[i][2] = q /\ (\A j \in i + 1 .. Len(events') : events'[j][2] # q)
                => events'[i][1] = Verb(q)'
        <5> SUFFICES ASSUME NEW i \in 1 .. Len(events'), events'[i][2] = q,
                            \A j \in i + 1 .. Len(events') : events'[j][2] # q
                     PROVE  events'[i][1] = Verb(q)
          BY <3>1
        <5>1. i \in 1 .. Len(events) /\ events[i] = events'[i]
          BY <2>1, <2>2, <2>3
        <5>2. \A j \in i + 1 .. Len(events) : events[j][2] # q
          BY <2>1
        <5> QED
          BY <1>3, <5>1, <5>2 DEF InHand, LastWord
      <4> QED
        BY <1>2, <1>3, <3>1, <3>2, <4>1 DEF InHand, LastWord
    <3>4. Handled(q)' /\ Pushed(q)' /\ Undisturbed(q)'
      BY <1>2, <1>3, <3>1, <3>2
      DEF InHand, Handled, Pushed, Undisturbed, Flush, At
    <3>5. InSync(q)' = InSync(q)
      BY <1>2, <3>1 DEF InSync, Tracked
    <3>6. Underway(q) => Underway(q)'
      BY <1>2, <1>3, <2>1 DEF Underway
    <3>7. InOrder(q)'
      BY <1>3, <3>1, <3>5, <3>6 DEF InHand, InOrder
    <3> QED
      BY <3>3, <3>4, <3>7 DEF InHand
  <2>4. CASE q = p
    <3>1. disk'[p] = c
      BY <1>2, <1>3
    <3>2. Heard(p)' /\ Underway(p)'
      <4>1. Len(events') \in 1 .. Len(events') /\ events'[Len(events')][2] = p
        BY <1>1, <2>1, <2>2 DEF Ordered, WatcherTypeOK
      <4>2. Len(events') \in DOMAIN events'
        BY <1>1, <4>1, LenProperties DEF Ordered, WatcherTypeOK
      <4> QED BY <4>1, <4>2 DEF Heard, Underway
    <3>3. LastWord(p)'
      BY <2>1, <2>2, <3>1, <3>2 DEF LastWord, Verb
    <3>4. Handled(p)' /\ Pushed(p)' /\ Undisturbed(p)'
      BY <1>2, <1>3, <2>4, <3>2
      DEF InHand, Handled, Pushed, Undisturbed, Flush, At
    <3> QED
      BY <2>4, <3>2, <3>3, <3>4 DEF InHand, InOrder
  <2> QED
    BY <2>3, <2>4
<1> QED
  BY <1>4, <1>5, <1>6 DEF Edit

(* What is received goes to the buffer, in the order of the edits. *)
LEMMA ReceiveInHand ==
  ASSUME WatcherInv, Receive
  PROVE  WatcherInv'
<1>1. Ordered'
  BY ReceiveOrdered DEF WatcherInv
<1> SUFFICES ASSUME NEW q \in Paths \ excused' PROVE InHand(q)'
  BY <1>1 DEF WatcherInv
<1>2. UNCHANGED <<disk, watching, task, stage, version, claim, excused>>
  BY DEF Receive, serverVars
<1>3. InHand(q) /\ buf \in [Paths -> {"none", "upsert", "delete"}]
      /\ events \in Seq({"upsert", "delete"} \X Paths) /\ events # <<>>
  BY <1>2 DEF WatcherInv, Ordered, WatcherTypeOK, Receive
<1>4. PICK e \in {"upsert", "delete"} \X Paths : e = events[1] /\ e = Head(events)
  BY <1>3
<1>5. /\ Len(events) \in Nat \ {0} /\ Len(events') = Len(events) - 1
      /\ \A i \in 1 .. Len(events') : events'[i] = events[i + 1]
  BY <1>3 DEF Receive
<1>6. buf' = [buf EXCEPT ![e[2]] = e[1]]
  BY <1>4 DEF Receive
<1>7. Verb(q)' = Verb(q) /\ InSync(q)' = InSync(q)
  BY <1>2 DEF Verb, InSync, Tracked
<1>8. \A i \in 1 .. Len(events') :
        events'[i][2] = q /\ (\A j \in i + 1 .. Len(events') : events'[j][2] # q)
          => events'[i][1] = Verb(q)'
  <2> SUFFICES ASSUME NEW i \in 1 .. Len(events'), events'[i][2] = q,
                      \A j \in i + 1 .. Len(events') : events'[j][2] # q
               PROVE  events'[i][1] = Verb(q)
    BY <1>7
  <2>1. i + 1 \in 1 .. Len(events) /\ events[i + 1][2] = q
    BY <1>5
  <2>2. ASSUME NEW j \in i + 2 .. Len(events) PROVE events[j][2] # q
    <3>1. j - 1 \in i + 1 .. Len(events') /\ events'[j - 1] = events[(j - 1) + 1]
      BY <1>5
    <3> QED
      BY <3>1
  <2> QED
    BY <1>3, <1>5, <2>1, <2>2 DEF InHand, LastWord
<1>9. CASE q # e[2]
  <2>1. buf'[q] = buf[q]
    BY <1>3, <1>6, <1>9
  <2>2. Heard(q) => Heard(q)'
    <3> SUFFICES ASSUME NEW i \in 1 .. Len(events), events[i][2] = q
                 PROVE  Heard(q)'
      BY DEF Heard
    <3>1. i # 1
      BY <1>4, <1>9
    <3>2. i - 1 \in 1 .. Len(events') /\ events'[i - 1] = events[(i - 1) + 1]
      BY <1>5, <3>1
    <3> QED
      BY <3>2 DEF Heard
  <2>3. LastWord(q)' /\ Handled(q)'
    BY <1>2, <1>3, <1>7, <1>8, <2>1, <2>2 DEF InHand, LastWord, Handled, Flush
  <2>4. Pushed(q)' /\ Undisturbed(q)'
    BY <1>2, <1>3 DEF InHand, Pushed, Undisturbed, Flush, At
  <2>5. Underway(q) => Underway(q)'
    <3>1. (\E i \in DOMAIN events : events[i][2] = q)
            => \E i \in DOMAIN events' : events'[i][2] = q
      <4>1. DOMAIN events = 1 .. Len(events)
        BY <1>3
      <4>2. events' \in Seq({"upsert", "delete"} \X Paths)
        BY <1>1 DEF Ordered, WatcherTypeOK
      <4>3. DOMAIN events' = 1 .. Len(events')
        BY <4>2
      <4> QED
        BY <2>2, <4>1, <4>3 DEF Heard
    <3> QED
      BY <1>2, <2>1, <3>1 DEF Underway
  <2> QED
    BY <1>2, <1>3, <1>7, <2>3, <2>4, <2>5 DEF InHand, InOrder
<1>10. CASE q = e[2]
  <2>1. buf'[q] = e[1] /\ e[1] # "none"
    BY <1>3, <1>4, <1>6, <1>10
  <2>2. ~Heard(q)' => e[1] = Verb(q)
    <3> SUFFICES ASSUME ~Heard(q)' PROVE e[1] = Verb(q)
      OBVIOUS
    <3>1. ASSUME NEW j \in 2 .. Len(events) PROVE events[j][2] # q
      <4>1. j - 1 \in 1 .. Len(events') /\ events'[j - 1] = events[(j - 1) + 1]
        BY <1>5
      <4> QED
        BY <4>1 DEF Heard
    <3> QED
      BY <1>3, <1>4, <1>5, <1>10, <3>1 DEF InHand, LastWord
  <2>3. LastWord(q)' /\ Handled(q)'
    BY <1>7, <1>8, <2>1, <2>2 DEF LastWord, Handled
  <2>4. Pushed(q)' /\ Undisturbed(q)'
    BY <1>2, <1>3 DEF InHand, Pushed, Undisturbed, Flush, At
  <2> QED
    BY <2>1, <2>3, <2>4 DEF InHand, InOrder, Underway
<1> QED
  BY <1>9, <1>10

(* The deadline moves the buffer into the batch. *)
LEMMA StartFlushInHand ==
  ASSUME WatcherInv, StartFlush
  PROVE  WatcherInv'
<1>1. Ordered'
  BY StartFlushOrdered DEF WatcherInv
<1> SUFFICES ASSUME NEW q \in Paths \ excused' PROVE InHand(q)'
  BY <1>1 DEF WatcherInv
<1>2. UNCHANGED <<disk, events, stage, version, claim, excused>>
      /\ events = <<>> /\ task["flush"].pc = "idle" /\ buf' = [p \in Paths |-> "none"]
  BY DEF StartFlush, serverVars, At
<1>3. InHand(q) /\ buf \in [Paths -> {"none", "upsert", "delete"}]
  BY <1>2 DEF WatcherInv, Ordered, WatcherTypeOK
<1>4. /\ task'["flush"].pc = "read" /\ task'["flush"].text = Nothing
      /\ task'["flush"].todo = {p \in Paths : buf[p] = "upsert"}
      /\ task'["flush"].del = {p \in Paths : buf[p] = "delete"}
  BY StartFlushTyped DEF Idle, WatcherInv
<1>5. ~Heard(q) /\ Len(events') = 0 /\ buf'[q] = "none"
  BY <1>2 DEF Heard
<1>6. buf[q] \in {"none", Verb(q)} /\ Verb(q)' = Verb(q)
  BY <1>2, <1>3, <1>5 DEF InHand, LastWord, Verb
<1>7. LastWord(q)'
  BY <1>5 DEF LastWord
<1>8. Handled(q)'
  BY <1>2, <1>4, <1>6 DEF Handled, Flush, Verb, Nothing
<1>9. Pushed(q)' /\ Undisturbed(q)'
  BY <1>2, <1>3, <1>4 DEF InHand, Pushed, Undisturbed, At
<1>10. InOrder(q)'
  <2>1. task["flush"].todo = {} /\ task["flush"].del = {} /\ task["flush"].text[q] = Absent
    BY <1>2 DEF WatcherInv, Ordered, FlushOrder, Flush, Nothing
  <2>2. ~(\E i \in DOMAIN events : events[i][2] = q)
    BY <1>2
  <2>3. Underway(q) => buf[q] # "none"
    BY <2>1, <2>2 DEF Underway
  <2>4. buf[q] # "none" => Underway(q)'
    BY <1>3, <1>4 DEF Underway
  <2>5. InSync(q)' = InSync(q)
    BY <1>2 DEF InSync, Tracked
  <2> QED
    BY <1>2, <1>3, <2>3, <2>4, <2>5 DEF InHand, InOrder
<1> QED
  BY <1>7, <1>8, <1>9, <1>10 DEF InHand

(* A file of the batch is read: what is pushed is what the tree holds. *)
LEMMA ReadInHand ==
  ASSUME WatcherInv, NEW p \in Paths, Read("flush", p)
  PROVE  WatcherInv'
<1>1. Ordered'
  BY ReadOrdered DEF WatcherInv, Tasks
<1> SUFFICES ASSUME NEW q \in Paths \ excused' PROVE InHand(q)'
  BY <1>1 DEF WatcherInv
<1>2. UNCHANGED <<disk, events, buf, stage, version, claim, excused>>
      /\ task["flush"].pc = "read" /\ p \in task["flush"].todo
  BY DEF Read, watchVars, serverVars, At
<1>3. InHand(q)
  BY <1>2 DEF WatcherInv
<1>4. /\ task'["flush"].pc = "read" /\ task'["flush"].del = task["flush"].del
      /\ task'["flush"].todo = task["flush"].todo \ {p}
      /\ task'["flush"].text[p] = Tracked(p)
      /\ \A r \in Paths \ {p} : task'["flush"].text[r] = task["flush"].text[r]
  BY <1>2, ReadTyped DEF Read, WatcherInv, Ordered, Tasks
<1>5. Verb(q)' = Verb(q) /\ Heard(q)' = Heard(q) /\ InSync(q)' = InSync(q)
  BY <1>2 DEF Verb, Heard, InSync, Tracked
<1>6. LastWord(q)'
  BY <1>2, <1>3, <1>5 DEF InHand, LastWord
<1>7. Handled(q)'
  BY <1>2, <1>3, <1>4, <1>5 DEF InHand, Handled, Flush, Tracked
<1>8. Pushed(q)' /\ Undisturbed(q)'
  BY <1>2, <1>3, <1>4 DEF InHand, Pushed, Undisturbed, At
<1>9. InOrder(q)'
  <2>1. CASE q # p
    <3>1. Underway(q)' = Underway(q)
      BY <1>2, <1>4, <2>1 DEF Underway
    <3> QED
      BY <1>2, <1>3, <1>5, <3>1 DEF InHand, InOrder
  <2>2. CASE q = p /\ Tracked(p) # Absent
    BY <1>4, <2>2 DEF InOrder, Underway
  <2>3. CASE q = p /\ Tracked(p) = Absent /\ disk[p] \notin Oversized
    <3>1. disk[p] = Absent
      BY <2>3 DEF Tracked
    <3>2. Heard(p) \/ buf[p] # "none"
      BY <1>2, <1>3, <2>3, <3>1 DEF InHand, Handled, Flush
    <3>3. events \in Seq({"upsert", "delete"} \X Paths)
      BY DEF WatcherInv, Ordered, WatcherTypeOK
    <3>4. Underway(p)'
      BY <1>2, <3>2, <3>3 DEF Underway, Heard
    <3> QED
      BY <2>3, <3>4 DEF InOrder
  <2>4. CASE q = p /\ disk[p] \in Oversized
    BY <1>2, <2>4 DEF InOrder
  <2> QED
    BY <2>1, <2>2, <2>3, <2>4
<1> QED
  BY <1>6, <1>7, <1>8, <1>9 DEF InHand

(* The batch goes out. *)
LEMMA SendInHand ==
  ASSUME WatcherInv, Send("flush")
  PROVE  WatcherInv'
<1>1. Ordered'
  BY SendOrdered DEF WatcherInv, Tasks
<1> SUFFICES ASSUME NEW q \in Paths \ excused' PROVE InHand(q)'
  BY <1>1 DEF WatcherInv
<1>2. UNCHANGED <<disk, events, buf, stage, version, claim, excused>>
      /\ task["flush"].todo = {}
  BY DEF Send, watchVars, serverVars
<1>3. InHand(q)
  BY <1>2 DEF WatcherInv
<1>4. /\ task'["flush"].todo = ToPush("flush") /\ task'["flush"].del = task["flush"].del
      /\ task'["flush"].text = task["flush"].text
  BY SendTyped DEF WatcherInv, Ordered, Tasks
<1>5. q \in ToPush("flush") <=> task["flush"].text[q] # Absent
  BY DEF ToPush
<1>6. Verb(q)' = Verb(q) /\ Heard(q)' = Heard(q) /\ InSync(q)' = InSync(q)
  BY <1>2 DEF Verb, Heard, InSync, Tracked
<1>7. LastWord(q)'
  BY <1>2, <1>3, <1>6 DEF InHand, LastWord
<1>8. Handled(q)'
  BY <1>2, <1>3, <1>4, <1>5, <1>6 DEF InHand, Handled, Flush
<1>9. Pushed(q)' /\ Undisturbed(q)'
  BY <1>2, <1>3, <1>4, <1>5 DEF InHand, Pushed, Undisturbed, Flush
<1>10. Underway(q) => Underway(q)'
  BY <1>2, <1>4 DEF Underway
<1> QED
  BY <1>2, <1>3, <1>6, <1>7, <1>8, <1>9, <1>10 DEF InHand, InOrder

(* The server takes a path of the batch, unless it holds the text already. *)
LEMMA TakeInHand ==
  ASSUME WatcherInv, NEW p \in Paths, Take("flush", p)
  PROVE  WatcherInv'
<1>1. Ordered'
  BY TakeOrdered DEF WatcherInv, Tasks
<1> SUFFICES ASSUME NEW q \in Paths \ excused' PROVE InHand(q)'
  BY <1>1 DEF WatcherInv
<1>2. UNCHANGED <<disk, events, buf, excused>>
      /\ task["flush"].pc = "index" /\ p \in task["flush"].todo
  BY DEF Take, Touch, watchVars, At
<1>3. InHand(q) /\ Ordered
  BY <1>2 DEF WatcherInv
<1>4. /\ task'["flush"].pc = "index" /\ task'["flush"].del = task["flush"].del
      /\ task'["flush"].todo = task["flush"].todo \ {p}
      /\ task'["flush"].text = task["flush"].text
  <2>1. task'["flush"] = [task["flush"] EXCEPT !.todo = @ \ {p}] /\ task["flush"] \in Task
    BY <1>3, TakeTyped DEF Ordered, WatcherTypeOK, Tasks
  <2> QED
    BY <1>2, <2>1 DEF Task
<1>5. LastWord(q)' /\ Handled(q)'
  BY <1>2, <1>3, <1>4 DEF InHand, LastWord, Handled, Heard, Verb, Flush
<1>6. stage \in [Paths -> {"absent", "pending", "published", "failed", "deleted"}]
      /\ version \in [Paths -> Contents \cup {Absent}]
      /\ claim \in [Paths -> Tasks \cup {Nobody}]
  BY <1>3 DEF Ordered, WatcherTypeOK
<1>7. CASE q # p
  <2>1. UNCHANGED <<stage[q], version[q], claim[q]>>
    BY <1>6, <1>7 DEF Take, serverVars
  <2>2. Pushed(q)' /\ Undisturbed(q)'
    BY <1>2, <1>3, <1>4, <1>7, <2>1 DEF InHand, Pushed, Undisturbed, Flush, At
  <2>3. InSync(q)' = InSync(q) /\ Underway(q)' = Underway(q)
    BY <1>2, <1>4, <1>7, <2>1 DEF InSync, Underway, Tracked
  <2> QED
    BY <1>2, <1>3, <1>5, <2>2, <2>3 DEF InHand, InOrder
<1>8. CASE q = p
  <2>1. task["flush"].text[p] # Absent
    BY <1>2, <1>3 DEF Ordered, FlushOrder, Flush
  <2>2. InOrder(p)'
    BY <1>4, <2>1 DEF InOrder, Underway
  <2>3. claim[p] = Nobody
    <3>1. claim[p] # "drift" /\ claim[p] # "flush"
      BY <1>2, <1>3, <1>8 DEF InHand, Undisturbed, Ordered, ClaimsPlaced, Flush
    <3> QED
      BY <1>6, <3>1 DEF Tasks
  <2>4. CASE stage[p] = "published" /\ version[p] = task["flush"].text[p]
    <3>1. UNCHANGED <<stage, version, claim>>
      BY <2>4 DEF Take, serverVars
    <3> QED
      BY <1>3, <1>4, <1>5, <1>8, <2>2, <2>4, <3>1
      DEF InHand, Pushed, Undisturbed, Flush
  <2>5. CASE ~(stage[p] = "published" /\ version[p] = task["flush"].text[p])
    <3>1. claim'[p] = "flush" /\ stage'[p] = "pending"
          /\ version'[p] = task["flush"].text[p]
      BY <1>6, <2>3, <2>5 DEF Take
    <3> QED
      BY <1>4, <1>5, <1>8, <2>2, <3>1 DEF InHand, Pushed, Undisturbed, Flush
  <2> QED
    BY <2>4, <2>5
<1> QED
  BY <1>7, <1>8

(* The end of the debounce task's push, for a path it was read for or not: the
   job did not fail, or neither held the path nor was to take it. *)
LEMMA EndInHand ==
  ASSUME WatcherInv, NEW new \in {"published", "failed"}, End("flush", new),
         At("flush", "index"), NEW q \in Paths, InHand(q), q \notin Flush.todo,
         new = "published" \/ claim[q] # "flush"
  PROVE  InHand(q)'
<1>1. /\ task'["flush"].pc = "delete" /\ task'["flush"].todo = {}
      /\ task'["flush"].text = Nothing /\ task'["flush"].del = task["flush"].del
      /\ UNCHANGED <<disk, events, buf, watching, version>>
  BY EndTyped DEF WatcherInv, Ordered, Tasks
<1>2. /\ stage'[q] = IF claim[q] = "flush" /\ stage[q] = "pending" THEN new ELSE stage[q]
      /\ claim'[q] = IF claim[q] = "flush" THEN Nobody ELSE claim[q]
  BY DEF End, Held
<1>3. Verb(q)' = Verb(q) /\ Heard(q)' = Heard(q) /\ Tracked(q)' = Tracked(q)
  BY <1>1 DEF Verb, Heard, Tracked
<1>4. LastWord(q)'
  BY <1>1, <1>3 DEF InHand, LastWord
<1>5. Handled(q)'
  BY <1>1, <1>3 DEF InHand, Handled, Flush, Nothing
<1>6. Pushed(q)'
  BY <1>1 DEF Pushed, At
<1>7. Undisturbed(q)'
  BY <1>2, WatcherAssumption DEF InHand, Undisturbed
<1>8. InOrder(q)'
  <2> SUFFICES ASSUME ~Underway(q)', disk[q] \notin Oversized
               PROVE  InSync(q)'
    BY <1>1 DEF InOrder
  <2>1. ~Heard(q) /\ buf[q] = "none" /\ q \notin task["flush"].del
    <3>1. events \in Seq({"upsert", "delete"} \X Paths)
      BY DEF WatcherInv, Ordered, WatcherTypeOK
    <3> QED
      BY <1>1, <3>1 DEF Underway, Heard
  <2>2. Tracked(q) = disk[q]
    BY DEF Tracked
  <2>3. CASE task["flush"].text[q] # Absent
    <3>1. /\ version[q] = task["flush"].text[q]
          /\ stage[q] = "published" \/ (stage[q] = "pending" /\ claim[q] = "flush")
      BY <2>3 DEF InHand, Pushed, Flush
    <3>2. task["flush"].text[q] = disk[q]
      BY <2>1, <2>3 DEF InHand, Handled, Flush
    <3>3. stage'[q] = "published" /\ version'[q] = disk[q] /\ disk[q] # Absent
      BY <1>1, <1>2, <2>3, <3>1, <3>2
    <3> QED
      BY <1>3, <2>2, <3>3 DEF InSync
  <2>4. CASE task["flush"].text[q] = Absent
    <3>1. claim[q] # "flush"
      BY <2>4 DEF WatcherInv, Ordered, ClaimsPlaced, Flush
    <3>2. UNCHANGED <<stage[q], version[q]>>
      BY <1>1, <1>2, <3>1
    <3>3. ~Underway(q)
      <4>1. ~(\E i \in DOMAIN events : events[i][2] = q)
        BY <1>1 DEF Underway
      <4> QED
        BY <2>1, <2>4, <4>1 DEF Underway, Flush
    <3>4. InSync(q)
      BY <3>3 DEF InHand, InOrder
    <3> QED
      BY <1>3, <3>2, <3>4 DEF InSync
  <2> QED
    BY <2>3, <2>4
<1> QED
  BY <1>4, <1>5, <1>6, <1>7, <1>8 DEF InHand

(* A push ends: of the debounce task, or of the drift task. *)
LEMMA PushInHand ==
  ASSUME WatcherInv, NEW t \in Tasks, Answered(t) \/ PushFails(t)
  PROVE  WatcherInv'
<1>1. Ordered'
  BY FinishOrdered DEF WatcherInv
<1> SUFFICES ASSUME NEW q \in Paths \ excused' PROVE InHand(q)'
  BY <1>1 DEF WatcherInv
<1>2. PICK new \in {"published", "failed"} :
        /\ End(t, new) /\ At(t, "index")
        /\ new = "published" \/ (claim[q] # t /\ q \notin task[t].todo)
        /\ new = "published" => task[t].todo = {}
  BY DEF Answered, PushFails, Held
<1>3. excused \subseteq excused'
  BY DEF Answered, PushFails
<1>4. InHand(q)
  BY <1>3 DEF WatcherInv
<1>5. CASE t = "flush"
  BY <1>2, <1>4, <1>5, EndInHand DEF Flush
<1>6. CASE t = "drift"
  <2>1. task'["flush"] = task["flush"] /\ UNCHANGED <<disk, events, buf, version>>
    BY <1>2, <1>6, EndTyped DEF WatcherInv, Ordered, Tasks
  <2>2. claim[q] # "drift"
    BY <1>4 DEF InHand, Undisturbed
  <2>3. UNCHANGED <<stage[q], claim[q]>>
    <3>1. stage'[q] = stage[q]
      BY <1>2, <1>6, <2>2 DEF End, Held
    <3>2. claim \in [Paths -> Tasks \cup {Nobody}]
      BY DEF WatcherInv, Ordered, WatcherTypeOK
    <3>3. claim'[q] = claim[q]
      BY <1>2, <1>6, <2>2 DEF End, Held
    <3> QED
      BY <3>1, <3>3
  <2> QED
    BY <1>4, <2>1, <2>3, PathKept
<1> QED
  BY <1>5, <1>6 DEF Tasks

(* The debounce task has sent its deletes, or could not: what it had to delete
   is deleted, unless it is excused. *)
LEMMA FlushEnds ==
  ASSUME WatcherInv, At("flush", "delete"), Become("flush", Idle),
         UNCHANGED <<disk, watchVars, version, claim>>,
         NEW q \in Paths, InHand(q),
         stage'[q] = IF q \in task["flush"].del /\ stage[q] # "absent"
                       THEN "deleted" ELSE stage[q]
  PROVE  InHand(q)'
<1>1. task'["flush"] = Idle
  BY IdleTyped, BecomeTyped DEF WatcherInv, Ordered, Tasks
<1>2. /\ task'["flush"].pc = "idle" /\ task'["flush"].todo = {}
      /\ task'["flush"].text[q] = Absent /\ task'["flush"].del = {}
  BY <1>1 DEF Idle, Nothing
<1>3. task["flush"].todo = {} /\ task["flush"].text[q] = Absent
  BY DEF WatcherInv, Ordered, FlushOrder, Flush, At, Nothing
<1>4. Verb(q)' = Verb(q) /\ Heard(q)' = Heard(q) /\ Tracked(q)' = Tracked(q)
  BY DEF Verb, Heard, Tracked, watchVars
<1>5. LastWord(q)'
  BY <1>4 DEF InHand, LastWord, watchVars
<1>6. Handled(q)' /\ Pushed(q)'
  BY <1>2 DEF Handled, Pushed, Flush, At
<1>7. Undisturbed(q)'
  BY DEF InHand, Undisturbed
<1>8. InOrder(q)'
  <2> SUFFICES ASSUME ~Underway(q)', disk[q] \notin Oversized
               PROVE  InSync(q)'
    BY DEF InOrder
  <2>1. ~(\E i \in DOMAIN events : events[i][2] = q) /\ buf[q] = "none"
    BY DEF Underway, watchVars
  <2>2. ~Heard(q)
    <3>1. events \in Seq({"upsert", "delete"} \X Paths)
      BY DEF WatcherInv, Ordered, WatcherTypeOK
    <3> QED
      BY <2>1, <3>1 DEF Heard
  <2>3. CASE q \in task["flush"].del
    <3>1. Tracked(q) = Absent
      BY <2>1, <2>2, <2>3 DEF InHand, Handled, Flush, Tracked
    <3>2. stage'[q] # "published"
      BY <2>3
    <3> QED
      BY <1>4, <3>1, <3>2 DEF InSync
  <2>4. CASE q \notin task["flush"].del
    <3>1. InSync(q)
      BY <1>3, <2>1, <2>4 DEF InHand, InOrder, Underway
    <3> QED
      BY <1>4, <2>4, <3>1 DEF InSync
  <2> QED
    BY <2>3, <2>4
<1> QED
  BY <1>5, <1>6, <1>7, <1>8 DEF InHand

(* DELETE /files is sent.  The drift task gives back what it left settled. *)
LEMMA DeleteInHand ==
  ASSUME WatcherInv, NEW t \in Tasks, Delete(t)
  PROVE  WatcherInv'
<1>1. Ordered'
  BY FinishOrdered DEF WatcherInv
<1> SUFFICES ASSUME NEW q \in Paths \ excused' PROVE InHand(q)'
  BY <1>1 DEF WatcherInv
<1>2. /\ At(t, "delete") /\ Become(t, Idle)
      /\ UNCHANGED <<disk, watchVars, version, claim>>
      /\ stage'[q] = IF q \in task[t].del /\ stage[q] # "absent"
                       THEN "deleted" ELSE stage[q]
  BY DEF Delete
<1>3. CASE t = "flush"
  BY <1>2, <1>3, FlushEnds DEF Delete, WatcherInv
<1>4. CASE t = "drift"
  <2>1. task'["drift"] = Idle /\ task'["flush"] = task["flush"]
    BY <1>2, <1>4, IdleTyped, BecomeTyped DEF WatcherInv, Ordered, Tasks
  <2>2. CASE q \in excused \cup task["drift"].del
    <3>1. ((Ordered /\ ~At("drift", "index"))
             => \A p \in Paths : Settled(p) => InHand(p))'
      BY SettledIsInHand, PTL
    <3>2. ~At("drift", "index")'
      BY <2>1 DEF At, Idle
    <3>3. Settled(q)'
      BY <1>4, <2>2 DEF Delete
    <3> QED
      BY <1>1, <3>1, <3>2, <3>3
  <2>3. CASE q \notin excused \cup task["drift"].del
    <3>1. InHand(q) /\ stage'[q] = stage[q]
      BY <1>2, <1>4, <2>3 DEF WatcherInv
    <3> QED
      BY <1>2, <2>1, <3>1, PathKept DEF watchVars
  <2> QED
    BY <2>2, <2>3
<1> QED
  BY <1>3, <1>4 DEF Tasks

(* A call that fails excuses what it was about. *)
LEMMA CallFailsInHand ==
  ASSUME WatcherInv, NEW t \in Tasks, CallFails(t)
  PROVE  WatcherInv'
<1>1. Ordered'
  BY FinishOrdered DEF WatcherInv
<1>2. /\ Become(t, Idle) /\ UNCHANGED <<disk, watchVars, serverVars>>
      /\ excused' = excused \cup task[t].del
  BY DEF CallFails
<1>3. CASE t = "flush"
  <2> SUFFICES ASSUME NEW q \in Paths \ excused' PROVE InHand(q)'
    BY <1>1 DEF WatcherInv
  <2>1. InHand(q) /\ q \notin task["flush"].del
    BY <1>2, <1>3 DEF WatcherInv
  <2>2. At("flush", "delete")
    BY <1>3 DEF CallFails
  <2> QED
    BY <1>2, <1>3, <2>1, <2>2, FlushEnds DEF serverVars
<1>4. CASE t = "drift"
  <2>1. task'["flush"] = task["flush"]
    BY <1>2, <1>4, IdleTyped, BecomeTyped DEF WatcherInv, Ordered, Tasks
  <2> QED
    BY <1>1, <1>2, <2>1, NothingMoves DEF watchVars
<1> QED
  BY <1>3, <1>4 DEF Tasks

(* The steps of the drift task before its deletes. *)
LEMMA DriftInHand ==
  ASSUME WatcherInv,
         \/ StartDrift \/ Query \/ Send("drift")
         \/ \E p \in Paths : HashFile(p) \/ Read("drift", p)
  PROVE  WatcherInv'
<1>1. Ordered
  BY DEF WatcherInv
<1>2. Ordered'
  BY <1>1, StartOrdered, QueryOrdered, SendOrdered, HashOrdered, ReadOrdered DEF Tasks
<1>3. UNCHANGED <<disk, events, buf, serverVars, excused>>
  BY DEF StartDrift, Query, Send, HashFile, Read, watchVars
<1>4. \E new : Become("drift", new)
  BY DEF StartDrift, Query, Send, HashFile, Read
<1>5. task'["flush"] = task["flush"]
  BY <1>1, <1>4 DEF Become, Ordered, WatcherTypeOK, Tasks
<1> QED
  BY <1>2, <1>3, <1>5, NothingMoves

(* What the server takes for the drift task is excused. *)
LEMMA DriftTakeInHand ==
  ASSUME WatcherInv, NEW p \in Paths, Take("drift", p)
  PROVE  WatcherInv'
<1>1. Ordered /\ Ordered' /\ task'["flush"] = task["flush"]
  BY TakeOrdered, TakeTyped DEF WatcherInv, Ordered, Tasks
<1>2. UNCHANGED <<disk, events, buf>>
  BY DEF Take, watchVars
<1>3. CASE UNCHANGED <<serverVars, excused>>
  BY <1>1, <1>2, <1>3, NothingMoves
<1>4. CASE ~UNCHANGED <<serverVars, excused>>
  <2>1. /\ claim' = [claim EXCEPT ![p] = "drift"]
        /\ stage' = [stage EXCEPT ![p] = "pending"]
        /\ version' = [version EXCEPT ![p] = task["drift"].text[p]]
        /\ excused' = excused \cup {p}
    BY <1>4 DEF Take, Touch
  <2> SUFFICES ASSUME NEW q \in Paths \ excused' PROVE InHand(q)'
    BY <1>1 DEF WatcherInv
  <2>2. InHand(q) /\ q # p
    BY <2>1 DEF WatcherInv
  <2>3. UNCHANGED <<stage[q], version[q], claim[q]>>
    BY <1>1, <2>1, <2>2 DEF Ordered, WatcherTypeOK
  <2> QED
    BY <1>1, <1>2, <2>2, <2>3, PathKept
<1> QED
  BY <1>3, <1>4

(* What the startup check left settled needs no excuse. *)
LEMMA StartWatchingInHand ==
  ASSUME WatcherInv, StartWatching
  PROVE  WatcherInv'
<1>1. Ordered'
  BY StartOrdered DEF WatcherInv
<1> SUFFICES ASSUME NEW q \in Paths \ excused' PROVE InHand(q)'
  BY <1>1 DEF WatcherInv
<1>2. UNCHANGED <<disk, events, buf, task, serverVars>> /\ ~At("drift", "index")
  BY DEF StartWatching, At
<1>3. InHand(q)
  BY <1>2, SettledIsInHand DEF StartWatching, WatcherInv
<1> QED
  BY <1>2, <1>3, PathKept DEF serverVars

(* The retry worker takes up only what a failure left behind. *)
LEMMA RetryInHand ==
  ASSUME WatcherInv, NEW p \in Paths, NEW new \in {"published", "failed"}, Retry(p, new)
  PROVE  WatcherInv'
<1>1. Ordered'
  BY RetryOrdered DEF WatcherInv
<1> SUFFICES ASSUME NEW q \in Paths \ excused' PROVE InHand(q)'
  BY <1>1 DEF WatcherInv
<1>2. UNCHANGED <<disk, events, buf, task, version, claim, excused>>
      /\ stage' = [stage EXCEPT ![p] = new]
      /\ claim[p] = Nobody /\ stage[p] \in {"pending", "failed"}
  BY DEF Retry, watchVars
<1>3. InHand(q)
  BY <1>2 DEF WatcherInv
<1>4. q # p
  BY <1>2, <1>3, WatcherAssumption DEF InHand, Undisturbed
<1>5. stage'[q] = stage[q]
  BY <1>2, <1>4 DEF WatcherInv, Ordered, WatcherTypeOK
<1> QED
  BY <1>2, <1>3, <1>5, PathKept

(* The invariant holds initially, *)
LEMMA WatcherInvInit ==
  ASSUME WatcherInit PROVE WatcherInv
<1>1. task \in [Tasks -> Task] /\ task["flush"] = Idle
  BY IdleTyped DEF WatcherInit, Tasks
<1>2. events \in Seq({"upsert", "delete"} \X Paths)
  BY EmptySeq DEF WatcherInit
<1>3. disk \in [Paths -> Contents \cup {Absent}]
  BY DEF WatcherInit
<1>4. WatcherTypeOK
  <2>1. changes \in 0 .. MaxChanges
    BY WatcherAssumption DEF WatcherInit
  <2>2. buf \in [Paths -> {"none", "upsert", "delete"}] /\ watching \in BOOLEAN
        /\ version \in [Paths -> Contents \cup {Absent}] /\ excused \subseteq Paths
    BY DEF WatcherInit, Nothing
  <2>3. stage \in [Paths -> {"absent", "pending", "published", "failed", "deleted"}]
        /\ claim \in [Paths -> Tasks \cup {Nobody}]
    BY DEF WatcherInit
  <2> QED
    BY <1>1, <1>2, <1>3, <2>1, <2>2, <2>3 DEF WatcherTypeOK
<1>5. FlushOrder
  BY <1>1 DEF FlushOrder, Flush, Idle
<1>6. ClaimsPlaced
  BY WatcherAssumption DEF WatcherInit, ClaimsPlaced
<1> QED
  BY <1>4, <1>5, <1>6 DEF WatcherInit, WatcherInv, Ordered

(* and every step keeps it. *)
LEMMA WatcherInvNext ==
  ASSUME WatcherInv, [WatcherNext]_watcherVars
  PROVE  WatcherInv'
<1>1. CASE StartWatching \/ Receive \/ StartFlush
  BY <1>1, StartWatchingInHand, ReceiveInHand, StartFlushInHand
<1>2. CASE StartDrift
  BY <1>2, DriftInHand
<1>3. ASSUME NEW t \in Tasks, TaskStep(t) PROVE WatcherInv'
  <2>1. CASE \E p \in Paths : HashFile(p)
    BY <2>1, DriftInHand
  <2>2. CASE t = "drift" /\ Query
    BY <2>2, DriftInHand
  <2>3. CASE \E p \in Paths : Read(t, p)
    BY <2>3, DriftInHand, ReadInHand DEF Tasks
  <2>4. CASE \E p \in Paths : Take(t, p)
    BY <2>4, DriftTakeInHand, TakeInHand DEF Tasks
  <2>5. CASE Send(t)
    BY <2>5, DriftInHand, SendInHand DEF Tasks
  <2>6. CASE Answered(t) \/ Delete(t)
    BY <2>6, PushInHand, DeleteInHand
  <2> QED
    BY <1>3, <2>1, <2>2, <2>3, <2>4, <2>5, <2>6 DEF TaskStep
<1>4. CASE WorkerStep
  BY <1>4, RetryInHand DEF WorkerStep
<1>5. CASE \E p \in Paths, c \in Contents \cup {Absent} : Edit(p, c)
  BY <1>5, EditInHand
<1>6. CASE \E t \in Tasks : PushFails(t) \/ CallFails(t)
  BY <1>6, PushInHand, CallFailsInHand
<1>7. CASE Restart
  BY <1>7, RestartOrdered DEF Restart, WatcherInv
<1>8. CASE UNCHANGED watcherVars
  <2>1. UNCHANGED <<disk, events, buf, watching, task, stage, version, claim, changes,
                    excused>>
    BY <1>8 DEF watcherVars, watchVars, serverVars
  <2>2. WatcherTypeOK'
    BY <2>1 DEF WatcherInv, Ordered, WatcherTypeOK
  <2>3. Ordered'
    BY <2>1, <2>2, QuietOrdered DEF WatcherInv
  <2> QED
    BY <2>1, <2>3, NothingMoves DEF serverVars
<1> QED
  BY <1>1, <1>2, <1>3, <1>4, <1>5, <1>6, <1>7, <1>8
  DEF WatcherNext, WatcherStep, Disturbance

(* The debounce task forgets no edit (flush, run_event_loop): a path nobody
   else interfered with is in step with the index, under way, or too large. *)
THEOREM NoEditForgotten == WatcherSpec => []DebounceForgetsNothing
<1>1. WatcherInv => DebounceForgetsNothing
  BY DEF WatcherInv, InHand, InOrder, DebounceForgetsNothing
<1> QED
  BY <1>1, WatcherInvInit, WatcherInvNext, PTL DEF WatcherSpec
=============================================================================
