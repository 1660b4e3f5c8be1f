------------------------------ MODULE Knowledge ------------------------------
(***************************************************************************)
(* The knowledge base (repositories/knowledge.py): concurrent publications *)
(* and imports of the configured directory, each one transaction of        *)
(* several statements under READ COMMITTED.                                *)
(*                                                                         *)
(* A statement chooses rows from what is committed when it starts, waits   *)
(* for their locks, and then sees them as they are by then.  The step that *)
(* chooses and the step that has the lock are therefore separate actions.  *)
(* What a transaction does to rows that it has locked is invisible to      *)
(* others, and so is part of the step before it.                           *)
(*                                                                         *)
(* Abstractions: one tenant; a text stands for everything the checksum     *)
(* covers; approvals, metadata, timestamps and audit records are left out. *)
(***************************************************************************)
EXTENDS Naturals, Sequences, FiniteSets

CONSTANTS
  Key,          \* external_key
  Text,         \* what a file says, as told apart by its checksum
  MaxVersion,   \* bounds the versions of a key
  Publication,  \* calls of publish_knowledge_item
  Import,       \* calls of import_knowledge_directory
  FilesOf,      \* the files an import finds, in the order of their paths
  None

Version == 1 .. MaxVersion
Call == Publication \cup Import

ASSUME KnowledgeAssumption ==
  /\ MaxVersion \in Nat
  /\ FilesOf \in [Import -> Seq([key : Key, text : Text])]
  /\ Publication \cap Import = {}
  /\ None \notin Call /\ None \notin Text

VARIABLES
  serial,       \* publications of a key do not overlap in this behaviour
  item,         \* knowledge_items
  publication,  \* local state of each publication
  import        \* local state of each import

vars == <<serial, item, publication, import>>
-----------------------------------------------------------------------------
\* absent: no row
Row == [status : {"absent", "draft", "published", "archived"}, text : Text \cup {None}]

\* now: the committed row; next: what the transaction that has locked it has
\* made of it; owner: that transaction
ItemRow == [now : Row, next : Row, owner : Call \cup {None}]

NoRow == [status |-> "absent", text |-> None]
Unlocked(row) == [now |-> row, next |-> row, owner |-> None]

\* rest: the versions the archiving statement has chosen and not yet visited
PublicationState ==
  [phase   : {"new", "selected", "archiving", "ended"},
   key     : Key \cup {None},
   version : Version \cup {0},
   rest    : SUBSET Version]

\* file: the file in work; version: the one locked or inserted for it
ImportState ==
  [phase   : {"new", "reading", "selected", "inserting", "ended"},
   file    : Nat \ {0},
   version : Nat]

Init ==
  /\ serial \in BOOLEAN
  /\ item = [k \in Key |-> [v \in Version |-> Unlocked(NoRow)]]
  /\ publication = [p \in Publication |->
       [phase |-> "new", key |-> None, version |-> 0, rest |-> {}]]
  /\ import = [i \in Import |-> [phase |-> "new", file |-> 1, version |-> 0]]
-----------------------------------------------------------------------------
\* The row as transaction c sees it: its own changes, else what is committed
Seen(c, k, v) == IF item[k][v].owner = c THEN item[k][v].next ELSE item[k][v].now

Exists(c, k, v) == Seen(c, k, v).status # "absent"

\* Mutant of Free: SELECT without FOR UPDATE.
NotLocked(c, k, v) == TRUE

\* The lock of a row is free, or is the transaction's own.
Free(c, k, v) == item[k][v].owner \in {None, c}

Locked(c, k, v, row) ==
  item' = [item EXCEPT
    ![k] = [item[k] EXCEPT ![v] = [now |-> item[k][v].now, next |-> row, owner |-> c]]]

\* The rows after c's commit, or after its rollback
AfterCommit(c) ==
  [k \in Key |-> [v \in Version |->
    IF item[k][v].owner = c THEN Unlocked(item[k][v].next) ELSE item[k][v]]]

AfterRollback(c) ==
  [k \in Key |-> [v \in Version |->
    IF item[k][v].owner = c THEN Unlocked(item[k][v].now) ELSE item[k][v]]]

\* What search_published_knowledge and get_published_knowledge_by_keys may find
PublishedVersions(k) == {v \in Version : item[k][v].now.status = "published"}
-----------------------------------------------------------------------------
(***************************************************************************)
(* publish_knowledge_item.                                                 *)
(***************************************************************************)
Publishing(p, k) ==
  publication[p].phase \in {"selected", "archiving"} /\ publication[p].key = k

\* The version asked for, or the latest: any that exists, whatever its status.
SelectItem(p, k, v) ==
  /\ publication[p].phase = "new"
  /\ serial => \A q \in Publication \ {p} : ~Publishing(q, k)
  /\ Exists(p, k, v)
  /\ publication' = [publication EXCEPT
       ![p] = [phase |-> "selected", key |-> k, version |-> v, rest |-> {}]]
  /\ UNCHANGED <<serial, item, import>>

\* Mutant of InForce: only earlier versions are replaced.
EarlierInForce(p, k, v) ==
  {w \in Version : w < v /\ Seen(p, k, w).status = "published"}

\* The versions that the archiving statement chooses
InForce(p, k, v) == {w \in Version \ {v} : Seen(p, k, w).status = "published"}

\* FOR UPDATE is granted, and the archiving statement starts.
LockItem(p) ==
  LET k == publication[p].key
      v == publication[p].version IN
  /\ publication[p].phase = "selected"
  /\ Free(p, k, v)
  /\ Locked(p, k, v, item[k][v].now)
  /\ publication' = [publication EXCEPT
       ![p] = [publication[p] EXCEPT !.phase = "archiving", !.rest = InForce(p, k, v)]]
  /\ UNCHANGED <<serial, import>>

Archived(row) == [row EXCEPT !.status = "archived"]

\* A chosen row is locked, looked at again, and archived if still published.
ArchiveItem(p, w) ==
  LET k == publication[p].key IN
  /\ publication[p].phase = "archiving"
  /\ w \in publication[p].rest
  /\ Free(p, k, w)
  /\ IF item[k][w].now.status = "published"
     THEN Locked(p, k, w, Archived(item[k][w].now))
     ELSE UNCHANGED item
  /\ publication' = [publication EXCEPT
       ![p] = [publication[p] EXCEPT !.rest = publication[p].rest \ {w}]]
  /\ UNCHANGED <<serial, import>>

Published(row) == [row EXCEPT !.status = "published"]

\* The selected row becomes published, and the transaction commits.
PublishItem(p) ==
  LET k == publication[p].key
      v == publication[p].version IN
  /\ publication[p].phase = "archiving"
  /\ publication[p].rest = {}
  /\ item' = [AfterCommit(p) EXCEPT
       ![k] = [AfterCommit(p)[k] EXCEPT ![v] = Unlocked(Published(item[k][v].next))]]
  /\ publication' = [publication EXCEPT
       ![p] = [publication[p] EXCEPT !.phase = "ended"]]
  /\ UNCHANGED <<serial, import>>

\* A database error, a crash, or the choice of a deadlock's victim
AbortPublication(p) ==
  /\ publication[p].phase \in {"selected", "archiving"}
  /\ item' = AfterRollback(p)
  /\ publication' = [publication EXCEPT
       ![p] = [publication[p] EXCEPT !.phase = "ended", !.rest = {}]]
  /\ UNCHANGED <<serial, import>>
-----------------------------------------------------------------------------
(***************************************************************************)
(* import_knowledge_directory: _upsert_draft for every file, and a commit. *)
(***************************************************************************)
File(i) == FilesOf[i][import[i].file]
MoreFiles(i) == import[i].file <= Len(FilesOf[i])

BeginImport(i) ==
  /\ import[i].phase = "new"
  /\ import' = [import EXCEPT ![i] = [import[i] EXCEPT !.phase = "reading"]]
  /\ UNCHANGED <<serial, item, publication>>

\* ORDER BY version DESC LIMIT 1
IsLatest(i, k, v) == Exists(i, k, v) /\ \A w \in Version : Exists(i, k, w) => w <= v

\* Without any version there is nothing to wait for.
SelectLatest(i) ==
  /\ import[i].phase = "reading"
  /\ MoreFiles(i)
  /\ \/ /\ \A v \in Version : ~Exists(i, File(i).key, v)
        /\ import' = [import EXCEPT
             ![i] = [import[i] EXCEPT !.phase = "inserting", !.version = 1]]
     \/ \E v \in Version :
          /\ IsLatest(i, File(i).key, v)
          /\ import' = [import EXCEPT
               ![i] = [import[i] EXCEPT !.phase = "selected", !.version = v]]
  /\ UNCHANGED <<serial, item, publication>>

NextFile(i) ==
  import' = [import EXCEPT
    ![i] = [phase |-> "reading", file |-> import[i].file + 1, version |-> 0]]

\* Mutant of Editable: a draft is recognised by not being in force.
NotInForce(row) == row.status # "published"

\* A draft is rewritten; a version that was ever published is not.
Editable(row) == row.status = "draft"

\* FOR UPDATE is granted: the row is as the file says, is rewritten, or stays
\* and the file becomes the version after it.
LockLatest(i) ==
  LET k == File(i).key
      v == import[i].version
      row == Seen(i, k, v) IN
  /\ import[i].phase = "selected"
  /\ Free(i, k, v)
  /\ \/ /\ row.text = File(i).text
        /\ Locked(i, k, v, row)
        /\ NextFile(i)
     \/ /\ row.text # File(i).text
        /\ Editable(row)
        /\ Locked(i, k, v, [row EXCEPT !.text = File(i).text])
        /\ NextFile(i)
     \/ /\ row.text # File(i).text
        /\ ~Editable(row)
        /\ Locked(i, k, v, row)
        /\ import' = [import EXCEPT
             ![i] = [import[i] EXCEPT !.phase = "inserting", !.version = v + 1]]
  /\ UNCHANGED <<serial, publication>>

\* The insert waits while another transaction has inserted the same version.
InsertDraft(i) ==
  LET k == File(i).key
      v == import[i].version IN
  /\ import[i].phase = "inserting"
  /\ v \in Version
  /\ item[k][v].now.status = "absent"
  /\ item[k][v].owner = None
  /\ Locked(i, k, v, [status |-> "draft", text |-> File(i).text])
  /\ NextFile(i)
  /\ UNCHANGED <<serial, publication>>

EndImport(i) == import' = [import EXCEPT ![i] = [import[i] EXCEPT !.phase = "ended"]]

\* UNIQUE (tenant_id, external_key, version): the import fails as a whole.
InsertFails(i) ==
  /\ import[i].phase = "inserting"
  /\ import[i].version \in Version
  /\ item[File(i).key][import[i].version].now.status # "absent"
  /\ item' = AfterRollback(i)
  /\ EndImport(i)
  /\ UNCHANGED <<serial, publication>>

CommitImport(i) ==
  /\ import[i].phase = "reading"
  /\ ~MoreFiles(i)
  /\ item' = AfterCommit(i)
  /\ EndImport(i)
  /\ UNCHANGED <<serial, publication>>

\* A file that cannot be used, a database error, a crash or a deadlock
AbortImport(i) ==
  /\ import[i].phase \in {"reading", "selected", "inserting"}
  /\ item' = AfterRollback(i)
  /\ EndImport(i)
  /\ UNCHANGED <<serial, publication>>
-----------------------------------------------------------------------------
Next ==
  \/ \E p \in Publication :
       \/ \E k \in Key, v \in Version : SelectItem(p, k, v)
       \/ LockItem(p)
       \/ \E w \in Version : ArchiveItem(p, w)
       \/ PublishItem(p)
       \/ AbortPublication(p)
  \/ \E i \in Import :
       \/ BeginImport(i)
       \/ SelectLatest(i)
       \/ LockLatest(i)
       \/ InsertDraft(i)
       \/ InsertFails(i)
       \/ CommitImport(i)
       \/ AbortImport(i)

Spec == Init /\ [][Next]_vars
-----------------------------------------------------------------------------
TypeOK ==
  /\ serial \in BOOLEAN
  /\ item \in [Key -> [Version -> ItemRow]]
  /\ publication \in [Publication -> PublicationState]
  /\ import \in [Import -> ImportState]

\* A publication that is under way has an item, and has locked it once it
\* archives others.
PublicationsLock ==
  \A p \in Publication :
    /\ publication[p].phase \in {"selected", "archiving"} =>
         /\ publication[p].key \in Key
         /\ publication[p].version \in Version
         /\ item[publication[p].key][publication[p].version].now.status # "absent"
    /\ publication[p].phase = "archiving" =>
         /\ item[publication[p].key][publication[p].version].owner = p
         /\ publication[p].version \notin publication[p].rest

\* An import in the middle of a file has one, and knows a version that exists
\* unless it inserts the first.
ImportsSelect ==
  \A i \in Import :
    /\ import[i].phase \in {"selected", "inserting"} => MoreFiles(i)
    /\ import[i].phase = "selected" =>
         import[i].version \in Version /\ Exists(i, File(i).key, import[i].version)

\* What a transaction may have done to a row that nobody else sees: a
\* publication has archived it if it was published, an import has drafted it if
\* it was a draft or absent.
ChangeAllowed(k, v) ==
  LET row == item[k][v] IN
  /\ row.owner = None => row.next = row.now
  /\ row.owner \in Publication =>
       /\ publication[row.owner].phase = "archiving" /\ publication[row.owner].key = k
       /\ \/ row.next = row.now
          \/ /\ row.now.status = "published" /\ publication[row.owner].version # v
             /\ row.next = Archived(row.now)
  /\ row.owner \in Import =>
       /\ import[row.owner].phase \in {"reading", "selected", "inserting"}
       /\ \/ row.next = row.now
          \/ row.now.status \in {"absent", "draft"} /\ row.next.status = "draft"
  /\ row.now.status = "absent" <=> row.now.text = None
  /\ row.next.status = "absent" <=> row.next.text = None

ChangesAllowed == \A k \in Key, v \in Version : ChangeAllowed(k, v)

\* A publication without rivals has archived, or is still to visit, every other
\* version in force.
RestIsInForce ==
  serial =>
    \A p \in Publication : publication[p].phase = "archiving" =>
      \A w \in Version \ {publication[p].version} :
        LET row == item[publication[p].key][w] IN
        row.now.status = "published" =>
          w \in publication[p].rest \/ (row.owner = p /\ row.next.status = "archived")

\* Only one version of a key is in force, if the publications of the key do not
\* overlap; imports may.
OnePublishedVersion ==
  serial =>
    \A k \in Key : \A v, w \in PublishedVersions(k) : v = w

\* The n-th file of import i is in a row that i has locked, unless a file of the
\* same key that it has read after it has replaced it.
FileIsLocked(i, n) ==
  LET k == FilesOf[i][n].key IN
  \/ \E v \in Version :
       item[k][v].owner = i /\ item[k][v].next.text = FilesOf[i][n].text
  \/ \E m \in (n + 1) .. (import[i].file - 1) : FilesOf[i][m].key = k

\* So is every file it has read so far: what makes ImportIsStored hold.
ReadIsLocked ==
  \A i \in Import : import[i].phase # "ended" =>
    /\ import[i].file <= Len(FilesOf[i]) + 1
    /\ \A n \in 1 .. (import[i].file - 1) : FileIsLocked(i, n)

\* The commit of an import stores every file that it has read: what it has seen
\* unchanged, rewritten or inserted is still so, whatever publications and other
\* imports did to the key since then.
ImportIsStored ==
  [][\A i \in Import : CommitImport(i) =>
       \A n \in 1 .. Len(FilesOf[i]) :
         LET k == FilesOf[i][n].key IN
         \/ \E v \in Version : item'[k][v].now.text = FilesOf[i][n].text
         \/ \E m \in (n + 1) .. Len(FilesOf[i]) : FilesOf[i][m].key = k]_vars

\* Without overlaps one publication of a key is under way.
OnePublication ==
  serial =>
    \A p, q \in Publication, k \in Key : Publishing(p, k) /\ Publishing(q, k) => p = q

\* The inductive invariant of KnowledgeProofs: what locks protect.
KnowledgeRules ==
  /\ PublicationsLock
  /\ ImportsSelect
  /\ ChangesAllowed
  /\ RestIsInForce
  /\ OnePublication
  /\ OnePublishedVersion

KnowledgeInvariant == TypeOK /\ KnowledgeRules

(***************************************************************************)
(* However publications and imports interleave, what readers find changes  *)
(* as ApprovedKnowledge says: a published text is never rewritten by an    *)
(* import, and no two publications withdraw each other's versions.         *)
(***************************************************************************)
Approved == INSTANCE ApprovedKnowledge WITH
  published <- [k \in Key |-> PublishedVersions(k)],
  approved <- [k \in Key |-> [v \in Version |->
    IF item[k][v].now.status \in {"published", "archived"} THEN item[k][v].now.text ELSE None]]

ImplementsApprovedKnowledge == Approved!Spec
=============================================================================
