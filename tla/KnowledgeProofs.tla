--------------------------- MODULE KnowledgeProofs ---------------------------
(***************************************************************************)
(* What holds of Knowledge for any items, texts, publications and imports. *)
(***************************************************************************)
EXTENDS Knowledge, SequenceTheorems, TLAPS

USE DEF Version, Call

-----------------------------------------------------------------------------
(***************************************************************************)
(* What a step does to the rows.                                           *)
(***************************************************************************)

LEMMA RowValues ==
  ASSUME NEW row \in Row
  PROVE  /\ Archived(row) \in Row /\ Archived(row).status = "archived"
         /\ Archived(row).text = row.text
         /\ Published(row) \in Row /\ Published(row).status = "published"
         /\ Published(row).text = row.text
         /\ Unlocked(row) \in ItemRow
         /\ Unlocked(row).now = row /\ Unlocked(row).next = row /\ Unlocked(row).owner = None
<1>1. /\ Archived(row) \in Row /\ Archived(row).status = "archived"
      /\ Archived(row).text = row.text
  BY DEF Row, Archived
<1>2. /\ Published(row) \in Row /\ Published(row).status = "published"
      /\ Published(row).text = row.text
  BY DEF Row, Published
<1>3. /\ Unlocked(row) \in ItemRow
      /\ Unlocked(row).now = row /\ Unlocked(row).next = row /\ Unlocked(row).owner = None
  BY DEF Unlocked, ItemRow
<1>4. QED
  BY <1>1, <1>2, <1>3

LEMMA RowTypes ==
  ASSUME TypeOK, NEW k \in Key, NEW v \in Version
  PROVE  /\ item[k][v] \in ItemRow
         /\ item[k][v].now \in Row /\ item[k][v].next \in Row
         /\ item[k][v].owner \in Call \cup {None}
<1>1. item[k][v] \in ItemRow
  BY DEF TypeOK
<1>2. QED
  BY <1>1 DEF ItemRow

LEMMA LockRows ==
  ASSUME TypeOK, NEW c \in Call, NEW k \in Key, NEW v \in Version, NEW row \in Row,
         Locked(c, k, v, row)
  PROVE  /\ item' \in [Key -> [Version -> ItemRow]]
         /\ item'[k][v] = [now |-> item[k][v].now, next |-> row, owner |-> c]
         /\ \A j \in Key, w \in Version : j # k \/ w # v => item'[j][w] = item[j][w]
<1>1. [now |-> item[k][v].now, next |-> row, owner |-> c] \in ItemRow
  BY DEF TypeOK, ItemRow
<1>2. QED
  BY <1>1 DEF TypeOK, Locked

LEMMA LockedRow ==
  ASSUME TypeOK, NEW c \in Call, NEW k \in Key, NEW v \in Version, NEW row \in Row,
         Locked(c, k, v, row)
  PROVE  item'[k][v].owner = c /\ item'[k][v].next = row
<1>1. item'[k][v] = [now |-> item[k][v].now, next |-> row, owner |-> c]
  BY LockRows
<1>2. QED
  BY <1>1

LEMMA CommitRows ==
  ASSUME TypeOK, NEW c \in Call
  PROVE  /\ AfterCommit(c) \in [Key -> [Version -> ItemRow]]
         /\ \A j \in Key, w \in Version :
              AfterCommit(c)[j][w] =
                IF item[j][w].owner = c THEN Unlocked(item[j][w].next) ELSE item[j][w]
<1>1. \A j \in Key, w \in Version : Unlocked(item[j][w].next) \in ItemRow
  BY DEF TypeOK, ItemRow, Unlocked
<1>2. QED
  BY <1>1 DEF TypeOK, AfterCommit

LEMMA RollbackRows ==
  ASSUME TypeOK, NEW c \in Call
  PROVE  /\ AfterRollback(c) \in [Key -> [Version -> ItemRow]]
         /\ \A j \in Key, w \in Version :
              AfterRollback(c)[j][w] =
                IF item[j][w].owner = c THEN Unlocked(item[j][w].now) ELSE item[j][w]
<1>1. \A j \in Key, w \in Version : Unlocked(item[j][w].now) \in ItemRow
  BY DEF TypeOK, ItemRow, Unlocked
<1>2. QED
  BY <1>1 DEF TypeOK, AfterRollback

\* A file in work is one of the directory.
LEMMA FileType ==
  ASSUME TypeOK, NEW i \in Import, MoreFiles(i)
  PROVE  File(i).key \in Key /\ File(i).text \in Text
<1>1. FilesOf[i] \in Seq([key : Key, text : Text])
  BY KnowledgeAssumption
<1>2. import[i].file \in Nat \ {0} /\ import[i].file <= Len(FilesOf[i])
  BY DEF TypeOK, ImportState, MoreFiles
<1>3. import[i].file \in 1 .. Len(FilesOf[i])
  BY <1>1, <1>2, LenProperties
<1>4. FilesOf[i][import[i].file] \in [key : Key, text : Text]
  BY <1>1, <1>3, ElementOfSeq
<1>5. QED
  BY <1>4 DEF File

-----------------------------------------------------------------------------
(***************************************************************************)
(* The actions, each as what it does to the rows and to its call.          *)
(***************************************************************************)

LEMMA SelectEffect ==
  ASSUME TypeOK, NEW p \in Publication, NEW k \in Key, NEW v \in Version, SelectItem(p, k, v)
  PROVE  /\ TypeOK'
         /\ item' = item /\ import' = import /\ serial' = serial
         /\ publication[p].phase = "new"
         /\ publication'[p].phase = "selected" /\ publication'[p].key = k
         /\ publication'[p].version = v /\ publication'[p].rest = {}
         /\ \A q \in Publication \ {p} : publication'[q] = publication[q]
<1>1. [phase |-> "selected", key |-> k, version |-> v, rest |-> {}] \in PublicationState
  BY DEF PublicationState
<1>2. QED
  BY <1>1 DEF SelectItem, TypeOK

LEMMA LockEffect ==
  ASSUME TypeOK, PublicationsLock, NEW p \in Publication, LockItem(p),
         NEW k \in Key, k = publication[p].key,
         NEW v \in Version, v = publication[p].version
  PROVE  /\ TypeOK'
         /\ import' = import /\ serial' = serial
         /\ k \in Key /\ v \in Version
         /\ publication[p].phase = "selected"
         /\ item[k][v].owner \in {None, p}
         /\ item'[k][v].now = item[k][v].now /\ item'[k][v].next = item[k][v].now
         /\ item'[k][v].owner = p
         /\ \A j \in Key, w \in Version : j # k \/ w # v => item'[j][w] = item[j][w]
         /\ publication'[p].phase = "archiving" /\ publication'[p].key = k
         /\ publication'[p].version = v /\ publication'[p].rest = InForce(p, k, v)
         /\ \A q \in Publication \ {p} : publication'[q] = publication[q]
<1>1. k \in Key /\ v \in Version
  BY DEF PublicationsLock, LockItem
<1>2. item[k][v].now \in Row
  BY <1>1 DEF TypeOK, ItemRow
<1>3. Locked(p, k, v, item[k][v].now)
  BY DEF LockItem
<1>4. [publication[p] EXCEPT !.phase = "archiving", !.rest = InForce(p, k, v)] \in PublicationState
  BY DEF TypeOK, PublicationState, InForce
<1>5. /\ publication' = [publication EXCEPT ![p] =
             [publication[p] EXCEPT !.phase = "archiving", !.rest = InForce(p, k, v)]]
      /\ import' = import /\ serial' = serial
      /\ publication[p].phase = "selected"
      /\ item[k][v].owner \in {None, p}
  BY DEF LockItem, Free
<1>6. /\ publication'[p].phase = "archiving" /\ publication'[p].key = k
      /\ publication'[p].version = v /\ publication'[p].rest = InForce(p, k, v)
  BY <1>4, <1>5 DEF TypeOK, PublicationState
<1>7. /\ item' \in [Key -> [Version -> ItemRow]]
      /\ item'[k][v] = [now |-> item[k][v].now, next |-> item[k][v].now, owner |-> p]
      /\ \A j \in Key, w \in Version : j # k \/ w # v => item'[j][w] = item[j][w]
  BY <1>1, <1>2, <1>3, LockRows
<1>8. /\ TypeOK'
      /\ \A q \in Publication \ {p} : publication'[q] = publication[q]
  BY <1>4, <1>5, <1>7 DEF TypeOK
<1>9. QED
  BY <1>1, <1>5, <1>6, <1>7, <1>8

LEMMA ArchiveEffect ==
  ASSUME TypeOK, PublicationsLock, NEW p \in Publication, NEW w \in Version, ArchiveItem(p, w),
         NEW k \in Key, k = publication[p].key
  PROVE  /\ TypeOK'
         /\ import' = import /\ serial' = serial
         /\ publication[p].phase = "archiving" /\ w \in publication[p].rest
         /\ item[k][w].owner \in {None, p}
         /\ item'[k][w].now = item[k][w].now
         /\ item[k][w].now.status = "published" =>
              item'[k][w].next = Archived(item[k][w].now) /\ item'[k][w].owner = p
         /\ item[k][w].now.status # "published" => item'[k][w] = item[k][w]
         /\ \A j \in Key, u \in Version : j # k \/ u # w => item'[j][u] = item[j][u]
         /\ publication'[p].phase = "archiving" /\ publication'[p].key = k
         /\ publication'[p].version = publication[p].version
         /\ publication'[p].rest = publication[p].rest \ {w}
         /\ \A q \in Publication \ {p} : publication'[q] = publication[q]
<1>1. k \in Key /\ publication[p].phase = "archiving"
  BY DEF PublicationsLock, ArchiveItem
<1>2. Archived(item[k][w].now) \in Row
  BY <1>1, RowTypes, RowValues
<1>3. [publication[p] EXCEPT !.rest = publication[p].rest \ {w}] \in PublicationState
  BY DEF TypeOK, PublicationState
<1>4. /\ publication' = [publication EXCEPT ![p] =
             [publication[p] EXCEPT !.rest = publication[p].rest \ {w}]]
      /\ import' = import /\ serial' = serial
      /\ w \in publication[p].rest
      /\ item[k][w].owner \in {None, p}
      /\ IF item[k][w].now.status = "published"
         THEN Locked(p, k, w, Archived(item[k][w].now))
         ELSE item' = item
  BY DEF ArchiveItem, Free
<1>5. /\ publication' \in [Publication -> PublicationState]
      /\ publication'[p].phase = "archiving" /\ publication'[p].key = k
      /\ publication'[p].version = publication[p].version
      /\ publication'[p].rest = publication[p].rest \ {w}
      /\ \A q \in Publication \ {p} : publication'[q] = publication[q]
  BY <1>1, <1>3, <1>4 DEF TypeOK, PublicationState
<1>6. CASE item[k][w].now.status = "published"
  <2>1. Locked(p, k, w, Archived(item[k][w].now))
    BY <1>4, <1>6
  <2>2. /\ item' \in [Key -> [Version -> ItemRow]]
        /\ item'[k][w] = [now |-> item[k][w].now, next |-> Archived(item[k][w].now), owner |-> p]
        /\ \A j \in Key, u \in Version : j # k \/ u # w => item'[j][u] = item[j][u]
    BY <1>1, <1>2, <2>1, LockRows
  <2>3. TypeOK'
    BY <1>4, <1>5, <2>2 DEF TypeOK
  <2>4. QED
    BY <1>1, <1>4, <1>5, <1>6, <2>2, <2>3
<1>7. CASE item[k][w].now.status # "published"
  BY <1>1, <1>4, <1>5, <1>7 DEF TypeOK
<1>8. QED
  BY <1>6, <1>7

LEMMA PublishEffect ==
  ASSUME TypeOK, PublicationsLock, NEW p \in Publication, PublishItem(p),
         NEW k \in Key, k = publication[p].key,
         NEW v \in Version, v = publication[p].version
  PROVE  /\ TypeOK'
         /\ import' = import /\ serial' = serial
         /\ k \in Key /\ v \in Version
         /\ publication[p].phase = "archiving" /\ publication[p].rest = {}
         /\ item'[k][v] = Unlocked(Published(item[k][v].next))
         /\ \A j \in Key, w \in Version : j # k \/ w # v =>
              item'[j][w] = IF item[j][w].owner = p THEN Unlocked(item[j][w].next) ELSE item[j][w]
         /\ publication'[p].phase = "ended" /\ publication'[p].key = k
         /\ publication'[p].version = v /\ publication'[p].rest = {}
         /\ \A q \in Publication \ {p} : publication'[q] = publication[q]
<1>1. k \in Key /\ v \in Version /\ publication[p].phase = "archiving"
  BY DEF PublicationsLock, PublishItem
<1>2. Unlocked(Published(item[k][v].next)) \in ItemRow
  BY <1>1, RowTypes, RowValues
<1>3. [publication[p] EXCEPT !.phase = "ended"] \in PublicationState
  BY DEF TypeOK, PublicationState
<1>4. /\ publication' = [publication EXCEPT ![p] = [publication[p] EXCEPT !.phase = "ended"]]
      /\ import' = import /\ serial' = serial
      /\ publication[p].rest = {}
      /\ item' = [AfterCommit(p) EXCEPT
           ![k] = [AfterCommit(p)[k] EXCEPT ![v] = Unlocked(Published(item[k][v].next))]]
  BY DEF PublishItem
<1>5. /\ publication' \in [Publication -> PublicationState]
      /\ publication'[p].phase = "ended" /\ publication'[p].key = k
      /\ publication'[p].version = v /\ publication'[p].rest = {}
      /\ \A q \in Publication \ {p} : publication'[q] = publication[q]
  BY <1>3, <1>4 DEF TypeOK, PublicationState
<1>6. /\ item' \in [Key -> [Version -> ItemRow]]
      /\ item'[k][v] = Unlocked(Published(item[k][v].next))
      /\ \A j \in Key, w \in Version : j # k \/ w # v =>
           item'[j][w] = IF item[j][w].owner = p THEN Unlocked(item[j][w].next) ELSE item[j][w]
  <2> DEFINE C == AfterCommit(p)
  <2>1. /\ C \in [Key -> [Version -> ItemRow]]
        /\ \A j \in Key, w \in Version :
             C[j][w] = IF item[j][w].owner = p THEN Unlocked(item[j][w].next) ELSE item[j][w]
    BY CommitRows
  <2>2. item' = [C EXCEPT ![k] = [C[k] EXCEPT ![v] = Unlocked(Published(item[k][v].next))]]
    BY <1>4
  <2> HIDE DEF C
  <2>3. [C[k] EXCEPT ![v] = Unlocked(Published(item[k][v].next))] \in [Version -> ItemRow]
    BY <1>1, <1>2, <2>1
  <2>4. item' \in [Key -> [Version -> ItemRow]]
    BY <1>1, <2>1, <2>2, <2>3
  <2>5. item'[k] = [C[k] EXCEPT ![v] = Unlocked(Published(item[k][v].next))]
    BY <1>1, <2>1, <2>2
  <2>6. /\ item'[k][v] = Unlocked(Published(item[k][v].next))
        /\ \A w \in Version \ {v} : item'[k][w] = C[k][w]
    <3>1. C[k] \in [Version -> ItemRow]
      BY <1>1, <2>1
    <3>2. QED
      BY <1>1, <3>1, <2>5
  <2>7. \A j \in Key \ {k} : item'[j] = C[j]
    BY <1>1, <2>1, <2>2
  <2>8. QED
    BY <1>1, <2>1, <2>4, <2>6, <2>7
<1>7. QED
  BY <1>1, <1>4, <1>5, <1>6 DEF TypeOK

LEMMA AbortPublicationEffect ==
  ASSUME TypeOK, NEW p \in Publication, AbortPublication(p)
  PROVE  /\ TypeOK'
         /\ import' = import /\ serial' = serial
         /\ \A j \in Key, w \in Version :
              item'[j][w] = IF item[j][w].owner = p THEN Unlocked(item[j][w].now) ELSE item[j][w]
         /\ publication'[p].phase = "ended"
         /\ \A q \in Publication \ {p} : publication'[q] = publication[q]
<1>1. [publication[p] EXCEPT !.phase = "ended", !.rest = {}] \in PublicationState
  BY DEF TypeOK, PublicationState
<1>2. QED
  BY <1>1, RollbackRows DEF TypeOK, AbortPublication

LEMMA BeginEffect ==
  ASSUME TypeOK, NEW i \in Import, BeginImport(i)
  PROVE  /\ TypeOK'
         /\ item' = item /\ publication' = publication /\ serial' = serial
         /\ import'[i].phase = "reading"
         /\ import[i].phase = "new"
         /\ \A j \in Import \ {i} : import'[j] = import[j]
<1>1. [import[i] EXCEPT !.phase = "reading"] \in ImportState
  BY DEF TypeOK, ImportState
<1>2. QED
  BY <1>1 DEF TypeOK, ImportState, BeginImport

\* The version selected for a file exists.
LEMMA SelectLatestEffect ==
  ASSUME TypeOK, NEW i \in Import, SelectLatest(i)
  PROVE  /\ TypeOK'
         /\ item' = item /\ publication' = publication /\ serial' = serial
         /\ import[i].phase = "reading" /\ MoreFiles(i)
         /\ import'[i].file = import[i].file
         /\ \/ import'[i].phase = "inserting"
            \/ /\ import'[i].phase = "selected"
               /\ import'[i].version \in Version
               /\ Exists(i, File(i).key, import'[i].version)
         /\ \A j \in Import \ {i} : import'[j] = import[j]
<1>1. /\ item' = item /\ publication' = publication /\ serial' = serial
      /\ import[i].phase = "reading" /\ MoreFiles(i)
  BY DEF SelectLatest
<1>2. CASE import' = [import EXCEPT ![i] = [import[i] EXCEPT !.phase = "inserting", !.version = 1]]
  <2>1. [import[i] EXCEPT !.phase = "inserting", !.version = 1] \in ImportState
    BY DEF TypeOK, ImportState
  <2>2. QED
    BY <1>1, <1>2, <2>1 DEF TypeOK, ImportState
<1>3. ASSUME NEW v \in Version, Exists(i, File(i).key, v),
             import' = [import EXCEPT ![i] = [import[i] EXCEPT !.phase = "selected", !.version = v]]
      PROVE  /\ TypeOK'
             /\ import'[i].file = import[i].file
             /\ import'[i].phase = "selected" /\ import'[i].version = v
             /\ \A j \in Import \ {i} : import'[j] = import[j]
  <2>1. v \in Nat
    BY KnowledgeAssumption
  <2>2. [import[i] EXCEPT !.phase = "selected", !.version = v] \in ImportState
    BY <2>1 DEF TypeOK, ImportState
  <2>3. QED
    BY <1>1, <1>3, <2>2 DEF TypeOK, ImportState
<1>4. QED
  BY <1>1, <1>2, <1>3 DEF SelectLatest, IsLatest

LEMMA NextFileType ==
  ASSUME TypeOK, NEW i \in Import, NextFile(i)
  PROVE  /\ import' \in [Import -> ImportState]
         /\ import'[i].phase = "reading"
         /\ \A j \in Import \ {i} : import'[j] = import[j]
<1>1. [phase |-> "reading", file |-> import[i].file + 1, version |-> 0] \in ImportState
  BY DEF TypeOK, ImportState
<1>2. QED
  BY <1>1 DEF TypeOK, NextFile

LEMMA LockLatestEffect ==
  ASSUME TypeOK, ImportsSelect, NEW i \in Import, LockLatest(i),
         NEW k, k = File(i).key, NEW v, v = import[i].version
  PROVE  /\ TypeOK'
         /\ publication' = publication /\ serial' = serial
         /\ k \in Key /\ v \in Version
         /\ MoreFiles(i) /\ import[i].phase = "selected"
         /\ item[k][v].owner \in {None, i}
         /\ item'[k][v].now = item[k][v].now /\ item'[k][v].owner = i
         /\ \/ item'[k][v].next = Seen(i, k, v)
            \/ /\ Seen(i, k, v).status = "draft"
               /\ item'[k][v].next.status = "draft" /\ item'[k][v].next.text \in Text
         /\ \A j \in Key, w \in Version : j # k \/ w # v => item'[j][w] = item[j][w]
         /\ import'[i].phase = "reading" \/
              (import'[i].phase = "inserting" /\ import'[i].file = import[i].file)
         /\ \A j \in Import \ {i} : import'[j] = import[j]
<1> DEFINE row == Seen(i, k, v)
           new == [row EXCEPT !.text = File(i).text]
<1>1. /\ MoreFiles(i) /\ import[i].phase = "selected" /\ v \in Version
      /\ publication' = publication /\ serial' = serial
      /\ item[k][v].owner \in {None, i}
  BY DEF LockLatest, ImportsSelect, Free
<1>2. k \in Key /\ File(i).text \in Text
  BY <1>1, FileType
<1>3. row \in Row
  BY <1>1, <1>2, RowTypes DEF Seen
<1>4. new \in Row /\ new.status = row.status /\ new.text = File(i).text
  BY <1>2, <1>3 DEF Row
<1>5. CASE Locked(i, k, v, row) /\ NextFile(i)
  <2>1. /\ item' \in [Key -> [Version -> ItemRow]]
        /\ item'[k][v] = [now |-> item[k][v].now, next |-> row, owner |-> i]
        /\ \A j \in Key, w \in Version : j # k \/ w # v => item'[j][w] = item[j][w]
    BY <1>1, <1>2, <1>3, <1>5, LockRows
  <2>2. /\ import' \in [Import -> ImportState] /\ import'[i].phase = "reading"
        /\ \A j \in Import \ {i} : import'[j] = import[j]
    BY <1>5, NextFileType
  <2>3. TypeOK'
    BY <1>1, <2>1, <2>2 DEF TypeOK
  <2>4. QED
    BY <1>1, <1>2, <2>1, <2>2, <2>3
<1>6. CASE Editable(row) /\ Locked(i, k, v, new) /\ NextFile(i)
  <2>1. /\ item' \in [Key -> [Version -> ItemRow]]
        /\ item'[k][v] = [now |-> item[k][v].now, next |-> new, owner |-> i]
        /\ \A j \in Key, w \in Version : j # k \/ w # v => item'[j][w] = item[j][w]
    BY <1>1, <1>2, <1>4, <1>6, LockRows
  <2>2. /\ import' \in [Import -> ImportState] /\ import'[i].phase = "reading"
        /\ \A j \in Import \ {i} : import'[j] = import[j]
    BY <1>6, NextFileType
  <2>3. TypeOK'
    BY <1>1, <2>1, <2>2 DEF TypeOK
  <2>4. row.status = "draft" /\ item'[k][v].next.status = "draft" /\ item'[k][v].next.text \in Text
    <3>1. row.status = "draft"
      BY <1>6 DEF Editable
    <3> HIDE DEF new
    <3>2. item'[k][v].next = new
      BY <2>1
    <3>3. QED
      BY <1>2, <1>4, <3>1, <3>2
  <2>5. item'[k][v].now = item[k][v].now /\ item'[k][v].owner = i
    BY <2>1
  <2>6. QED
    BY <1>1, <1>2, <2>1, <2>2, <2>3, <2>4, <2>5
<1>7. CASE /\ Locked(i, k, v, row)
           /\ import' = [import EXCEPT
                ![i] = [import[i] EXCEPT !.phase = "inserting", !.version = v + 1]]
  <2>1. /\ item' \in [Key -> [Version -> ItemRow]]
        /\ item'[k][v] = [now |-> item[k][v].now, next |-> row, owner |-> i]
        /\ \A j \in Key, w \in Version : j # k \/ w # v => item'[j][w] = item[j][w]
    BY <1>1, <1>2, <1>3, <1>7, LockRows
  <2>2. v + 1 \in Nat
    BY <1>1, KnowledgeAssumption
  <2>3. [import[i] EXCEPT !.phase = "inserting", !.version = v + 1] \in ImportState
    BY <2>2 DEF TypeOK, ImportState
  <2>4. /\ import' \in [Import -> ImportState] /\ import'[i].phase = "inserting"
        /\ import'[i].file = import[i].file
        /\ \A j \in Import \ {i} : import'[j] = import[j]
    BY <1>7, <2>3 DEF TypeOK, ImportState
  <2>5. TypeOK'
    BY <1>1, <2>1, <2>4 DEF TypeOK
  <2>6. QED
    BY <1>1, <1>2, <2>1, <2>4, <2>5
<1>8. \/ Locked(i, k, v, row) /\ NextFile(i)
      \/ Editable(row) /\ Locked(i, k, v, new) /\ NextFile(i)
      \/ /\ Locked(i, k, v, row)
         /\ import' = [import EXCEPT
              ![i] = [import[i] EXCEPT !.phase = "inserting", !.version = v + 1]]
  BY DEF LockLatest
<1>9. QED
  BY <1>5, <1>6, <1>7, <1>8

LEMMA InsertEffect ==
  ASSUME TypeOK, ImportsSelect, NEW i \in Import, InsertDraft(i),
         NEW k, k = File(i).key, NEW v, v = import[i].version
  PROVE  /\ TypeOK'
         /\ publication' = publication /\ serial' = serial
         /\ k \in Key /\ v \in Version
         /\ item[k][v].now.status = "absent" /\ item[k][v].owner = None
         /\ item'[k][v].now = item[k][v].now /\ item'[k][v].owner = i
         /\ item'[k][v].next.status = "draft" /\ item'[k][v].next.text \in Text
         /\ \A j \in Key, w \in Version : j # k \/ w # v => item'[j][w] = item[j][w]
         /\ import'[i].phase = "reading"
         /\ \A j \in Import \ {i} : import'[j] = import[j]
<1>1. /\ MoreFiles(i) /\ v \in Version
      /\ publication' = publication /\ serial' = serial
      /\ item[k][v].now.status = "absent" /\ item[k][v].owner = None
      /\ Locked(i, k, v, [status |-> "draft", text |-> File(i).text])
      /\ NextFile(i)
  BY DEF InsertDraft, ImportsSelect
<1>2. k \in Key /\ File(i).text \in Text
  BY <1>1, FileType
<1>3. [status |-> "draft", text |-> File(i).text] \in Row
  BY <1>2 DEF Row
<1>4. /\ item' \in [Key -> [Version -> ItemRow]]
      /\ item'[k][v] = [now |-> item[k][v].now, next |-> [status |-> "draft", text |-> File(i).text],
                        owner |-> i]
      /\ \A j \in Key, w \in Version : j # k \/ w # v => item'[j][w] = item[j][w]
  BY <1>1, <1>2, <1>3, LockRows
<1>5. /\ import' \in [Import -> ImportState] /\ import'[i].phase = "reading"
      /\ \A j \in Import \ {i} : import'[j] = import[j]
  BY <1>1, NextFileType
<1>6. TypeOK'
  BY <1>1, <1>4, <1>5 DEF TypeOK
<1>7. QED
  BY <1>1, <1>2, <1>4, <1>5, <1>6

LEMMA EndImportType ==
  ASSUME TypeOK, NEW i \in Import, EndImport(i)
  PROVE  /\ import' \in [Import -> ImportState]
         /\ import'[i].phase = "ended"
         /\ \A j \in Import \ {i} : import'[j] = import[j]
<1>1. [import[i] EXCEPT !.phase = "ended"] \in ImportState
  BY DEF TypeOK, ImportState
<1>2. QED
  BY <1>1 DEF TypeOK, ImportState, EndImport

LEMMA CommitImportEffect ==
  ASSUME TypeOK, NEW i \in Import, CommitImport(i)
  PROVE  /\ TypeOK'
         /\ publication' = publication /\ serial' = serial
         /\ \A j \in Key, w \in Version :
              item'[j][w] = IF item[j][w].owner = i THEN Unlocked(item[j][w].next) ELSE item[j][w]
         /\ import'[i].phase = "ended"
         /\ \A j \in Import \ {i} : import'[j] = import[j]
<1>1. item' = AfterCommit(i) /\ EndImport(i) /\ publication' = publication /\ serial' = serial
  BY DEF CommitImport
<1>2. QED
  BY <1>1, CommitRows, EndImportType DEF TypeOK

LEMMA AbortImportEffect ==
  ASSUME TypeOK, NEW i \in Import, InsertFails(i) \/ AbortImport(i)
  PROVE  /\ TypeOK'
         /\ publication' = publication /\ serial' = serial
         /\ \A j \in Key, w \in Version :
              item'[j][w] = IF item[j][w].owner = i THEN Unlocked(item[j][w].now) ELSE item[j][w]
         /\ import'[i].phase = "ended"
         /\ \A j \in Import \ {i} : import'[j] = import[j]
<1>1. item' = AfterRollback(i) /\ EndImport(i) /\ publication' = publication /\ serial' = serial
  BY DEF InsertFails, AbortImport
<1>2. QED
  BY <1>1, RollbackRows, EndImportType DEF TypeOK

-----------------------------------------------------------------------------
(***************************************************************************)
(* What no step of a call does to the others: their rows stay, and no      *)
(* version goes.                                                           *)
(***************************************************************************)
OthersKept(c) ==
  /\ serial' = serial
  /\ \A q \in Publication \ {c} : publication'[q] = publication[q]
  /\ \A j \in Import \ {c} : import'[j] = import[j]
  /\ \A k \in Key, v \in Version :
       /\ item[k][v].owner \notin {None, c} => item'[k][v] = item[k][v]
       /\ item'[k][v].owner \in {item[k][v].owner, c, None}
       /\ item[k][v].now.status # "absent" => item'[k][v].now.status # "absent"

PublicationStep(p) ==
  \/ \E k \in Key, v \in Version : SelectItem(p, k, v)
  \/ LockItem(p)
  \/ \E w \in Version : ArchiveItem(p, w)
  \/ PublishItem(p)
  \/ AbortPublication(p)

ImportStep(i) ==
  \/ BeginImport(i)
  \/ SelectLatest(i)
  \/ LockLatest(i)
  \/ InsertDraft(i)
  \/ InsertFails(i)
  \/ CommitImport(i)
  \/ AbortImport(i)

\* No committed or uncommitted change removes a version.
LEMMA NoVersionGoes ==
  ASSUME TypeOK, ChangesAllowed, NEW k \in Key, NEW v \in Version,
         item[k][v].now.status # "absent"
  PROVE  item[k][v].next.status # "absent"
<1>1. ChangeAllowed(k, v) /\ item[k][v].owner \in Call \cup {None} /\ item[k][v].now \in Row
  BY RowTypes DEF ChangesAllowed
<1>2. QED
  BY <1>1, RowValues DEF ChangeAllowed

LEMMA PublicationKeepsOthers ==
  ASSUME TypeOK, KnowledgeRules, NEW p \in Publication, PublicationStep(p)
  PROVE  TypeOK' /\ OthersKept(p)
<1>0. PublicationsLock
  BY DEF KnowledgeRules
<1> USE DEF OthersKept
<1>1. ASSUME NEW k \in Key, NEW v \in Version, SelectItem(p, k, v)
      PROVE  TypeOK' /\ OthersKept(p)
  BY <1>1, SelectEffect
<1>2. CASE LockItem(p)
  <2>0. PICK k \in Key, v \in Version : k = publication[p].key /\ v = publication[p].version
    BY <1>0, <1>2 DEF PublicationsLock, LockItem
  <2>1. /\ TypeOK' /\ import' = import /\ serial' = serial
        /\ k \in Key /\ v \in Version
        /\ item[k][v].owner \in {None, p}
        /\ item'[k][v].now = item[k][v].now /\ item'[k][v].owner = p
        /\ \A j \in Key, w \in Version : j # k \/ w # v => item'[j][w] = item[j][w]
        /\ \A q \in Publication \ {p} : publication'[q] = publication[q]
    BY <1>2, <1>0, <2>0, LockEffect
  <2>2. QED
    BY <2>1
<1>3. ASSUME NEW w \in Version, ArchiveItem(p, w)
      PROVE  TypeOK' /\ OthersKept(p)
  <2>0. PICK k \in Key : k = publication[p].key
    BY <1>0, <1>3 DEF PublicationsLock, ArchiveItem
  <2>1. /\ TypeOK' /\ import' = import /\ serial' = serial
        /\ item[k][w].owner \in {None, p}
        /\ item'[k][w].now = item[k][w].now
        /\ item[k][w].now.status = "published" => item'[k][w].owner = p
        /\ item[k][w].now.status # "published" => item'[k][w] = item[k][w]
        /\ \A j \in Key, u \in Version : j # k \/ u # w => item'[j][u] = item[j][u]
        /\ \A q \in Publication \ {p} : publication'[q] = publication[q]
    BY <1>3, <1>0, <2>0, ArchiveEffect
  <2>2. QED
    BY <2>1
<1>4. CASE PublishItem(p)
  <2>0. PICK k \in Key, v \in Version : k = publication[p].key /\ v = publication[p].version
    BY <1>0, <1>4 DEF PublicationsLock, PublishItem
  <2>1. /\ TypeOK'
        /\ import' = import /\ serial' = serial
        /\ k \in Key /\ v \in Version
        /\ publication[p].phase = "archiving"
        /\ item'[k][v] = Unlocked(Published(item[k][v].next))
        /\ \A j \in Key, w \in Version : j # k \/ w # v =>
             item'[j][w] = IF item[j][w].owner = p THEN Unlocked(item[j][w].next) ELSE item[j][w]
        /\ \A q \in Publication \ {p} : publication'[q] = publication[q]
    BY <1>4, <1>0, <2>0, PublishEffect
  <2>2. item[k][v].owner = p
    BY <2>0, <2>1 DEF KnowledgeRules, PublicationsLock
  <2>3. \A j \in Key, w \in Version :
          item[j][w].now.status # "absent" => item[j][w].next.status # "absent"
    BY NoVersionGoes DEF KnowledgeRules
  <2>4. item'[k][v].owner = None /\ item'[k][v].now.status = "published"
    BY <2>1, RowTypes, RowValues
  <2>5. ASSUME NEW j \in Key, NEW w \in Version, j # k \/ w # v
        PROVE  /\ item[j][w].owner \notin {None, p} => item'[j][w] = item[j][w]
               /\ item'[j][w].owner \in {item[j][w].owner, p, None}
               /\ item[j][w].now.status # "absent" => item'[j][w].now.status # "absent"
    BY <2>1, <2>3, <2>5, RowTypes, RowValues
  <2>6. QED
    BY <2>1, <2>2, <2>4, <2>5
<1>5. CASE AbortPublication(p)
  <2>1. /\ TypeOK' /\ import' = import /\ serial' = serial
        /\ \A j \in Key, w \in Version :
             item'[j][w] = IF item[j][w].owner = p THEN Unlocked(item[j][w].now) ELSE item[j][w]
        /\ \A q \in Publication \ {p} : publication'[q] = publication[q]
    BY <1>5, AbortPublicationEffect
  <2>2. ASSUME NEW k \in Key, NEW v \in Version
        PROVE  /\ item[k][v].owner \notin {None, p} => item'[k][v] = item[k][v]
               /\ item'[k][v].owner \in {item[k][v].owner, p, None}
               /\ item[k][v].now.status # "absent" => item'[k][v].now.status # "absent"
    BY <2>1, RowTypes, RowValues
  <2>3. QED
    BY <2>1, <2>2
<1>6. QED
  BY <1>1, <1>2, <1>3, <1>4, <1>5 DEF PublicationStep

LEMMA ImportKeepsOthers ==
  ASSUME TypeOK, KnowledgeRules, NEW i \in Import, ImportStep(i)
  PROVE  TypeOK' /\ OthersKept(i)
<1> USE DEF OthersKept
<1>1. CASE BeginImport(i)
  BY <1>1, BeginEffect
<1>2. CASE SelectLatest(i)
  BY <1>2, SelectLatestEffect
<1>3. CASE LockLatest(i)
  BY <1>3, LockLatestEffect DEF KnowledgeRules
<1>4. CASE InsertDraft(i)
  BY <1>4, InsertEffect DEF KnowledgeRules
<1>5. CASE CommitImport(i)
  <2>1. \A j \in Key, w \in Version :
          item[j][w].now.status # "absent" => item[j][w].next.status # "absent"
    BY NoVersionGoes DEF KnowledgeRules
  <2>2. /\ TypeOK' /\ publication' = publication /\ serial' = serial
        /\ \A j \in Key, w \in Version :
             item'[j][w] = IF item[j][w].owner = i THEN Unlocked(item[j][w].next) ELSE item[j][w]
        /\ \A j \in Import \ {i} : import'[j] = import[j]
    BY <1>5, CommitImportEffect
  <2>3. ASSUME NEW k \in Key, NEW v \in Version
        PROVE  /\ item[k][v].owner \notin {None, i} => item'[k][v] = item[k][v]
               /\ item'[k][v].owner \in {item[k][v].owner, i, None}
               /\ item[k][v].now.status # "absent" => item'[k][v].now.status # "absent"
    BY <2>1, <2>2, RowTypes, RowValues
  <2>4. QED
    BY <2>2, <2>3
<1>6. CASE InsertFails(i) \/ AbortImport(i)
  <2>1. /\ TypeOK' /\ publication' = publication /\ serial' = serial
        /\ \A j \in Key, w \in Version :
             item'[j][w] = IF item[j][w].owner = i THEN Unlocked(item[j][w].now) ELSE item[j][w]
        /\ \A j \in Import \ {i} : import'[j] = import[j]
    BY <1>6, AbortImportEffect
  <2>2. ASSUME NEW k \in Key, NEW v \in Version
        PROVE  /\ item[k][v].owner \notin {None, i} => item'[k][v] = item[k][v]
               /\ item'[k][v].owner \in {item[k][v].owner, i, None}
               /\ item[k][v].now.status # "absent" => item'[k][v].now.status # "absent"
    BY <2>1, RowTypes, RowValues
  <2>3. QED
    BY <2>1, <2>2
<1>7. QED
  BY <1>1, <1>2, <1>3, <1>4, <1>5, <1>6 DEF ImportStep

-----------------------------------------------------------------------------
(***************************************************************************)
(* Each part of KnowledgeRules after a step.                           *)
(***************************************************************************)

\* A call that is not the one taking the step keeps its part.
LEMMA OthersLock ==
  ASSUME TypeOK, PublicationsLock, NEW c \in Call, OthersKept(c), NEW q \in Publication, q # c
  PROVE  /\ publication'[q].phase \in {"selected", "archiving"} =>
              /\ publication'[q].key \in Key
              /\ publication'[q].version \in Version
              /\ item'[publication'[q].key][publication'[q].version].now.status # "absent"
         /\ publication'[q].phase = "archiving" =>
              /\ item'[publication'[q].key][publication'[q].version].owner = q
              /\ publication'[q].version \notin publication'[q].rest
<1>1. publication'[q] = publication[q]
  BY DEF OthersKept
<1>2. CASE publication[q].phase \notin {"selected", "archiving"}
  BY <1>1, <1>2
<1>3. CASE publication[q].phase \in {"selected", "archiving"}
  <2>1. PICK k \in Key, v \in Version : k = publication[q].key /\ v = publication[q].version
    BY <1>3 DEF PublicationsLock
  <2>2. item[k][v].now.status # "absent"
    BY <1>3, <2>1 DEF PublicationsLock
  <2>3. item'[k][v].now.status # "absent"
    BY <2>1, <2>2 DEF OthersKept
  <2>4. ASSUME publication[q].phase = "archiving"
        PROVE  item'[k][v].owner = q /\ v \notin publication[q].rest
    <3>1. item[k][v].owner = q /\ v \notin publication[q].rest
      BY <2>1, <2>4 DEF PublicationsLock
    <3>2. q # None
      BY KnowledgeAssumption
    <3>3. QED
      BY <2>1, <3>1, <3>2 DEF OthersKept
  <2>5. QED
    BY <1>1, <2>1, <2>3, <2>4
<1>4. QED
  BY <1>2, <1>3

LEMMA PublicationKeepsLocks ==
  ASSUME TypeOK, KnowledgeRules, NEW p \in Publication, PublicationStep(p), OthersKept(p)
  PROVE  PublicationsLock'
<1>0. PublicationsLock
  BY DEF KnowledgeRules
<1> DEFINE Holds(q) ==
      /\ publication'[q].phase \in {"selected", "archiving"} =>
           /\ publication'[q].key \in Key
           /\ publication'[q].version \in Version
           /\ item'[publication'[q].key][publication'[q].version].now.status # "absent"
      /\ publication'[q].phase = "archiving" =>
           /\ item'[publication'[q].key][publication'[q].version].owner = q
           /\ publication'[q].version \notin publication'[q].rest
<1>1. \A q \in Publication \ {p} : Holds(q)
  BY <1>0, OthersLock
<1>2. Holds(p)
  <2>1. ASSUME NEW k \in Key, NEW v \in Version, SelectItem(p, k, v)
        PROVE  Holds(p)
    <3>1. item[k][v].now.status # "absent"
      <4>1. item[k][v].owner # p
        <5>1. ChangeAllowed(k, v)
          BY DEF KnowledgeRules, ChangesAllowed
        <5>2. QED
          BY <2>1, <5>1 DEF ChangeAllowed, SelectItem
      <4>2. QED
        BY <2>1, <4>1 DEF SelectItem, Exists, Seen
    <3>2. QED
      BY <2>1, <3>1, SelectEffect
  <2>2. CASE LockItem(p)
    <3>1. PICK k \in Key, v \in Version : k = publication[p].key /\ v = publication[p].version
      BY <1>0, <2>2 DEF PublicationsLock, LockItem
    <3>2. item[k][v].now.status # "absent"
      BY <1>0, <2>2, <3>1 DEF PublicationsLock, LockItem
    <3>3. v \notin InForce(p, k, v)
      BY DEF InForce
    <3>4. /\ publication'[p].phase = "archiving" /\ publication'[p].key = k
          /\ publication'[p].version = v /\ publication'[p].rest = InForce(p, k, v)
          /\ item'[k][v].now = item[k][v].now /\ item'[k][v].owner = p
      BY <1>0, <2>2, <3>1, LockEffect
    <3>5. QED
      BY <3>2, <3>3, <3>4
  <2>3. ASSUME NEW w \in Version, ArchiveItem(p, w)
        PROVE  Holds(p)
    <3>1. PICK k \in Key, v \in Version : k = publication[p].key /\ v = publication[p].version
      BY <1>0, <2>3 DEF PublicationsLock, ArchiveItem
    <3>2. /\ publication[p].phase = "archiving" /\ w \in publication[p].rest
          /\ item[k][v].now.status # "absent"
          /\ item[k][v].owner = p /\ v \notin publication[p].rest
      BY <1>0, <2>3, <3>1 DEF PublicationsLock, ArchiveItem
    <3>3. v # w /\ item'[k][v] = item[k][v]
      BY <1>0, <2>3, <3>1, <3>2, ArchiveEffect
    <3>4. /\ publication'[p].phase = "archiving" /\ publication'[p].key = k
          /\ publication'[p].version = v /\ publication'[p].rest = publication[p].rest \ {w}
      BY <1>0, <2>3, <3>1, <3>2, ArchiveEffect
    <3>5. QED
      BY <3>1, <3>2, <3>3, <3>4
  <2>4. CASE PublishItem(p)
    <3>1. PICK k \in Key, v \in Version : k = publication[p].key /\ v = publication[p].version
      BY <1>0, <2>4 DEF PublicationsLock, PublishItem
    <3>2. publication'[p].phase = "ended"
      BY <1>0, <2>4, <3>1, PublishEffect
    <3>3. QED
      BY <3>2
  <2>5. CASE AbortPublication(p)
    BY <2>5, AbortPublicationEffect
  <2>6. QED
    BY <2>1, <2>2, <2>3, <2>4, <2>5 DEF PublicationStep
<1>3. \A q \in Publication : Holds(q)
  BY <1>1, <1>2
<1>4. QED
  BY <1>3 DEF PublicationsLock

LEMMA ImportKeepsLocks ==
  ASSUME TypeOK, KnowledgeRules, NEW i \in Import, OthersKept(i)
  PROVE  PublicationsLock'
<1>1. PublicationsLock
  BY DEF KnowledgeRules
<1>2. \A q \in Publication : q # i
  BY KnowledgeAssumption
<1>3. \A q \in Publication :
        /\ publication'[q].phase \in {"selected", "archiving"} =>
             /\ publication'[q].key \in Key
             /\ publication'[q].version \in Version
             /\ item'[publication'[q].key][publication'[q].version].now.status # "absent"
        /\ publication'[q].phase = "archiving" =>
             /\ item'[publication'[q].key][publication'[q].version].owner = q
             /\ publication'[q].version \notin publication'[q].rest
  BY <1>1, <1>2, OthersLock
<1>4. QED
  BY <1>3 DEF PublicationsLock

\* What an import that takes no step has selected still exists for it.
LEMMA OthersSelect ==
  ASSUME TypeOK, ImportsSelect, NEW c \in Call, OthersKept(c), NEW i \in Import, i # c
  PROVE  /\ import'[i].phase \in {"selected", "inserting"} => MoreFiles(i)'
         /\ import'[i].phase = "selected" =>
              import'[i].version \in Version /\ Exists(i, File(i).key, import[i].version)'
<1>1. import'[i] = import[i]
  BY DEF OthersKept
<1>2. MoreFiles(i)' <=> MoreFiles(i)
  BY <1>1 DEF MoreFiles
<1>3. ASSUME import[i].phase = "selected"
      PROVE  import'[i].version \in Version /\ Exists(i, File(i).key, import[i].version)'
  <2>1. /\ MoreFiles(i) /\ import[i].version \in Version
        /\ Exists(i, File(i).key, import[i].version)
    BY <1>3 DEF ImportsSelect
  <2>2. File(i)' = File(i)
    BY <1>1 DEF File
  <2>3. PICK k \in Key, v \in Version : k = File(i).key /\ v = import[i].version
    BY <2>1, FileType
  <2>4. i # None
    BY KnowledgeAssumption
  <2>5. CASE item[k][v].owner = i
    <3>1. item'[k][v] = item[k][v]
      BY <2>3, <2>4, <2>5 DEF OthersKept
    <3>2. QED
      BY <1>1, <2>1, <2>2, <2>3, <2>5, <3>1 DEF Exists, Seen
  <2>6. CASE item[k][v].owner # i
    <3>1. item[k][v].now.status # "absent"
      BY <2>1, <2>3, <2>6 DEF Exists, Seen
    <3>2. item'[k][v].now.status # "absent" /\ item'[k][v].owner # i
      BY <2>3, <2>4, <2>6, <3>1 DEF OthersKept
    <3>3. QED
      BY <1>1, <2>1, <2>2, <2>3, <3>2 DEF Exists, Seen
  <2>7. QED
    BY <2>5, <2>6
<1>4. QED
  BY <1>1, <1>2, <1>3 DEF ImportsSelect

LEMMA PublicationKeepsSelected ==
  ASSUME TypeOK, KnowledgeRules, NEW p \in Publication, OthersKept(p)
  PROVE  ImportsSelect'
<1>1. ImportsSelect
  BY DEF KnowledgeRules
<1>2. \A i \in Import : i # p
  BY KnowledgeAssumption
<1>3. QED
  BY <1>1, <1>2, OthersSelect DEF ImportsSelect

LEMMA ImportKeepsSelected ==
  ASSUME TypeOK, KnowledgeRules, NEW i \in Import, ImportStep(i), OthersKept(i)
  PROVE  ImportsSelect'
<1>0. ImportsSelect
  BY DEF KnowledgeRules
<1> DEFINE Holds(j) ==
      /\ import'[j].phase \in {"selected", "inserting"} => MoreFiles(j)'
      /\ import'[j].phase = "selected" =>
           import'[j].version \in Version /\ Exists(j, File(j).key, import[j].version)'
<1>1. \A j \in Import \ {i} : Holds(j)
  BY <1>0, OthersSelect
<1>2. Holds(i)
  <2>1. CASE BeginImport(i)
    BY <2>1, BeginEffect
  <2>2. CASE SelectLatest(i)
    <3>1. /\ item' = item /\ MoreFiles(i) /\ import'[i].file = import[i].file
          /\ \/ import'[i].phase = "inserting"
             \/ /\ import'[i].phase = "selected"
                /\ import'[i].version \in Version
                /\ Exists(i, File(i).key, import'[i].version)
      BY <2>2, SelectLatestEffect
    <3>2. File(i)' = File(i) /\ MoreFiles(i)'
      BY <3>1 DEF File, MoreFiles
    <3>3. QED
      BY <3>1, <3>2 DEF Exists, Seen
  <2>3. CASE LockLatest(i)
    <3>1. MoreFiles(i) /\ import[i].version \in Version /\ import[i].phase = "selected"
      BY <1>0, <2>3 DEF ImportsSelect, LockLatest
    <3>2. PICK k \in Key, v \in Version : k = File(i).key /\ v = import[i].version
      BY <3>1, FileType
    <3>3. import'[i].phase = "reading" \/
            (import'[i].phase = "inserting" /\ import'[i].file = import[i].file)
      BY <1>0, <2>3, <3>2, LockLatestEffect
    <3>4. QED
      BY <3>1, <3>3 DEF MoreFiles
  <2>4. CASE InsertDraft(i)
    <3>1. MoreFiles(i) /\ import[i].version \in Version
      BY <1>0, <2>4 DEF ImportsSelect, InsertDraft
    <3>2. PICK k \in Key, v \in Version : k = File(i).key /\ v = import[i].version
      BY <3>1, FileType
    <3>3. import'[i].phase = "reading"
      BY <1>0, <2>4, <3>2, InsertEffect
    <3>4. QED
      BY <3>3
  <2>5. CASE CommitImport(i)
    BY <2>5, CommitImportEffect
  <2>6. CASE InsertFails(i) \/ AbortImport(i)
    BY <2>6, AbortImportEffect
  <2>7. QED
    BY <2>1, <2>2, <2>3, <2>4, <2>5, <2>6 DEF ImportStep
<1>3. QED
  BY <1>1, <1>2 DEF ImportsSelect

LEMMA PublicationKeepsOnePublication ==
  ASSUME TypeOK, KnowledgeRules, NEW p \in Publication, PublicationStep(p), OthersKept(p)
  PROVE  OnePublication'
<1>1. SUFFICES ASSUME serial, NEW q \in Publication, NEW r \in Publication, NEW k \in Key,
                      Publishing(q, k)', Publishing(r, k)'
               PROVE  q = r
  BY DEF OnePublication, OthersKept
<1>2. \A s \in Publication \ {p} : Publishing(s, k)' => Publishing(s, k)
  BY DEF Publishing, OthersKept
<1>3. OnePublication /\ PublicationsLock
  BY DEF KnowledgeRules
<1>4. CASE Publishing(p, k)
  BY <1>1, <1>2, <1>3, <1>4 DEF OnePublication
<1>5. CASE ~Publishing(p, k)
  <2>1. ASSUME Publishing(p, k)'
        PROVE  \A s \in Publication \ {p} : ~Publishing(s, k)
    <3>1. ASSUME NEW j \in Key, NEW v \in Version, SelectItem(p, j, v)
          PROVE  \A s \in Publication \ {p} : ~Publishing(s, k)
      <4>1. j = k
        BY <2>1, <3>1, SelectEffect DEF Publishing
      <4>2. QED
        BY <1>1, <3>1, <4>1 DEF SelectItem
    <3>2. CASE LockItem(p)
      <4>1. PICK j \in Key, v \in Version : j = publication[p].key /\ v = publication[p].version
        BY <1>3, <3>2 DEF PublicationsLock, LockItem
      <4>2. publication'[p].key = publication[p].key /\ publication[p].phase = "selected"
        BY <1>3, <3>2, <4>1, LockEffect
      <4>3. QED
        BY <1>5, <2>1, <4>2 DEF Publishing
    <3>3. ASSUME NEW w \in Version, ArchiveItem(p, w)
          PROVE  \A s \in Publication \ {p} : ~Publishing(s, k)
      <4>1. PICK j \in Key : j = publication[p].key
        BY <1>3, <3>3 DEF PublicationsLock, ArchiveItem
      <4>2. publication'[p].key = publication[p].key /\ publication[p].phase = "archiving"
        BY <1>3, <3>3, <4>1, ArchiveEffect
      <4>3. QED
        BY <1>5, <2>1, <4>2 DEF Publishing
    <3>4. CASE PublishItem(p)
      <4>1. PICK j \in Key, v \in Version : j = publication[p].key /\ v = publication[p].version
        BY <1>3, <3>4 DEF PublicationsLock, PublishItem
      <4>2. publication'[p].phase = "ended"
        BY <1>3, <3>4, <4>1, PublishEffect
      <4>3. QED
        BY <2>1, <4>2 DEF Publishing
    <3>5. CASE AbortPublication(p)
      BY <2>1, <3>5, AbortPublicationEffect DEF Publishing
    <3>6. QED
      BY <3>1, <3>2, <3>3, <3>4, <3>5 DEF PublicationStep
  <2>2. QED
    BY <1>1, <1>2, <1>3, <2>1 DEF OnePublication
<1>6. QED
  BY <1>4, <1>5

LEMMA ImportKeepsOnePublication ==
  ASSUME TypeOK, KnowledgeRules, NEW i \in Import, OthersKept(i)
  PROVE  OnePublication'
<1>1. \A p \in Publication : publication'[p] = publication[p]
  BY KnowledgeAssumption DEF OthersKept
<1>2. \A p \in Publication, k \in Key : Publishing(p, k)' <=> Publishing(p, k)
  BY <1>1 DEF Publishing
<1>3. QED
  BY <1>2 DEF KnowledgeRules, OnePublication, OthersKept

\* A row that a step leaves alone stays as its owner may have left it.
LEMMA KeptRowAllowed ==
  ASSUME TypeOK, NEW c \in Call, OthersKept(c), NEW k \in Key, NEW v \in Version,
         ChangeAllowed(k, v), item[k][v].owner # c, item'[k][v] = item[k][v]
  PROVE  ChangeAllowed(k, v)'
<1>1. /\ item[k][v].owner \in Publication =>
           publication'[item[k][v].owner] = publication[item[k][v].owner]
      /\ item[k][v].owner \in Import =>
           import'[item[k][v].owner] = import[item[k][v].owner]
  BY DEF OthersKept
<1>2. QED
  BY <1>1 DEF ChangeAllowed

\* A row without a lock has nothing to hide.
LEMMA UnlockedAllowed ==
  ASSUME NEW k \in Key, NEW v \in Version, item'[k][v].owner = None,
         item'[k][v].next = item'[k][v].now,
         item'[k][v].now.status = "absent" <=> item'[k][v].now.text = None
  PROVE  ChangeAllowed(k, v)'
BY KnowledgeAssumption DEF ChangeAllowed

\* A call that has not begun, or has only selected its item, owns no row.
LEMMA OwnsNothing ==
  ASSUME ChangesAllowed, NEW k \in Key, NEW v \in Version
  PROVE  /\ \A p \in Publication :
              publication[p].phase # "archiving" => item[k][v].owner # p
         /\ \A i \in Import : import[i].phase = "new" => item[k][v].owner # i
BY DEF ChangesAllowed, ChangeAllowed

LEMMA PublicationKeepsChanges ==
  ASSUME TypeOK, KnowledgeRules, NEW p \in Publication, PublicationStep(p), OthersKept(p)
  PROVE  ChangesAllowed'
<1>0. PublicationsLock /\ ChangesAllowed
  BY DEF KnowledgeRules
<1>1. SUFFICES ASSUME NEW j \in Key, NEW u \in Version
               PROVE  ChangeAllowed(j, u)'
  BY DEF ChangesAllowed
<1>2. ChangeAllowed(j, u)
  BY <1>0 DEF ChangesAllowed
<1>a. p \notin Import /\ p # None
  BY KnowledgeAssumption
<1>3. ASSUME NEW k \in Key, NEW v \in Version, SelectItem(p, k, v)
      PROVE  ChangeAllowed(j, u)'
  <2>1. item' = item /\ publication[p].phase = "new"
    BY <1>3, SelectEffect
  <2>2. QED
    BY <1>0, <1>2, <2>1, OwnsNothing, KeptRowAllowed
<1>4. CASE LockItem(p)
  <2>1. PICK k \in Key, v \in Version : k = publication[p].key /\ v = publication[p].version
    BY <1>0, <1>4 DEF PublicationsLock, LockItem
  <2>2. /\ publication[p].phase = "selected"
        /\ item'[k][v].now = item[k][v].now /\ item'[k][v].next = item[k][v].now
        /\ item'[k][v].owner = p
        /\ \A l \in Key, w \in Version : l # k \/ w # v => item'[l][w] = item[l][w]
        /\ publication'[p].phase = "archiving" /\ publication'[p].key = k
        /\ publication'[p].version = v
    BY <1>0, <1>4, <2>1, LockEffect
  <2>3. CASE j = k /\ u = v
    BY <1>2, <1>a, <2>2, <2>3 DEF ChangeAllowed
  <2>4. CASE j # k \/ u # v
    BY <1>0, <1>2, <2>2, <2>4, OwnsNothing, KeptRowAllowed
  <2>5. QED
    BY <2>3, <2>4
<1>5. ASSUME NEW w \in Version, ArchiveItem(p, w)
      PROVE  ChangeAllowed(j, u)'
  <2>1. PICK k \in Key, v \in Version : k = publication[p].key /\ v = publication[p].version
    BY <1>0, <1>5 DEF PublicationsLock, ArchiveItem
  <2>2. /\ publication[p].phase = "archiving" /\ w \in publication[p].rest
        /\ item'[k][w].now = item[k][w].now
        /\ item[k][w].now.status = "published" =>
             item'[k][w].next = Archived(item[k][w].now) /\ item'[k][w].owner = p
        /\ item[k][w].now.status # "published" => item'[k][w] = item[k][w]
        /\ \A l \in Key, x \in Version : l # k \/ x # w => item'[l][x] = item[l][x]
        /\ publication'[p].phase = "archiving" /\ publication'[p].key = k
        /\ publication'[p].version = v
    BY <1>0, <1>5, <2>1, ArchiveEffect
  <2>3. v # w
    BY <1>0, <2>1, <2>2 DEF PublicationsLock
  <2>4. CASE j = k /\ u = w /\ item[k][w].now.status = "published"
    <3>1. /\ item'[k][w].next.status = "archived"
          /\ item'[k][w].next.text = item[k][w].now.text
      BY <2>2, <2>4, RowTypes, RowValues
    <3>2. QED
      BY <1>2, <1>a, <2>2, <2>3, <2>4, <3>1 DEF ChangeAllowed
  <2>5. CASE item'[j][u] = item[j][u] /\ item[j][u].owner = p
    BY <1>2, <1>a, <2>1, <2>2, <2>5 DEF ChangeAllowed
  <2>6. CASE item'[j][u] = item[j][u] /\ item[j][u].owner # p
    BY <1>2, <2>6, KeptRowAllowed
  <2>7. QED
    BY <2>2, <2>4, <2>5, <2>6
<1>6. CASE PublishItem(p)
  <2>1. PICK k \in Key, v \in Version : k = publication[p].key /\ v = publication[p].version
    BY <1>0, <1>6 DEF PublicationsLock, PublishItem
  <2>2. /\ item'[k][v] = Unlocked(Published(item[k][v].next))
        /\ \A l \in Key, w \in Version : l # k \/ w # v =>
             item'[l][w] = IF item[l][w].owner = p THEN Unlocked(item[l][w].next) ELSE item[l][w]
    BY <1>0, <1>6, <2>1, PublishEffect
  <2>3. CASE j = k /\ u = v
    <3>1. item[k][v].now.status # "absent"
      BY <1>0, <1>6, <2>1 DEF PublicationsLock, PublishItem
    <3>2. item[k][v].next.text # None
      BY <1>0, <1>2, <2>3, <3>1, NoVersionGoes DEF ChangeAllowed
    <3>3. /\ item'[k][v].owner = None /\ item'[k][v].next = item'[k][v].now
          /\ item'[k][v].now.status = "published" /\ item'[k][v].now.text # None
      BY <2>2, <3>2, RowTypes, RowValues
    <3>4. QED
      BY <2>3, <3>3, UnlockedAllowed
  <2>4. CASE (j # k \/ u # v) /\ item[j][u].owner = p
    <3>1. /\ item'[j][u].owner = None /\ item'[j][u].next = item[j][u].next
          /\ item'[j][u].now = item[j][u].next
      BY <2>2, <2>4, RowTypes, RowValues
    <3>2. QED
      BY <1>2, <3>1, UnlockedAllowed DEF ChangeAllowed
  <2>5. CASE (j # k \/ u # v) /\ item[j][u].owner # p
    BY <1>2, <2>2, <2>5, KeptRowAllowed
  <2>6. QED
    BY <2>3, <2>4, <2>5
<1>7. CASE AbortPublication(p)
  <2>1. item'[j][u] = IF item[j][u].owner = p THEN Unlocked(item[j][u].now) ELSE item[j][u]
    BY <1>7, AbortPublicationEffect
  <2>2. CASE item[j][u].owner = p
    <3>1. /\ item'[j][u].owner = None /\ item'[j][u].next = item[j][u].now
          /\ item'[j][u].now = item[j][u].now
      BY <2>1, <2>2, RowTypes, RowValues
    <3>2. QED
      BY <1>2, <3>1, UnlockedAllowed DEF ChangeAllowed
  <2>3. CASE item[j][u].owner # p
    BY <1>2, <2>1, <2>3, KeptRowAllowed
  <2>4. QED
    BY <2>2, <2>3
<1>8. QED
  BY <1>3, <1>4, <1>5, <1>6, <1>7 DEF PublicationStep

LEMMA ImportKeepsChanges ==
  ASSUME TypeOK, KnowledgeRules, NEW i \in Import, ImportStep(i), OthersKept(i)
  PROVE  ChangesAllowed'
<1>0. ImportsSelect /\ ChangesAllowed
  BY DEF KnowledgeRules
<1>1. SUFFICES ASSUME NEW j \in Key, NEW u \in Version
               PROVE  ChangeAllowed(j, u)'
  BY DEF ChangesAllowed
<1>2. ChangeAllowed(j, u)
  BY <1>0 DEF ChangesAllowed
<1>a. i \notin Publication /\ i # None
  BY KnowledgeAssumption
\* A row of its own that a step of an import which goes on leaves alone
<1>b. ASSUME item'[j][u] = item[j][u], item[j][u].owner = i,
             import'[i].phase \in {"reading", "selected", "inserting"}
      PROVE  ChangeAllowed(j, u)'
  BY <1>2, <1>a, <1>b DEF ChangeAllowed
<1>3. CASE BeginImport(i)
  <2>1. item' = item /\ import[i].phase = "new"
    BY <1>3, BeginEffect
  <2>2. QED
    BY <1>0, <1>2, <2>1, OwnsNothing, KeptRowAllowed
<1>4. CASE SelectLatest(i)
  <2>1. item' = item /\ import'[i].phase \in {"selected", "inserting"}
    BY <1>4, SelectLatestEffect
  <2>2. QED
    BY <1>2, <1>b, <2>1, KeptRowAllowed
<1>5. CASE LockLatest(i)
  <2>1. MoreFiles(i) /\ import[i].version \in Version
    BY <1>0, <1>5 DEF ImportsSelect, LockLatest
  <2>2. PICK k \in Key, v \in Version : k = File(i).key /\ v = import[i].version
    BY <2>1, FileType
  <2>3. /\ item[k][v].owner \in {None, i}
        /\ item'[k][v].now = item[k][v].now /\ item'[k][v].owner = i
        /\ \/ item'[k][v].next = Seen(i, k, v)
           \/ /\ Seen(i, k, v).status = "draft"
              /\ item'[k][v].next.status = "draft" /\ item'[k][v].next.text \in Text
        /\ \A l \in Key, w \in Version : l # k \/ w # v => item'[l][w] = item[l][w]
        /\ import'[i].phase \in {"reading", "inserting"}
    BY <1>0, <1>5, <2>2, LockLatestEffect
  <2>4. CASE j = k /\ u = v
    <3>1. item'[k][v].next.text \in Text => item'[k][v].next.text # None
      BY KnowledgeAssumption
    <3>2. QED
      BY <1>2, <1>a, <2>3, <2>4, <3>1 DEF ChangeAllowed, Seen
  <2>5. CASE j # k \/ u # v
    BY <1>2, <1>b, <2>3, <2>5, KeptRowAllowed
  <2>6. QED
    BY <2>4, <2>5
<1>6. CASE InsertDraft(i)
  <2>1. MoreFiles(i) /\ import[i].version \in Version
    BY <1>0, <1>6 DEF ImportsSelect, InsertDraft
  <2>2. PICK k \in Key, v \in Version : k = File(i).key /\ v = import[i].version
    BY <2>1, FileType
  <2>3. /\ item[k][v].now.status = "absent"
        /\ item'[k][v].now = item[k][v].now /\ item'[k][v].owner = i
        /\ item'[k][v].next.status = "draft" /\ item'[k][v].next.text \in Text
        /\ \A l \in Key, w \in Version : l # k \/ w # v => item'[l][w] = item[l][w]
        /\ import'[i].phase = "reading"
    BY <1>0, <1>6, <2>2, InsertEffect
  <2>4. CASE j = k /\ u = v
    <3>1. item'[k][v].next.text # None
      BY <2>3, KnowledgeAssumption
    <3>2. QED
      BY <1>2, <1>a, <2>3, <2>4, <3>1 DEF ChangeAllowed
  <2>5. CASE j # k \/ u # v
    BY <1>2, <1>b, <2>3, <2>5, KeptRowAllowed
  <2>6. QED
    BY <2>4, <2>5
<1>7. CASE CommitImport(i)
  <2>1. item'[j][u] = IF item[j][u].owner = i THEN Unlocked(item[j][u].next) ELSE item[j][u]
    BY <1>7, CommitImportEffect
  <2>2. CASE item[j][u].owner = i
    <3>1. /\ item'[j][u].owner = None /\ item'[j][u].next = item[j][u].next
          /\ item'[j][u].now = item[j][u].next
      BY <2>1, <2>2, RowTypes, RowValues
    <3>2. QED
      BY <1>2, <3>1, UnlockedAllowed DEF ChangeAllowed
  <2>3. CASE item[j][u].owner # i
    BY <1>2, <2>1, <2>3, KeptRowAllowed
  <2>4. QED
    BY <2>2, <2>3
<1>8. CASE InsertFails(i) \/ AbortImport(i)
  <2>1. item'[j][u] = IF item[j][u].owner = i THEN Unlocked(item[j][u].now) ELSE item[j][u]
    BY <1>8, AbortImportEffect
  <2>2. CASE item[j][u].owner = i
    <3>1. /\ item'[j][u].owner = None /\ item'[j][u].next = item[j][u].now
          /\ item'[j][u].now = item[j][u].now
      BY <2>1, <2>2, RowTypes, RowValues
    <3>2. QED
      BY <1>2, <3>1, UnlockedAllowed DEF ChangeAllowed
  <2>3. CASE item[j][u].owner # i
    BY <1>2, <2>1, <2>3, KeptRowAllowed
  <2>4. QED
    BY <2>2, <2>3
<1>9. QED
  BY <1>3, <1>4, <1>5, <1>6, <1>7, <1>8 DEF ImportStep

\* What RestIsInForce says of version w of the key of publication p
LEMMA RestOf ==
  ASSUME RestIsInForce, serial, NEW p \in Publication, publication[p].phase = "archiving",
         NEW k \in Key, k = publication[p].key,
         NEW w \in Version, w # publication[p].version, item[k][w].now.status = "published"
  PROVE  w \in publication[p].rest \/ (item[k][w].owner = p /\ item[k][w].next.status = "archived")
BY DEF RestIsInForce

\* A publication that takes no step has seen to what was in force of its key.
LEMMA OthersRest ==
  ASSUME TypeOK, RestIsInForce, serial, NEW c \in Call, OthersKept(c),
         NEW q \in Publication, q # c, publication'[q].phase = "archiving",
         NEW k \in Key, k = publication'[q].key,
         NEW w \in Version, w # publication'[q].version,
         item[k][w].now.status = "published"
  PROVE  w \in publication'[q].rest
           \/ (item'[k][w].owner = q /\ item'[k][w].next.status = "archived")
<1>1. publication'[q] = publication[q]
  BY DEF OthersKept
<1>2. w \in publication[q].rest \/ (item[k][w].owner = q /\ item[k][w].next.status = "archived")
  BY <1>1, RestOf
<1>3. q # None
  BY KnowledgeAssumption
<1>4. QED
  BY <1>1, <1>2, <1>3 DEF OthersKept

LEMMA ImportKeepsPublished ==
  ASSUME TypeOK, KnowledgeRules, NEW i \in Import, ImportStep(i),
         NEW k \in Key, NEW w \in Version
  PROVE  /\ item'[k][w].now.status = "published" <=> item[k][w].now.status = "published"
         /\ item[k][w].now.status \in {"published", "archived"} =>
              item'[k][w].now = item[k][w].now
         /\ item'[k][w].now.status \in {"published", "archived"} =>
              item'[k][w].now = item[k][w].now
<1>0. ImportsSelect /\ ChangesAllowed
  BY DEF KnowledgeRules
<1>1. CASE BeginImport(i)
  BY <1>1, BeginEffect
<1>2. CASE SelectLatest(i)
  BY <1>2, SelectLatestEffect
<1>3. CASE LockLatest(i)
  <2>1. MoreFiles(i) /\ import[i].version \in Version
    BY <1>0, <1>3 DEF ImportsSelect, LockLatest
  <2>2. PICK j \in Key, v \in Version : j = File(i).key /\ v = import[i].version
    BY <2>1, FileType
  <2>3. /\ item'[j][v].now = item[j][v].now
        /\ \A l \in Key, u \in Version : l # j \/ u # v => item'[l][u] = item[l][u]
    BY <1>0, <1>3, <2>2, LockLatestEffect
  <2>4. QED
    BY <2>3
<1>4. CASE InsertDraft(i)
  <2>1. MoreFiles(i) /\ import[i].version \in Version
    BY <1>0, <1>4 DEF ImportsSelect, InsertDraft
  <2>2. PICK j \in Key, v \in Version : j = File(i).key /\ v = import[i].version
    BY <2>1, FileType
  <2>3. /\ item'[j][v].now = item[j][v].now
        /\ \A l \in Key, u \in Version : l # j \/ u # v => item'[l][u] = item[l][u]
    BY <1>0, <1>4, <2>2, InsertEffect
  <2>4. QED
    BY <2>3
<1>5. CASE CommitImport(i)
  <2>1. item'[k][w] = IF item[k][w].owner = i THEN Unlocked(item[k][w].next) ELSE item[k][w]
    BY <1>5, CommitImportEffect
  <2>2. CASE item[k][w].owner = i
    <3>1. ChangeAllowed(k, w) /\ i # None /\ i \notin Publication
      BY <1>0, KnowledgeAssumption DEF ChangesAllowed
    <3>2. item'[k][w].now = item[k][w].next
      BY <2>1, <2>2, RowTypes, RowValues
    <3>3. \/ item[k][w].next = item[k][w].now
          \/ item[k][w].now.status \in {"absent", "draft"} /\ item[k][w].next.status = "draft"
      BY <2>2, <3>1 DEF ChangeAllowed
    <3>4. QED
      BY <3>2, <3>3
  <2>3. CASE item[k][w].owner # i
    BY <2>1, <2>3
  <2>4. QED
    BY <2>2, <2>3
<1>6. CASE InsertFails(i) \/ AbortImport(i)
  <2>1. item'[k][w] = IF item[k][w].owner = i THEN Unlocked(item[k][w].now) ELSE item[k][w]
    BY <1>6, AbortImportEffect
  <2>2. item'[k][w].now = item[k][w].now
    BY <2>1, RowTypes, RowValues
  <2>3. QED
    BY <2>2
<1>7. QED
  BY <1>1, <1>2, <1>3, <1>4, <1>5, <1>6 DEF ImportStep

\* Only PublishItem changes what is committed, and only of its own key.
LEMMA PublicationKeepsPublished ==
  ASSUME TypeOK, KnowledgeRules, NEW p \in Publication, PublicationStep(p),
         NEW k \in Key, NEW w \in Version, ~PublishItem(p) \/ k # publication[p].key
  PROVE  item'[k][w].now = item[k][w].now
<1>0. PublicationsLock /\ ChangesAllowed
  BY DEF KnowledgeRules
<1>1. ASSUME NEW j \in Key, NEW v \in Version, SelectItem(p, j, v)
      PROVE  item'[k][w].now = item[k][w].now
  BY <1>1, SelectEffect
<1>2. CASE LockItem(p)
  <2>1. PICK j \in Key, v \in Version : j = publication[p].key /\ v = publication[p].version
    BY <1>0, <1>2 DEF PublicationsLock, LockItem
  <2>2. /\ item'[j][v].now = item[j][v].now
        /\ \A l \in Key, u \in Version : l # j \/ u # v => item'[l][u] = item[l][u]
    BY <1>0, <1>2, <2>1, LockEffect
  <2>3. QED
    BY <2>2
<1>3. ASSUME NEW x \in Version, ArchiveItem(p, x)
      PROVE  item'[k][w].now = item[k][w].now
  <2>1. PICK j \in Key : j = publication[p].key
    BY <1>0, <1>3 DEF PublicationsLock, ArchiveItem
  <2>2. /\ item'[j][x].now = item[j][x].now
        /\ \A l \in Key, u \in Version : l # j \/ u # x => item'[l][u] = item[l][u]
    BY <1>0, <1>3, <2>1, ArchiveEffect
  <2>3. QED
    BY <2>2
<1>4. CASE PublishItem(p)
  <2>1. PICK j \in Key, v \in Version : j = publication[p].key /\ v = publication[p].version
    BY <1>0, <1>4 DEF PublicationsLock, PublishItem
  <2>2. \A l \in Key, u \in Version : l # j \/ u # v =>
          item'[l][u] = IF item[l][u].owner = p THEN Unlocked(item[l][u].next) ELSE item[l][u]
    BY <1>0, <1>4, <2>1, PublishEffect
  <2>3. item[k][w].owner # p
    <3>1. ChangeAllowed(k, w)
      BY <1>0 DEF ChangesAllowed
    <3>2. QED
      BY <1>4, <3>1 DEF ChangeAllowed
  <2>4. QED
    BY <1>4, <2>1, <2>2, <2>3
<1>5. CASE AbortPublication(p)
  <2>1. item'[k][w] = IF item[k][w].owner = p THEN Unlocked(item[k][w].now) ELSE item[k][w]
    BY <1>5, AbortPublicationEffect
  <2>2. QED
    BY <2>1, RowTypes, RowValues
<1>6. QED
  BY <1>1, <1>2, <1>3, <1>4, <1>5 DEF PublicationStep

LEMMA PublicationKeepsRest ==
  ASSUME TypeOK, KnowledgeRules, NEW p \in Publication, PublicationStep(p), OthersKept(p),
         PublicationsLock'
  PROVE  RestIsInForce'
<1>0. PublicationsLock /\ ChangesAllowed /\ RestIsInForce /\ OnePublication
  BY DEF KnowledgeRules
<1>1. SUFFICES ASSUME serial, NEW q \in Publication, publication'[q].phase = "archiving",
                      NEW k \in Key, k = publication'[q].key,
                      NEW w \in Version, w # publication'[q].version,
                      item'[k][w].now.status = "published"
               PROVE  w \in publication'[q].rest
                        \/ (item'[k][w].owner = q /\ item'[k][w].next.status = "archived")
  BY DEF RestIsInForce, PublicationsLock, OthersKept
<1>2. CASE q # p
  <2>1. publication[q] = publication'[q]
    BY <1>2 DEF OthersKept
  <2>2. ~PublishItem(p) \/ k # publication[p].key
    <3>1. ~(PublishItem(p) /\ Publishing(p, k))
      BY <1>0, <1>1, <1>2, <2>1 DEF OnePublication, Publishing
    <3>2. QED
      BY <3>1 DEF PublishItem, Publishing
  <2>3. item'[k][w].now = item[k][w].now
    BY <2>2, PublicationKeepsPublished
  <2>4. item[k][w].now.status = "published"
    BY <1>1, <2>3
  <2>5. QED
    BY <1>0, <1>1, <1>2, <2>4, OthersRest
<1>3. CASE q = p
  <2>1. ASSUME NEW j \in Key, NEW v \in Version, SelectItem(p, j, v)
        PROVE  FALSE
    BY <1>1, <1>3, <2>1, SelectEffect
  <2>2. CASE LockItem(p)
    <3>1. PICK j \in Key, v \in Version : j = publication[p].key /\ v = publication[p].version
      BY <1>0, <2>2 DEF PublicationsLock, LockItem
    <3>2. /\ publication[p].phase = "selected"
          /\ \A l \in Key, u \in Version : l # j \/ u # v => item'[l][u] = item[l][u]
          /\ publication'[p].key = j
          /\ publication'[p].version = v /\ publication'[p].rest = InForce(p, j, v)
      BY <1>0, <2>2, <3>1, LockEffect
    <3>3. item[k][w].owner # p /\ item[k][w].now.status = "published" /\ w # v /\ k = j
      BY <1>0, <1>1, <1>3, <3>2, OwnsNothing
    <3>4. w \in InForce(p, j, v)
      BY <3>3 DEF InForce, Seen
    <3>5. QED
      BY <1>3, <3>2, <3>4
  <2>3. ASSUME NEW x \in Version, ArchiveItem(p, x)
        PROVE  w \in publication'[p].rest
                 \/ (item'[k][w].owner = p /\ item'[k][w].next.status = "archived")
    <3>1. PICK j \in Key : j = publication[p].key
      BY <1>0, <2>3 DEF PublicationsLock, ArchiveItem
    <3>2. /\ publication[p].phase = "archiving"
          /\ item'[j][x].now = item[j][x].now
          /\ item[j][x].now.status = "published" =>
               item'[j][x].next = Archived(item[j][x].now) /\ item'[j][x].owner = p
          /\ \A l \in Key, u \in Version : l # j \/ u # x => item'[l][u] = item[l][u]
          /\ publication'[p].key = j
          /\ publication'[p].version = publication[p].version
          /\ publication'[p].rest = publication[p].rest \ {x}
      BY <1>0, <2>3, <3>1, ArchiveEffect
    <3>3. k = j /\ w # publication[p].version
      BY <1>1, <1>3, <3>2
    <3>4. CASE w = x
      <4>1. Archived(item[j][x].now).status = "archived"
        BY RowTypes, RowValues
      <4>2. QED
        BY <1>1, <3>2, <3>3, <3>4, <4>1
    <3>5. CASE w # x
      <4>1. item'[k][w] = item[k][w] /\ item[k][w].now.status = "published"
        BY <1>1, <3>2, <3>3, <3>5
      <4>2. w \in publication[p].rest \/ (item[k][w].owner = p /\ item[k][w].next.status = "archived")
        BY <1>0, <1>1, <3>1, <3>2, <3>3, <4>1, RestOf
      <4>3. QED
        BY <3>2, <3>5, <4>1, <4>2
    <3>6. QED
      BY <3>4, <3>5
  <2>4. CASE PublishItem(p)
    <3>1. PICK j \in Key, v \in Version : j = publication[p].key /\ v = publication[p].version
      BY <1>0, <2>4 DEF PublicationsLock, PublishItem
    <3>2. publication'[p].phase = "ended"
      BY <1>0, <2>4, <3>1, PublishEffect
    <3>3. QED
      BY <1>1, <1>3, <3>2
  <2>5. CASE AbortPublication(p)
    BY <1>1, <1>3, <2>5, AbortPublicationEffect
  <2>6. QED
    BY <1>3, <2>1, <2>2, <2>3, <2>4, <2>5 DEF PublicationStep
<1>4. QED
  BY <1>2, <1>3

LEMMA ImportKeepsRest ==
  ASSUME TypeOK, KnowledgeRules, NEW i \in Import, ImportStep(i), OthersKept(i),
         PublicationsLock'
  PROVE  RestIsInForce'
<1>0. RestIsInForce /\ i \notin Publication
  BY KnowledgeAssumption DEF KnowledgeRules
<1>1. SUFFICES ASSUME serial, NEW q \in Publication, publication'[q].phase = "archiving",
                      NEW k \in Key, k = publication'[q].key,
                      NEW w \in Version, w # publication'[q].version,
                      item'[k][w].now.status = "published"
               PROVE  w \in publication'[q].rest
                        \/ (item'[k][w].owner = q /\ item'[k][w].next.status = "archived")
  BY DEF RestIsInForce, PublicationsLock, OthersKept
<1>2. item[k][w].now.status = "published"
  BY <1>1, ImportKeepsPublished
<1>3. QED
  BY <1>0, <1>1, <1>2, OthersRest

LEMMA PublicationKeepsOnePublished ==
  ASSUME TypeOK, KnowledgeRules, NEW p \in Publication, PublicationStep(p), OthersKept(p)
  PROVE  OnePublishedVersion'
<1>0. PublicationsLock /\ ChangesAllowed /\ RestIsInForce /\ OnePublishedVersion
  BY DEF KnowledgeRules
<1>1. SUFFICES ASSUME serial, NEW k \in Key, NEW v \in Version, NEW w \in Version,
                      item'[k][v].now.status = "published", item'[k][w].now.status = "published"
               PROVE  v = w
  BY DEF OnePublishedVersion, PublishedVersions, OthersKept
<1>2. CASE ~PublishItem(p) \/ k # publication[p].key
  <2>1. item[k][v].now.status = "published" /\ item[k][w].now.status = "published"
    BY <1>1, <1>2, PublicationKeepsPublished
  <2>2. QED
    BY <1>0, <1>1, <2>1 DEF OnePublishedVersion, PublishedVersions
<1>3. CASE PublishItem(p) /\ k = publication[p].key
  <2>1. PICK j \in Key, x \in Version : j = publication[p].key /\ x = publication[p].version
    BY <1>0, <1>3 DEF PublicationsLock, PublishItem
  <2>2. /\ publication[p].phase = "archiving" /\ publication[p].rest = {}
        /\ \A l \in Key, u \in Version : l # j \/ u # x =>
             item'[l][u] = IF item[l][u].owner = p THEN Unlocked(item[l][u].next) ELSE item[l][u]
    BY <1>0, <1>3, <2>1, PublishEffect
  <2>3. ASSUME NEW u \in Version, u # x
        PROVE  item'[k][u].now.status # "published"
    <3>1. item'[k][u] = IF item[k][u].owner = p THEN Unlocked(item[k][u].next) ELSE item[k][u]
      BY <1>3, <2>1, <2>2, <2>3
    <3>2. item[k][u].now.status = "published" =>
            item[k][u].owner = p /\ item[k][u].next.status = "archived"
      BY <1>0, <1>1, <1>3, <2>1, <2>2, <2>3, RestOf
    <3>3. item[k][u].owner = p => item[k][u].next.status # "published"
      <4>1. ChangeAllowed(k, u)
        BY <1>0 DEF ChangesAllowed
      <4>2. item[k][u].owner = p /\ item[k][u].next # item[k][u].now =>
              item[k][u].next = Archived(item[k][u].now)
        BY <4>1 DEF ChangeAllowed
      <4>3. Archived(item[k][u].now).status = "archived"
        BY RowTypes, RowValues
      <4>4. QED
        BY <3>2, <4>2, <4>3
    <3>4. CASE item[k][u].owner = p
      BY <3>1, <3>3, <3>4, RowTypes, RowValues
    <3>5. CASE item[k][u].owner # p
      BY <3>1, <3>2, <3>5
    <3>6. QED
      BY <3>4, <3>5
  <2>4. QED
    BY <1>1, <2>3
<1>4. QED
  BY <1>2, <1>3

LEMMA ImportKeepsOnePublished ==
  ASSUME TypeOK, KnowledgeRules, NEW i \in Import, ImportStep(i), OthersKept(i)
  PROVE  OnePublishedVersion'
<1>1. \A k \in Key, v \in Version :
        item'[k][v].now.status = "published" => item[k][v].now.status = "published"
  BY ImportKeepsPublished
<1>2. QED
  BY <1>1 DEF KnowledgeRules, OnePublishedVersion, PublishedVersions, OthersKept
-----------------------------------------------------------------------------
(***************************************************************************)
(* The invariant.                                                          *)
(***************************************************************************)

LEMMA InvariantInit ==
  ASSUME Init
  PROVE  TypeOK /\ KnowledgeRules
<1>1. NoRow \in Row /\ NoRow.status = "absent" /\ NoRow.text = None
  BY DEF NoRow, Row
<1>2. Unlocked(NoRow) \in ItemRow
  BY <1>1, RowValues
<1>3. \A k \in Key, v \in Version : item[k][v] = Unlocked(NoRow)
  BY DEF Init
<1>4. TypeOK
  BY <1>2, KnowledgeAssumption DEF Init, TypeOK, PublicationState, ImportState
<1>5. PublicationsLock /\ ImportsSelect /\ RestIsInForce /\ OnePublication
  BY DEF Init, PublicationsLock, ImportsSelect, RestIsInForce, OnePublication, Publishing
<1>6. ChangesAllowed
  BY <1>1, <1>3, KnowledgeAssumption DEF ChangesAllowed, ChangeAllowed, Unlocked
<1>7. OnePublishedVersion
  BY <1>1, <1>3 DEF OnePublishedVersion, PublishedVersions, Unlocked
<1>8. QED
  BY <1>4, <1>5, <1>6, <1>7 DEF KnowledgeRules

LEMMA InvariantStep ==
  ASSUME TypeOK, KnowledgeRules, [Next]_vars
  PROVE  TypeOK' /\ KnowledgeRules'
<1>1. ASSUME NEW p \in Publication, PublicationStep(p)
      PROVE  TypeOK' /\ KnowledgeRules'
  <2>1. TypeOK' /\ OthersKept(p)
    BY <1>1, PublicationKeepsOthers
  <2>2. PublicationsLock' /\ ImportsSelect' /\ ChangesAllowed'
    BY <1>1, <2>1, PublicationKeepsLocks, PublicationKeepsSelected, PublicationKeepsChanges
  <2>3. RestIsInForce' /\ OnePublication' /\ OnePublishedVersion'
    BY <1>1, <2>1, <2>2, PublicationKeepsRest, PublicationKeepsOnePublication,
       PublicationKeepsOnePublished
  <2>4. QED
    BY <2>1, <2>2, <2>3 DEF KnowledgeRules
<1>2. ASSUME NEW i \in Import, ImportStep(i)
      PROVE  TypeOK' /\ KnowledgeRules'
  <2>1. TypeOK' /\ OthersKept(i)
    BY <1>2, ImportKeepsOthers
  <2>2. PublicationsLock' /\ ImportsSelect' /\ ChangesAllowed'
    BY <1>2, <2>1, ImportKeepsLocks, ImportKeepsSelected, ImportKeepsChanges
  <2>3. RestIsInForce' /\ OnePublication' /\ OnePublishedVersion'
    BY <1>2, <2>1, <2>2, ImportKeepsRest, ImportKeepsOnePublication, ImportKeepsOnePublished
  <2>4. QED
    BY <2>1, <2>2, <2>3 DEF KnowledgeRules
<1>3. CASE UNCHANGED vars
  <2>1. serial' = serial /\ item' = item /\ publication' = publication /\ import' = import
    BY <1>3 DEF vars
  <2>2. TypeOK'
    BY <2>1 DEF TypeOK
  <2>3. PublicationsLock' <=> PublicationsLock
    BY <2>1 DEF PublicationsLock
  <2>4. ImportsSelect' <=> ImportsSelect
    BY <2>1 DEF ImportsSelect, MoreFiles, Exists, Seen, File
  <2>5. ChangesAllowed' <=> ChangesAllowed
    BY <2>1 DEF ChangesAllowed, ChangeAllowed
  <2>6. RestIsInForce' <=> RestIsInForce
    BY <2>1 DEF RestIsInForce
  <2>7. OnePublication' <=> OnePublication
    BY <2>1 DEF OnePublication, Publishing
  <2>8. OnePublishedVersion' <=> OnePublishedVersion
    BY <2>1 DEF OnePublishedVersion, PublishedVersions
  <2>9. QED
    BY <2>2, <2>3, <2>4, <2>5, <2>6, <2>7, <2>8 DEF KnowledgeRules
<1>4. QED
  BY <1>1, <1>2, <1>3 DEF Next, PublicationStep, ImportStep

\* The types, for any directory, any number of calls and any versions.
THEOREM TypeCorrect == Spec => []TypeOK
<1>1. Init => TypeOK /\ KnowledgeRules
  BY InvariantInit
<1>2. TypeOK /\ KnowledgeRules /\ [Next]_vars => (TypeOK /\ KnowledgeRules)'
  BY InvariantStep
<1>3. QED
  BY <1>1, <1>2, PTL DEF Spec

\* What the row locks of publish_knowledge_item and _upsert_draft protect.
THEOREM KnowledgeInvariantHolds == Spec => []KnowledgeInvariant
<1>1. Init => TypeOK /\ KnowledgeRules
  BY InvariantInit
<1>2. TypeOK /\ KnowledgeRules /\ [Next]_vars => (TypeOK /\ KnowledgeRules)'
  BY InvariantStep
<1>3. QED
  BY <1>1, <1>2, PTL DEF Spec, KnowledgeInvariant

\* Publications of a key that do not overlap leave one version in force,
\* whatever the imports do meanwhile.
THEOREM OnePublishedHolds == Spec => []OnePublishedVersion
<1>1. KnowledgeRules => OnePublishedVersion
  BY DEF KnowledgeRules
<1>2. QED
  BY <1>1, KnowledgeInvariantHolds, PTL DEF KnowledgeInvariant

-----------------------------------------------------------------------------
(***************************************************************************)
(* What an import has read is locked until its commit stores it.           *)
(***************************************************************************)
ReadOf(i) ==
  /\ import[i].file <= Len(FilesOf[i]) + 1
  /\ \A n \in 1 .. (import[i].file - 1) : FileIsLocked(i, n)

LEMMA DirectoryTypes ==
  ASSUME NEW i \in Import
  PROVE  /\ Len(FilesOf[i]) \in Nat
         /\ \A n \in 1 .. Len(FilesOf[i]) : FilesOf[i][n].key \in Key
<1>1. FilesOf[i] \in Seq([key : Key, text : Text])
  BY KnowledgeAssumption
<1>2. Len(FilesOf[i]) \in Nat
  BY <1>1, LenProperties
<1>3. \A n \in 1 .. Len(FilesOf[i]) : FilesOf[i][n] \in [key : Key, text : Text]
  BY <1>1, ElementOfSeq
<1>4. QED
  BY <1>2, <1>3

\* A step that keeps the rows i has locked and leaves i at its file
LEMMA ReadStays ==
  ASSUME TypeOK, NEW i \in Import, ReadOf(i), import'[i].file = import[i].file,
         \A k \in Key, v \in Version :
           item[k][v].owner = i => item'[k][v].owner = i /\ item'[k][v].next.text = item[k][v].next.text
  PROVE  ReadOf(i)'
<1> SUFFICES ASSUME NEW n \in 1 .. (import[i].file - 1) PROVE FileIsLocked(i, n)'
  BY DEF ReadOf
<1>1. FileIsLocked(i, n)
  BY DEF ReadOf
<1>2. n \in 1 .. Len(FilesOf[i])
  BY DirectoryTypes DEF ReadOf, TypeOK, ImportState
<1>3. PICK k \in Key : k = FilesOf[i][n].key
  BY <1>2, DirectoryTypes
<1>4. QED
  BY <1>1, <1>3 DEF FileIsLocked

\* A file has been read: a row i has locked is as the file says, and the files
\* of other keys read before are where they were.
LEMMA ReadGrows ==
  ASSUME TypeOK, NEW i \in Import, ReadOf(i), MoreFiles(i), NextFile(i),
         NEW k \in Key, k = File(i).key, NEW v \in Version,
         item'[k][v].owner = i, item'[k][v].next.text = File(i).text,
         \A j \in Key, w \in Version : j # k \/ w # v => item'[j][w] = item[j][w]
  PROVE  ReadOf(i)'
<1>f. PICK f \in Nat \ {0} : f = import[i].file
  BY DEF TypeOK, ImportState
<1>1. import'[i].file = f + 1 /\ f <= Len(FilesOf[i])
  BY <1>f DEF NextFile, MoreFiles, TypeOK, ImportState
<1>2. k = FilesOf[i][f].key /\ File(i).text = FilesOf[i][f].text
  BY <1>f DEF File
<1>3. ASSUME NEW n \in 1 .. f PROVE FileIsLocked(i, n)'
  <2>1. CASE n = f
    BY <1>2, <2>1 DEF FileIsLocked
  <2>2. CASE n # f /\ FilesOf[i][n].key = k
    <3>1. f \in (n + 1) .. (import'[i].file - 1)
      BY <1>1, <2>2
    <3>2. FilesOf[i][f].key = FilesOf[i][n].key
      BY <1>2, <2>2
    <3>3. QED
      BY <3>1, <3>2 DEF FileIsLocked
  <2>3. CASE n # f /\ FilesOf[i][n].key # k
    <3>1. n \in 1 .. (f - 1) /\ n \in 1 .. Len(FilesOf[i])
      BY <1>1, <2>3, DirectoryTypes
    <3>2. FileIsLocked(i, n)
      BY <1>f, <3>1 DEF ReadOf
    <3>3. PICK j \in Key : j = FilesOf[i][n].key
      BY <3>1, DirectoryTypes
    <3>4. CASE \E w \in Version : item[j][w].owner = i /\ item[j][w].next.text = FilesOf[i][n].text
      BY <2>3, <3>3, <3>4 DEF FileIsLocked
    <3>5. CASE \E m \in (n + 1) .. (f - 1) : FilesOf[i][m].key = j
      <4>1. PICK m \in (n + 1) .. (f - 1) : FilesOf[i][m].key = j
        BY <3>5
      <4>2. m \in (n + 1) .. (f + 1 - 1)
        BY <4>1
      <4>3. QED
        BY <1>1, <3>3, <4>1, <4>2 DEF FileIsLocked
    <3>6. QED
      BY <1>f, <3>2, <3>3, <3>4, <3>5 DEF FileIsLocked
  <2>4. QED
    BY <2>1, <2>2, <2>3
<1>4. QED
  BY <1>1, <1>3, DirectoryTypes DEF ReadOf

LEMMA LockLatestReads ==
  ASSUME TypeOK, KnowledgeRules, NEW i \in Import, LockLatest(i), ReadOf(i)
  PROVE  ReadOf(i)'
<1>1. PICK k \in Key, v \in Version : k = File(i).key /\ v = import[i].version
  BY FileType DEF KnowledgeRules, ImportsSelect, LockLatest
<1>2. /\ MoreFiles(i) /\ item[k][v].owner \in {None, i}
      /\ \A j \in Key, w \in Version : j # k \/ w # v => item'[j][w] = item[j][w]
  BY <1>1, LockLatestEffect DEF KnowledgeRules
<1>3. Seen(i, k, v) \in Row
  BY RowTypes DEF Seen
<1>4. File(i).text \in Text
  BY <1>2, FileType
<1>5. CASE Seen(i, k, v).text = File(i).text /\ Locked(i, k, v, Seen(i, k, v)) /\ NextFile(i)
  <2>1. item'[k][v].owner = i /\ item'[k][v].next = Seen(i, k, v)
    BY <1>3, <1>5, LockedRow DEF Call
  <2>2. QED
    BY <1>1, <1>2, <1>5, <2>1, ReadGrows
<1>6. CASE Locked(i, k, v, [Seen(i, k, v) EXCEPT !.text = File(i).text]) /\ NextFile(i)
  <2> DEFINE row == [Seen(i, k, v) EXCEPT !.text = File(i).text]
  <2>1. row \in Row /\ row.text = File(i).text
    BY <1>3, <1>4 DEF Row
  <2> HIDE DEF row
  <2>2. item'[k][v].owner = i /\ item'[k][v].next = row
    BY <1>6, <2>1, LockedRow DEF row, Call
  <2>3. QED
    BY <1>1, <1>2, <1>6, <2>1, <2>2, ReadGrows
<1>7. CASE /\ Locked(i, k, v, Seen(i, k, v))
           /\ import' = [import EXCEPT
                ![i] = [import[i] EXCEPT !.phase = "inserting", !.version = v + 1]]
  <2>1. item'[k][v].owner = i /\ item'[k][v].next = Seen(i, k, v)
    BY <1>3, <1>7, LockedRow DEF Call
  <2>2. import'[i].file = import[i].file
    BY <1>7 DEF TypeOK, ImportState
  <2>3. \A j \in Key, w \in Version : item[j][w].owner = i =>
          item'[j][w].owner = i /\ item'[j][w].next.text = item[j][w].next.text
    BY <1>2, <2>1 DEF Seen
  <2>4. QED
    BY <2>2, <2>3, ReadStays
<1>8. QED
  BY <1>1, <1>5, <1>6, <1>7 DEF LockLatest

LEMMA InsertReads ==
  ASSUME TypeOK, KnowledgeRules, NEW i \in Import, InsertDraft(i), ReadOf(i)
  PROVE  ReadOf(i)'
<1>1. MoreFiles(i) /\ import[i].version \in Version
  BY DEF KnowledgeRules, ImportsSelect, InsertDraft
<1>2. PICK k \in Key, v \in Version : k = File(i).key /\ v = import[i].version
  BY <1>1, FileType
<1>3. /\ item'[k][v].owner = i
      /\ \A j \in Key, w \in Version : j # k \/ w # v => item'[j][w] = item[j][w]
  BY <1>2, InsertEffect DEF KnowledgeRules
<1>4. item'[k][v].next.text = File(i).text
  <2> DEFINE row == [status |-> "draft", text |-> File(i).text]
  <2>1. row \in Row /\ row.text = File(i).text
    BY <1>1, FileType DEF Row
  <2>2. Locked(i, k, v, row)
    BY <1>2 DEF InsertDraft
  <2> HIDE DEF row
  <2>3. QED
    BY <2>1, <2>2, LockedRow
<1>5. QED
  BY <1>1, <1>2, <1>3, <1>4, ReadGrows DEF InsertDraft

LEMMA ReadStep ==
  ASSUME TypeOK, KnowledgeRules, ReadIsLocked, [Next]_vars
  PROVE  ReadIsLocked'
<1> SUFFICES ASSUME NEW i \in Import, import'[i].phase # "ended" PROVE ReadOf(i)'
  BY DEF ReadIsLocked, ReadOf
\* Another call may not touch the rows i has locked.
<1>1. ASSUME NEW c \in Call, c # i, OthersKept(c) PROVE ReadOf(i)'
  <2>1. import'[i] = import[i] /\ ReadOf(i)
    BY <1>1 DEF OthersKept, ReadIsLocked, ReadOf
  <2>2. i # None
    BY KnowledgeAssumption
  <2>3. \A k \in Key, v \in Version : item[k][v].owner = i => item'[k][v] = item[k][v]
    BY <1>1, <2>2 DEF OthersKept
  <2>4. QED
    BY <2>1, <2>3, ReadStays
<1>2. ASSUME NEW p \in Publication, PublicationStep(p) PROVE ReadOf(i)'
  <2>1. p # i
    BY KnowledgeAssumption
  <2>2. QED
    BY <1>1, <1>2, <2>1, PublicationKeepsOthers
<1>3. ASSUME NEW j \in Import, ImportStep(j), j # i PROVE ReadOf(i)'
  BY <1>1, <1>3, ImportKeepsOthers
<1>4. CASE ImportStep(i)
  <2>1. import[i].phase # "ended" /\ ~CommitImport(i) /\ ~InsertFails(i) /\ ~AbortImport(i)
    BY <1>4, CommitImportEffect, AbortImportEffect
       DEF ImportStep, BeginImport, SelectLatest, LockLatest, InsertDraft
  <2>2. ReadOf(i)
    BY <2>1 DEF ReadIsLocked, ReadOf
  <2>3. CASE BeginImport(i)
    <3>1. item' = item /\ import'[i].file = import[i].file
      BY <2>3 DEF BeginImport, TypeOK, ImportState
    <3>2. QED
      BY <2>2, <3>1, ReadStays
  <2>4. CASE SelectLatest(i)
    BY <2>2, <2>4, SelectLatestEffect, ReadStays
  <2>5. QED
    BY <1>4, <2>1, <2>2, <2>3, <2>4, LockLatestReads, InsertReads DEF ImportStep
<1>5. CASE UNCHANGED vars
  BY <1>5 DEF vars, ReadIsLocked, ReadOf, FileIsLocked
<1>6. QED
  BY <1>2, <1>3, <1>4, <1>5 DEF Next, PublicationStep, ImportStep

\* The commit makes what is locked the row that everybody sees.
LEMMA CommitStores ==
  ASSUME TypeOK, ReadIsLocked, NEW i \in Import, CommitImport(i),
         NEW n \in 1 .. Len(FilesOf[i])
  PROVE  \/ \E v \in Version : item'[FilesOf[i][n].key][v].now.text = FilesOf[i][n].text
         \/ \E m \in (n + 1) .. Len(FilesOf[i]) : FilesOf[i][m].key = FilesOf[i][n].key
<1>l. PICK l \in Nat : l = Len(FilesOf[i])
  BY DirectoryTypes
<1>1. import[i].file = l + 1
  <2>1. PICK f \in Nat : f = import[i].file
    BY DEF TypeOK, ImportState
  <2>2. import[i].phase = "reading" /\ ~(f <= l)
    BY <1>l, <2>1 DEF CommitImport, MoreFiles
  <2>3. f <= l + 1
    BY <1>l, <2>1, <2>2 DEF ReadIsLocked
  <2>4. QED
    BY <2>1, <2>2, <2>3
<1>2. FileIsLocked(i, n)
  <2>1. n \in 1 .. (import[i].file - 1)
    BY <1>l, <1>1
  <2>2. QED
    BY <2>1 DEF ReadIsLocked, CommitImport
<1>3. PICK k \in Key : k = FilesOf[i][n].key
  BY DirectoryTypes
<1>4. ASSUME NEW v \in Version, item[k][v].owner = i
      PROVE  item'[k][v].now.text = item[k][v].next.text
  BY <1>4, CommitImportEffect, RowTypes, RowValues
<1>5. import[i].file - 1 = l
  BY <1>1
<1>6. \/ \E v \in Version :
           item[k][v].owner = i /\ item[k][v].next.text = FilesOf[i][n].text
      \/ \E m \in (n + 1) .. l : FilesOf[i][m].key = k
  BY <1>2, <1>3, <1>5 DEF FileIsLocked
<1>7. QED
  BY <1>l, <1>3, <1>4, <1>6

\* An import that commits has stored every file of its directory, whatever
\* publications and other imports did while it ran.
THEOREM ImportStored == Spec => ImportIsStored
<1>1. Init => ReadIsLocked
  BY DirectoryTypes DEF Init, ReadIsLocked
<1>2. TypeOK /\ KnowledgeRules /\ ReadIsLocked /\ [Next]_vars => ReadIsLocked'
  BY ReadStep
<1>3. TypeOK /\ ReadIsLocked =>
        [\A i \in Import : CommitImport(i) =>
           \A n \in 1 .. Len(FilesOf[i]) :
             LET k == FilesOf[i][n].key IN
             \/ \E v \in Version : item'[k][v].now.text = FilesOf[i][n].text
             \/ \E m \in (n + 1) .. Len(FilesOf[i]) : FilesOf[i][m].key = k]_vars
  BY CommitStores
<1>4. QED
  BY <1>1, <1>2, <1>3, KnowledgeInvariantHolds, PTL
     DEF KnowledgeInvariant, Spec, ImportIsStored

-----------------------------------------------------------------------------
(***************************************************************************)
(* Refinement: a publication's commit is a step of ApprovedKnowledge, every *)
(* other step a stutter.                                                   *)
(***************************************************************************)
InForceNow == [k \in Key |-> PublishedVersions(k)]
EverPublished ==
  [k \in Key |-> [v \in Version |->
    IF item[k][v].now.status \in {"published", "archived"} THEN item[k][v].now.text ELSE None]]

LEMMA RefinementInit ==
  ASSUME Init
  PROVE  Approved!Init
<1>1. NoRow.status = "absent"
  BY DEF NoRow
<1>2. \A k \in Key, v \in Version : item[k][v].now = NoRow
  BY DEF Init, Unlocked
<1>3. InForceNow = [k \in Key |-> {}]
  BY <1>1, <1>2 DEF InForceNow, PublishedVersions
<1>4. EverPublished = [k \in Key |-> [v \in Version |-> None]]
  BY <1>1, <1>2 DEF EverPublished
<1>5. QED
  BY <1>3, <1>4 DEF Approved!Init, Approved!Version, InForceNow, EverPublished

LEMMA RefinementStutter ==
  ASSUME \A k \in Key, v \in Version :
           /\ item'[k][v].now.status = "published" <=> item[k][v].now.status = "published"
           /\ item[k][v].now.status \in {"published", "archived"} =>
                item'[k][v].now = item[k][v].now
           /\ item'[k][v].now.status \in {"published", "archived"} =>
                item'[k][v].now = item[k][v].now
  PROVE  UNCHANGED Approved!vars
<1>1. \A k \in Key : PublishedVersions(k)' = PublishedVersions(k)
  BY DEF PublishedVersions
<1>2. InForceNow' = InForceNow
  BY <1>1 DEF InForceNow
<1>3. EverPublished' = EverPublished
  BY DEF EverPublished
<1>4. QED
  BY <1>2, <1>3 DEF Approved!vars, InForceNow, EverPublished

LEMMA RefinementPublish ==
  ASSUME TypeOK, KnowledgeRules, NEW p \in Publication, PublishItem(p), PublicationStep(p)
  PROVE  Approved!Next
<1>0. PublicationsLock /\ ChangesAllowed
  BY DEF KnowledgeRules
<1>1. PICK k \in Key, v \in Version : k = publication[p].key /\ v = publication[p].version
  BY <1>0 DEF PublicationsLock, PublishItem
<1>2. /\ item'[k][v] = Unlocked(Published(item[k][v].next))
      /\ \A l \in Key, u \in Version : l # k \/ u # v =>
           item'[l][u] = IF item[l][u].owner = p THEN Unlocked(item[l][u].next) ELSE item[l][u]
  BY <1>0, <1>1, PublishEffect
<1> DEFINE t == item[k][v].now.text
           A == {w \in Version \ {v} : item[k][w].owner = p /\ item[k][w].next # item[k][w].now}
<1>3. /\ item[k][v].owner = p /\ item[k][v].now.status # "absent"
      /\ item[k][v].next = item[k][v].now /\ t \in Text
  <2>1. item[k][v].owner = p /\ item[k][v].now.status # "absent"
    BY <1>0, <1>1 DEF PublicationsLock, PublishItem
  <2>2. ChangeAllowed(k, v) /\ p \notin Import
    BY <1>0, KnowledgeAssumption DEF ChangesAllowed
  <2>3. item[k][v].now \in Row
    BY RowTypes
  <2>4. QED
    BY <1>1, <2>1, <2>2, <2>3 DEF ChangeAllowed, Row
<1>4. /\ item'[k][v].now.status = "published" /\ item'[k][v].now.text = t
  BY <1>2, <1>3, RowTypes, RowValues
<1>5. ASSUME NEW w \in A
      PROVE  /\ item[k][w].now.status = "published"
             /\ item'[k][w].now.status = "archived" /\ item'[k][w].now.text = item[k][w].now.text
  <2>1. ChangeAllowed(k, w)
    BY <1>0 DEF ChangesAllowed
  <2>2. item[k][w].now.status = "published" /\ item[k][w].next = Archived(item[k][w].now)
    BY <1>5, <2>1 DEF ChangeAllowed
  <2>3. item'[k][w].now = item[k][w].next
    BY <1>2, RowTypes, RowValues
  <2>4. QED
    BY <2>2, <2>3, RowTypes, RowValues
<1>6. ASSUME NEW w \in Version \ {v}, w \notin A
      PROVE  item'[k][w].now = item[k][w].now
  BY <1>2, <1>6, RowTypes, RowValues
<1>7. ASSUME NEW l \in Key \ {k}, NEW w \in Version
      PROVE  item'[l][w].now = item[l][w].now
  BY <1>1, <1>7, PublicationKeepsPublished
<1> HIDE DEF t, A
<1>8. A \subseteq PublishedVersions(k) \ {v}
  BY <1>5 DEF PublishedVersions, A
<1>9. PublishedVersions(k)' = (PublishedVersions(k) \ A) \cup {v}
  BY <1>4, <1>5, <1>6, <1>8 DEF PublishedVersions
<1>10. \A l \in Key \ {k} : PublishedVersions(l)' = PublishedVersions(l)
  BY <1>7 DEF PublishedVersions
<1>11. InForceNow' = [InForceNow EXCEPT ![k] = (InForceNow[k] \ A) \cup {v}]
  BY <1>9, <1>10 DEF InForceNow
<1>12. EverPublished[k][v] \in {None, t}
  BY DEF EverPublished, t
<1>13. EverPublished'[k] = [EverPublished[k] EXCEPT ![v] = t]
  <2>1. EverPublished'[k][v] = t
    BY <1>4 DEF EverPublished
  <2>2. \A w \in Version \ {v} : EverPublished'[k][w] = EverPublished[k][w]
    BY <1>5, <1>6 DEF EverPublished
  <2>3. QED
    BY <2>1, <2>2 DEF EverPublished
<1>14. \A l \in Key \ {k} : EverPublished'[l] = EverPublished[l]
  BY <1>7 DEF EverPublished
<1>15. EverPublished' = [EverPublished EXCEPT ![k] = [EverPublished[k] EXCEPT ![v] = t]]
  BY <1>13, <1>14 DEF EverPublished
<1>16. A \in SUBSET Version
  BY DEF A
<1>17. PICK s \in Text, B \in SUBSET Version : s = t /\ B = A
  BY <1>3, <1>16
<1>18. Approved!Publish(k, v, s, B)
  BY <1>8, <1>11, <1>12, <1>15, <1>17 DEF Approved!Publish, InForceNow, EverPublished
<1>19. QED
  BY <1>18 DEF Approved!Next, Approved!Version

\* A published text is never rewritten, and a key in force stays in force,
\* however publications and imports interleave.
THEOREM Refinement == Spec => ImplementsApprovedKnowledge
<1>1. Init => Approved!Init
  BY RefinementInit
<1>2. TypeOK /\ KnowledgeRules /\ [Next]_vars => [Approved!Next]_(Approved!vars)
  <2> SUFFICES ASSUME TypeOK, KnowledgeRules, [Next]_vars
               PROVE  [Approved!Next]_(Approved!vars)
    OBVIOUS
  <2>1. ASSUME NEW p \in Publication, PublicationStep(p)
        PROVE  [Approved!Next]_(Approved!vars)
    <3>1. CASE PublishItem(p)
      BY <2>1, <3>1, RefinementPublish
    <3>2. CASE ~PublishItem(p)
      <4>1. \A k \in Key, v \in Version : item'[k][v].now = item[k][v].now
        BY <2>1, <3>2, PublicationKeepsPublished
      <4>2. QED
        BY <4>1, RefinementStutter
    <3>3. QED
      BY <3>1, <3>2
  <2>2. ASSUME NEW i \in Import, ImportStep(i)
        PROVE  [Approved!Next]_(Approved!vars)
    BY <2>2, ImportKeepsPublished, RefinementStutter
  <2>3. CASE UNCHANGED vars
    BY <2>3, RefinementStutter DEF vars
  <2>4. QED
    BY <2>1, <2>2, <2>3 DEF Next, PublicationStep, ImportStep
<1>3. QED
  BY <1>1, <1>2, KnowledgeInvariantHolds, PTL
     DEF KnowledgeInvariant, Spec, ImplementsApprovedKnowledge, Approved!Spec
=============================================================================
