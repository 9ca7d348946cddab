------------------------ MODULE ManifestBundleProofs ------------------------
(***************************************************************************)
(* Proofs about ManifestBundle, for any set of stores and any bounds.      *)
(*                                                                         *)
(* BaseInv says what holds of every store whatever the others do. What a   *)
(* running engine reads is intact for one of two reasons: IntactInv, of a  *)
(* store that is alone at its URL, and SharedInv, of stores that share     *)
(* theirs and are careful. LossInv says that a store that is alone at its  *)
(* URL and orderly has what its last upload covered, in its directory and  *)
(* in what it would download. In SharedInv stores have objects of their    *)
(* own (OwnInv), because the bundle they have in common names none (IdInv, *)
(* LegacyInv); what a bundle holds is what the store had when its upload   *)
(* began (PartInv); and what that was comes back with it (SavedInv).       *)
(*                                                                         *)
(* The effects of the actions on a directory come first, then one lemma    *)
(* per part of the invariant and per kind of step, then the theorems.      *)
(***************************************************************************)
EXTENDS ManifestBundle, TLAPS

Stored(s) == dir[s].meta # None

\* Of every store: one that runs has a directory, and knows its id if that is
\* registered; Close uploads what it has flushed, under the id; and after a clean
\* close bundle and directory agree.
BaseInv(s) ==
    /\ pc[s] # "down" => Stored(s) /\ dir[s].minver
    /\ pc[s] # "down" /\ s \in reg => s \in sid
    /\ pc[s] \in {"ckpt", "closing"} => part[s].name \in {s, Legacy}
    /\ pc[s] = "closing" =>
        /\ part[s].manifest \in {None, dir[s].meta.manifest}
        /\ part[s].catalog \in {None, dir[s].meta.catalog}
        /\ mark[s] = Contents(dir[s])
        /\ s \in sid => part[s].name = s
    /\ s \in clean =>
        /\ pc[s] = "down" /\ Stored(s) /\ dir[s].minver
        /\ s \in reg => mark[s] = Contents(dir[s]) /\ bundle[s] = dir[s].meta

Inv == TypeOK /\ \A s \in Stores : BaseInv(s)

\* The types of a directory and of an upload in progress.
Dir == [meta : Meta \cup {None}, wal : SUBSET Write, minver : BOOLEAN]

Part ==
    [name : Names \cup {None},
     manifest : {None} \cup SUBSET Object,
     catalog : {None} \cup SUBSET Object]

\* The directory of a store with other metadata files and another log.
With(s, M, C, W) ==
    [meta |-> [iter |-> dir[s].meta.iter, manifest |-> M, catalog |-> C],
     wal |-> W, minver |-> dir[s].minver]

\* Such a directory is one.
LEMMA WithType ==
    ASSUME TypeOK, NEW s \in Stores, Stored(s),
           NEW M \in SUBSET Object, NEW C \in SUBSET Object, NEW W \in SUBSET Write
    PROVE  With(s, M, C, W) \in Dir
<1>1. dir[s].meta.iter \in Nat /\ dir[s].minver \in BOOLEAN
  BY DEF TypeOK, Stored, Meta
<1> HIDE DEF TypeOK
<1>2. [iter |-> dir[s].meta.iter, manifest |-> M, catalog |-> C] \in Meta
  BY <1>1 DEF Meta
<1> QED
  BY <1>1, <1>2 DEF With, Dir

\* The parts of a directory that has metadata.
LEMMA MetaType ==
    ASSUME TypeOK, NEW s \in Stores, Stored(s)
    PROVE  /\ dir[s].meta \in Meta
           /\ dir[s].meta.iter \in Nat
           /\ dir[s].meta.manifest \in SUBSET Object
           /\ dir[s].meta.catalog \in SUBSET Object
           /\ dir[s].wal \in SUBSET Write
           /\ dir[s].minver \in BOOLEAN
<1>1. dir[s] \in Dir /\ dir[s].meta \in Meta
  BY DEF TypeOK, Stored, Dir
<1> QED
  BY <1>1 DEF Dir, Meta

\* A directory, and its metadata, are their parts.
LEMMA DirFields ==
    ASSUME TypeOK, NEW s \in Stores, Stored(s)
    PROVE  /\ dir \in [Stores -> Dir]
           /\ dir[s] = [meta |-> dir[s].meta, wal |-> dir[s].wal, minver |-> dir[s].minver]
           /\ dir[s].meta = [iter |-> dir[s].meta.iter, manifest |-> dir[s].meta.manifest,
                             catalog |-> dir[s].meta.catalog]
<1>1. dir \in [Stores -> Dir]
  BY DEF TypeOK, Dir
<1>2. dir[s] \in Dir /\ dir[s].meta \in Meta
  BY <1>1, MetaType
<1> QED
  BY <1>1, <1>2 DEF Dir, Meta

\* Updates of one file of a directory, and of one part of its metadata.
LEMMA SetWal ==
    ASSUME NEW d \in Dir, NEW W
    PROVE  [d EXCEPT !.wal = W] = [meta |-> d.meta, wal |-> W, minver |-> d.minver]
  BY DEF Dir

LEMMA SetMeta ==
    ASSUME NEW d \in Dir, NEW M
    PROVE  [d EXCEPT !.meta = M] = [meta |-> M, wal |-> d.wal, minver |-> d.minver]
  BY DEF Dir

LEMMA SetCatalog ==
    ASSUME NEW m \in Meta, NEW C
    PROVE  [m EXCEPT !.catalog = C] = [iter |-> m.iter, manifest |-> m.manifest, catalog |-> C]
  BY DEF Meta

\* A flush of a memtable with something in it adds one object.
LEMMA FlushEffect ==
    ASSUME TypeOK, NEW s \in Stores, Stored(s), FlushTo(s, dir'), dir[s].wal # {}
    PROVE  \E o \in Object :
              /\ o.data = dir[s].wal
              /\ s \in sid
              /\ objects' \in Nat
              /\ remote' = remote \cup {o}
              /\ dir' = [dir EXCEPT ![s] = With(s, dir[s].meta.manifest \cup {o},
                                                dir[s].meta.catalog \cup {o}, {})]
<1> DEFINE o == [id |-> objects + 1, data |-> dir[s].wal]
<1>1. objects \in Nat
  BY DEF TypeOK
<1>2. o \in Object
  BY <1>1, MetaType DEF Object
<1>3. /\ s \in sid
      /\ objects' = objects + 1
      /\ remote' = remote \cup {o}
      /\ dir' = [dir EXCEPT ![s] = [meta |-> Edited(dir[s].meta, {}, o), wal |-> {},
                                    minver |-> dir[s].minver]]
  BY DEF FlushTo
<1>4. o.data = dir[s].wal
  OBVIOUS
<1> HIDE DEF o
<1>5. Edited(dir[s].meta, {}, o) =
        [iter |-> dir[s].meta.iter, manifest |-> dir[s].meta.manifest \cup {o},
         catalog |-> dir[s].meta.catalog \cup {o}]
  BY DEF Edited
<1>6. dir' = [dir EXCEPT ![s] = With(s, dir[s].meta.manifest \cup {o},
                                      dir[s].meta.catalog \cup {o}, {})]
  BY <1>3, <1>5, Zenon DEF With
<1>7. objects' \in Nat
  BY <1>1, <1>3
<1> QED
  BY <1>2, <1>3, <1>4, <1>6, <1>7, Zenon

\* A compaction replaces objects by one with their data.
LEMMA CompactEffect ==
    ASSUME TypeOK, NEW s \in Stores, Stored(s), Compact(s)
    PROVE  \E S \in SUBSET dir[s].meta.manifest, o \in Object :
              /\ S # {}
              /\ o.data = Data(S)
              /\ objects' \in Nat
              /\ remote' = remote \cup {o}
              /\ dir' = [dir EXCEPT ![s] = With(s, (dir[s].meta.manifest \ S) \cup {o},
                                                dir[s].meta.catalog \cup {o}, dir[s].wal)]
<1>1. PICK S \in (SUBSET dir[s].meta.manifest) \ {{}} :
        LET o == [id |-> objects + 1, data |-> Data(S)] IN
        /\ dir' = [dir EXCEPT ![s].meta = Edited(@, S, o)]
        /\ remote' = remote \cup {o}
  BY Zenon DEF Compact
<1> DEFINE o == [id |-> objects + 1, data |-> Data(S)]
           M == Edited(dir[s].meta, S, o)
<1>2. objects \in Nat /\ objects' = objects + 1
  BY DEF TypeOK, Compact
<1>3. Data(S) \in SUBSET Write
  BY MetaType DEF Object, Data
<1>4. o \in Object /\ o.data = Data(S)
  BY <1>2, <1>3 DEF Object
<1>5. /\ remote' = remote \cup {o}
      /\ dir' = [dir EXCEPT ![s] = [dir[s] EXCEPT !.meta = M]]
  BY <1>1, Zenon
<1> HIDE DEF o
<1>6. M = [iter |-> dir[s].meta.iter, manifest |-> (dir[s].meta.manifest \ S) \cup {o},
           catalog |-> dir[s].meta.catalog \cup {o}]
  BY DEF Edited
<1> HIDE DEF M
<1>7. [dir[s] EXCEPT !.meta = M] = [meta |-> M, wal |-> dir[s].wal, minver |-> dir[s].minver]
  BY DirFields, SetMeta, Zenon
<1>8. dir' = [dir EXCEPT ![s] = With(s, (dir[s].meta.manifest \ S) \cup {o},
                                      dir[s].meta.catalog \cup {o}, dir[s].wal)]
  BY <1>5, <1>6, <1>7, Zenon DEF With
<1>9. objects' \in Nat
  BY <1>2
<1> QED
  BY <1>4, <1>5, <1>8, <1>9, Zenon

\* A deletion takes an object that the MANIFEST does not name.
LEMMA DeleteEffect ==
    ASSUME TypeOK, NEW s \in Stores, Stored(s), DeleteObsolete(s)
    PROVE  \E o \in dir[s].meta.catalog \ dir[s].meta.manifest :
              /\ remote' = remote \ {o}
              /\ dir' = [dir EXCEPT ![s] = With(s, dir[s].meta.manifest,
                                                dir[s].meta.catalog \ {o}, dir[s].wal)]
<1>1. /\ dir \in [Stores -> Dir]
      /\ dir[s] = [meta |-> dir[s].meta, wal |-> dir[s].wal, minver |-> dir[s].minver]
      /\ dir[s].meta = [iter |-> dir[s].meta.iter, manifest |-> dir[s].meta.manifest,
                        catalog |-> dir[s].meta.catalog]
  BY DirFields
<1>2. PICK o \in dir[s].meta.catalog \ dir[s].meta.manifest :
        /\ dir' = [dir EXCEPT ![s].meta.catalog = @ \ {o}]
        /\ remote' = remote \ {o}
  BY Zenon DEF DeleteObsolete
<1>3. [dir[s].meta EXCEPT !.catalog = dir[s].meta.catalog \ {o}] =
        [iter |-> dir[s].meta.iter, manifest |-> dir[s].meta.manifest,
         catalog |-> dir[s].meta.catalog \ {o}]
  BY MetaType, SetCatalog, Zenon
<1>4. [dir[s] EXCEPT !.meta.catalog = dir[s].meta.catalog \ {o}] =
        With(s, dir[s].meta.manifest, dir[s].meta.catalog \ {o}, dir[s].wal)
  <2> DEFINE M == [dir[s].meta EXCEPT !.catalog = dir[s].meta.catalog \ {o}]
  <2>1. [dir[s] EXCEPT !.meta = M] = [meta |-> M, wal |-> dir[s].wal, minver |-> dir[s].minver]
    BY <1>1, SetMeta
  <2> QED
    BY <1>3, <2>1, Zenon DEF With
<1> QED
  BY <1>2, <1>4, Zenon

\* A commit adds to the log.
LEMMA CommitEffect ==
    ASSUME TypeOK, NEW s \in Stores, Stored(s), NEW w, Commit(s, w)
    PROVE  dir' = [dir EXCEPT ![s] = With(s, dir[s].meta.manifest, dir[s].meta.catalog,
                                          dir[s].wal \cup {w})]
<1>1. /\ dir \in [Stores -> Dir]
      /\ dir[s] = [meta |-> dir[s].meta, wal |-> dir[s].wal, minver |-> dir[s].minver]
      /\ dir[s].meta = [iter |-> dir[s].meta.iter, manifest |-> dir[s].meta.manifest,
                        catalog |-> dir[s].meta.catalog]
  BY DirFields
<1>2. [dir[s] EXCEPT !.wal = dir[s].wal \cup {w}] =
        With(s, dir[s].meta.manifest, dir[s].meta.catalog, dir[s].wal \cup {w})
  <2>1. [dir[s] EXCEPT !.wal = dir[s].wal \cup {w}] =
          [meta |-> dir[s].meta, wal |-> dir[s].wal \cup {w}, minver |-> dir[s].minver]
    BY <1>1, SetWal
  <2> QED
    BY <1>1, <2>1, Zenon DEF With
<1> QED
  BY <1>2, Zenon DEF Commit

-----------------------------------------------------------------------------
\* A new directory keeps the types.
LEMMA DirType ==
    ASSUME TypeOK, NEW s \in Stores, NEW d \in Dir, dir' = [dir EXCEPT ![s] = d]
    PROVE  dir' \in [Stores -> Dir]
<1>1. dir \in [Stores -> Dir]
  BY SMTT(120) DEF TypeOK, Dir
<1> QED
  BY <1>1

\* Types are preserved.
LEMMA TypeStep ==
    ASSUME Inv, NEW s \in Stores, Step(s),
           careful' \in BOOLEAN, orderly' \in BOOLEAN
    PROVE  TypeOK'
<1>1. TypeOK /\ BaseInv(s)
  BY DEF Inv
<1>2. SUFFICES /\ dir' \in [Stores -> Dir]
               /\ remote' \subseteq Object
               /\ objects' \in Nat
               /\ part' \in [Stores -> Part]
               /\ bundle' \in [Names -> Meta \cup {None}]
               /\ mark' \in [Stores -> SUBSET Write]
               /\ pc' \in [Stores -> {"down", "open", "ckpt", "closing"}]
               /\ sid' \subseteq Stores /\ reg' \subseteq Stores /\ clean' \subseteq Stores
               /\ count' \in [Stores -> Nat]
               /\ saved' \in [Stores -> SUBSET Write]
               /\ opens' \in [Stores -> Nat]
  BY DEF TypeOK, Dir, Part
<1>3. /\ dir \in [Stores -> Dir]
      /\ remote \subseteq Object
      /\ objects \in Nat
      /\ part \in [Stores -> Part]
      /\ bundle \in [Names -> Meta \cup {None}]
      /\ mark \in [Stores -> SUBSET Write]
      /\ pc \in [Stores -> {"down", "open", "ckpt", "closing"}]
      /\ sid \subseteq Stores /\ reg \subseteq Stores /\ clean \subseteq Stores
      /\ count \in [Stores -> Nat]
      /\ saved \in [Stores -> SUBSET Write]
      /\ opens \in [Stores -> Nat]
  BY <1>1 DEF TypeOK, Dir, Part
<1>4. pc[s] # "down" => Stored(s)
  BY <1>1 DEF BaseInv
<1>5. Contents(dir[s]) \in SUBSET Write
  <2>1. dir[s].wal \in SUBSET Write
    BY <1>3 DEF Dir
  <2>2. CASE ~Stored(s)
    BY <2>1, <2>2 DEF Contents, Stored
  <2>3. CASE Stored(s)
    BY <1>1, <2>1, <2>3, MetaType DEF Contents, Stored, Data, Object
  <2> QED
    BY <2>2, <2>3
<1>6. ASSUME Running(s), FlushTo(s, dir')
      PROVE  dir' \in [Stores -> Dir] /\ remote' \subseteq Object /\ objects' \in Nat
  <2>1. Stored(s)
    BY <1>4, <1>6 DEF Running
  <2>2. CASE dir[s].wal = {}
    BY <1>3, <1>6, <2>2 DEF FlushTo
  <2>3. CASE dir[s].wal # {}
    <3>1. PICK o \in Object :
              /\ objects' \in Nat
              /\ remote' = remote \cup {o}
              /\ dir' = [dir EXCEPT ![s] = With(s, dir[s].meta.manifest \cup {o},
                                                dir[s].meta.catalog \cup {o}, {})]
      BY <1>1, <1>6, <2>1, <2>3, FlushEffect, Zenon
    <3>2. With(s, dir[s].meta.manifest \cup {o}, dir[s].meta.catalog \cup {o}, {}) \in Dir
      BY <1>1, <2>1, MetaType, WithType
    <3> QED
      BY <1>1, <1>3, <3>1, <3>2, DirType
  <2> QED
    BY <2>2, <2>3
<1>7. Unread \in Part /\ [Unread EXCEPT !.name = manifestBundleName(s \in sid, s)] \in Part
  BY DEF Unread, Part, manifestBundleName, Names
<1>8. CASE Flush(s)
  BY <1>3, <1>6, <1>8 DEF Flush
<1>9. CASE Compact(s)
  <2>1. Stored(s)
    BY <1>4, <1>9 DEF Compact, Running
  <2>2. PICK S \in SUBSET dir[s].meta.manifest, o \in Object :
              /\ objects' \in Nat
              /\ remote' = remote \cup {o}
              /\ dir' = [dir EXCEPT ![s] = With(s, (dir[s].meta.manifest \ S) \cup {o},
                                                dir[s].meta.catalog \cup {o}, dir[s].wal)]
    BY <1>1, <1>9, <2>1, CompactEffect, Zenon
  <2>3. With(s, (dir[s].meta.manifest \ S) \cup {o}, dir[s].meta.catalog \cup {o}, dir[s].wal) \in Dir
    BY <1>1, <2>1, MetaType, WithType
  <2>4. dir' \in [Stores -> Dir]
    BY <1>1, <2>2, <2>3, DirType, Zenon
  <2> QED
    BY <1>3, <1>9, <2>2, <2>4 DEF Compact
<1>10. CASE DeleteObsolete(s)
  <2>1. Stored(s)
    BY <1>4, <1>10 DEF DeleteObsolete, Running
  <2>2. PICK o \in dir[s].meta.catalog \ dir[s].meta.manifest :
              /\ remote' = remote \ {o}
              /\ dir' = [dir EXCEPT ![s] = With(s, dir[s].meta.manifest,
                                                dir[s].meta.catalog \ {o}, dir[s].wal)]
    BY <1>1, <1>10, <2>1, DeleteEffect
  <2>3. With(s, dir[s].meta.manifest, dir[s].meta.catalog \ {o}, dir[s].wal) \in Dir
    BY <1>1, <2>1, MetaType, WithType
  <2>4. dir' \in [Stores -> Dir]
    BY <1>1, <2>2, <2>3, DirType, Zenon
  <2> QED
    BY <1>3, <1>10, <2>2, <2>4 DEF DeleteObsolete
<1>11. ASSUME NEW w \in Write, Commit(s, w) PROVE dir' \in [Stores -> Dir]
  <2>1. Stored(s)
    BY <1>4, <1>11 DEF Commit, Running
  <2>2. With(s, dir[s].meta.manifest, dir[s].meta.catalog, dir[s].wal \cup {w}) \in Dir
    BY <1>1, <2>1, MetaType, WithType
  <2> QED
    BY <1>1, <1>11, <2>1, <2>2, CommitEffect, DirType
<1>12. CASE WriteIdent(s)
  <2>1. Ident(s) \in Write
    BY DEF Ident, Write
  <2>2. dir' \in [Stores -> Dir]
    BY <1>11, <1>12, <2>1 DEF WriteIdent
  <2> QED
    BY <1>3, <1>12, <2>2 DEF WriteIdent, Commit
<1>13. CASE ClientWrite(s)
  <2>1. <<s, count[s]>> \in Write
    BY <1>3 DEF Write
  <2>2. dir' \in [Stores -> Dir]
    BY <1>11, <1>13, <2>1 DEF ClientWrite
  <2> QED
    BY <1>3, <1>13, <2>2 DEF ClientWrite, Commit
<1>14. CASE SetStoreID(s)
  BY <1>3, <1>14 DEF SetStoreID
<1>15. CASE RegisterNode(s)
  BY <1>3, <1>15 DEF RegisterNode
<1>16. CASE Checkpoint(s)
  <2>1. dir' \in [Stores -> Dir] /\ remote' \subseteq Object /\ objects' \in Nat
    BY <1>6, <1>16 DEF Checkpoint, Running
  <2> QED
    BY <1>3, <1>5, <1>7, <1>16, <2>1, Zenon DEF Checkpoint
<1>17. CASE Close(s)
  <2>1. dir' \in [Stores -> Dir] /\ remote' \subseteq Object /\ objects' \in Nat
    BY <1>3, <1>6, <1>17 DEF Close, Running
  <2> QED
    BY <1>3, <1>5, <1>7, <1>17, <2>1, Zenon DEF Close
<1>18. CASE ReadManifest(s)
  <2>1. Stored(s)
    BY <1>4, <1>18 DEF ReadManifest
  <2>2. dir[s].meta.manifest \in SUBSET Object
    BY <1>1, <2>1, MetaType
  <2>3. [part[s] EXCEPT !.manifest = dir[s].meta.manifest] \in Part
    BY <1>3, <2>2, ZenonT(60) DEF Part
  <2>4. part' = [part EXCEPT ![s] = [part[s] EXCEPT !.manifest = dir[s].meta.manifest]]
    BY <1>18, Zenon DEF ReadManifest
  <2>5. part' \in [Stores -> Part]
    BY <1>3, <2>3, <2>4
  <2> QED
    BY <1>3, <1>18, <2>5 DEF ReadManifest
<1>19. CASE ReadCatalog(s)
  <2>1. Stored(s)
    BY <1>4, <1>19 DEF ReadCatalog
  <2>2. dir[s].meta.catalog \in SUBSET Object
    BY <1>1, <2>1, MetaType
  <2>3. [part[s] EXCEPT !.catalog = dir[s].meta.catalog] \in Part
    BY <1>3, <2>2, ZenonT(60) DEF Part
  <2>4. part' = [part EXCEPT ![s] = [part[s] EXCEPT !.catalog = dir[s].meta.catalog]]
    BY <1>19, Zenon DEF ReadCatalog
  <2>5. part' \in [Stores -> Part]
    BY <1>3, <2>3, <2>4
  <2> QED
    BY <1>3, <1>19, <2>5 DEF ReadCatalog
<1>20. CASE UploadOk(s)
  <2>1. Stored(s)
    BY <1>4, <1>20 DEF UploadOk
  <2>2. [iter |-> dir[s].meta.iter, manifest |-> part[s].manifest,
         catalog |-> part[s].catalog] \in Meta
    <3>1. part[s].manifest \in SUBSET Object /\ part[s].catalog \in SUBSET Object
      BY <1>3, <1>20 DEF UploadOk, Part
    <3>2. dir[s].meta.iter \in Nat
      BY <1>1, <2>1, MetaType
    <3> QED
      BY <3>1, <3>2 DEF Meta
  <2>3. bundle' \in [Names -> Meta \cup {None}]
    BY <1>3, <1>20, <2>2, Zenon DEF UploadOk
  <2> QED
    BY <1>3, <1>7, <1>20, <2>3 DEF UploadOk, EndUpload
<1>21. CASE UploadFail(s)
  BY <1>3, <1>7, <1>21 DEF UploadFail, EndUpload
<1>22. CASE Crash(s)
  BY <1>3, <1>7, <1>22 DEF Crash
<1>23. CASE LoseDir(s)
  <2>1. EmptyDir \in Dir
    BY DEF EmptyDir, Dir
  <2>2. dir' \in [Stores -> Dir]
    BY <1>1, <1>23, <2>1, DirType, Zenon DEF LoseDir
  <2> QED
    BY <1>3, <1>23, <2>2 DEF LoseDir
<1>24. Downloaded(s) \in Meta \cup {None}
  BY <1>3 DEF Downloaded, RecoveryStoreID, manifestBundleName, Names, Dir
<1>25. CASE Open(s)
  <2>1. Opened(s) \in Dir
    <3> DEFINE M == IF Downloaded(s) = None THEN [iter |-> 1, manifest |-> {}, catalog |-> {}]
                    ELSE [Downloaded(s) EXCEPT !.iter = @ + 1]
    <3>1. M \in Meta
      BY <1>24 DEF Meta
    <3>2. Opened(s) = [meta |-> M, wal |-> dir[s].wal, minver |-> TRUE]
      BY DEF Opened
    <3> HIDE DEF M
    <3>3. dir[s].wal \in SUBSET Write
      BY <1>3 DEF Dir
    <3> QED
      BY <3>1, <3>2, <3>3 DEF Dir
  <2>2. dir' \in [Stores -> Dir]
    BY <1>1, <1>25, <2>1, DirType, Zenon DEF Open, RecoveryStoreID
  <2> QED
    BY <1>3, <1>25, <2>2 DEF Open, RecoveryStoreID
<1>26. CASE OpenRefused(s)
  <2>1. [dir[s] EXCEPT !.meta = Downloaded(s)] \in Dir
    BY <1>3, <1>24 DEF Dir
  <2>2. dir' = [dir EXCEPT ![s] = [dir[s] EXCEPT !.meta = Downloaded(s)]]
    BY <1>26, Zenon DEF OpenRefused
  <2>3. dir' \in [Stores -> Dir]
    BY <1>1, <2>1, <2>2, DirType, Zenon
  <2> QED
    BY <1>3, <1>26, <2>3 DEF OpenRefused
<1> QED
  BY <1>8, <1>9, <1>10, <1>12, <1>13, <1>14, <1>15, <1>16, <1>17, <1>18, <1>19, <1>20,
     <1>21, <1>22, <1>23, <1>25, <1>26 DEF Step

-----------------------------------------------------------------------------
\* The data of sets of objects.
LEMMA DataFacts ==
    /\ Data({}) = {}
    /\ \A A, B : A \subseteq B => Data(A) \subseteq Data(B)
    /\ \A A, o : Data(A \cup {o}) = Data(A) \cup o.data
    /\ \A A, S, o : S \subseteq A /\ o.data = Data(S) => Data((A \ S) \cup {o}) = Data(A)
  BY DEF Data

\* The catalog knows, and the object store has, what the MANIFEST names.
Intact(s) == dir[s].meta.manifest \subseteq dir[s].meta.catalog \cap remote

\* Metadata that names only objects with data, all of it of store s.
Owned(s, m) ==
    /\ \A o \in m.manifest \cup m.catalog : o.data # {} /\ o.data \subseteq {s} \X Nat
    /\ m.manifest \subseteq m.catalog

\* A step replaces the metadata files and the log of one store.
Rewritten(s, M, C, W) ==
    /\ \A t \in Stores \ {s} : dir'[t] = dir[t]
    /\ Stored(s)'
    /\ dir'[s].meta.iter = dir[s].meta.iter
    /\ dir'[s].meta.manifest = M
    /\ dir'[s].meta.catalog = C
    /\ dir'[s].wal = W
    /\ dir'[s].minver = dir[s].minver
    /\ Contents(dir[s]) = Data(dir[s].meta.manifest) \cup dir[s].wal
    /\ Contents(dir'[s]) = Data(M) \cup W

\* An update with With does that.
LEMMA WithFacts ==
    ASSUME TypeOK, NEW s \in Stores, Stored(s),
           NEW M \in SUBSET Object, NEW C \in SUBSET Object, NEW W \in SUBSET Write,
           dir' = [dir EXCEPT ![s] = With(s, M, C, W)]
    PROVE  Rewritten(s, M, C, W)
<1>1. dir \in [Stores -> Dir]
  BY DirFields, Zenon
<1>2. dir'[s] = With(s, M, C, W)
  BY <1>1
<1>3. dir'[s].meta = [iter |-> dir[s].meta.iter, manifest |-> M, catalog |-> C]
  BY <1>2 DEF With
<1>4. dir'[s].meta \in Meta
  BY <1>3, MetaType DEF Meta
<1>5. Stored(s)'
  BY <1>4, NoneIsNoFile DEF Stored
<1>6. \A t \in Stores \ {s} : dir'[t] = dir[t]
  BY <1>1
<1>7. dir'[s].wal = W /\ dir'[s].minver = dir[s].minver
  BY <1>2 DEF With
<1>8. Contents(dir[s]) = Data(dir[s].meta.manifest) \cup dir[s].wal
  BY DEF Contents, Stored
<1>9. Contents(dir'[s]) = Data(M) \cup W
  BY <1>3, <1>5, <1>7 DEF Contents, Stored
<1> QED
  BY <1>3, <1>5, <1>6, <1>7, <1>8, <1>9 DEF Rewritten

\* What flushes, compactions and deletions have in common.
Edits(s) ==
    /\ \A t \in Stores \ {s} : dir'[t] = dir[t]
    /\ Stored(s)'
    /\ dir'[s].meta.iter = dir[s].meta.iter
    /\ dir'[s].minver = dir[s].minver
    /\ Contents(dir'[s]) = Contents(dir[s])
    /\ Data(dir[s].meta.manifest) \subseteq Data(dir'[s].meta.manifest)
    /\ s \in sid \/ dir'[s].meta.manifest = dir[s].meta.manifest
    /\ Intact(s) => Intact(s)'
    /\ \A o \in remote \ remote' : o \in dir[s].meta.catalog \ dir[s].meta.manifest
    /\ Owned(s, dir[s].meta) /\ Contents(dir[s]) \subseteq {s} \X Nat =>
        Owned(s, dir'[s].meta)
    /\ (dir' = dir /\ remote' = remote) \/ s \in sid \/ dir[s].meta.catalog # {}

\* A flush edits, and leaves no log.
LEMMA FlushEdits ==
    ASSUME TypeOK, NEW s \in Stores, Stored(s), FlushTo(s, dir')
    PROVE  Edits(s) /\ dir'[s].wal = {}
<1>1. CASE dir[s].wal = {}
  BY <1>1, Zenon DEF FlushTo, Edits, Intact, Stored
<1>2. CASE dir[s].wal # {}
  <2>1. PICK o \in Object :
              /\ o.data = dir[s].wal
              /\ s \in sid
              /\ remote' = remote \cup {o}
              /\ dir' = [dir EXCEPT ![s] = With(s, dir[s].meta.manifest \cup {o},
                                                dir[s].meta.catalog \cup {o}, {})]
    BY <1>2, FlushEffect, Zenon
  <2> DEFINE M == dir[s].meta.manifest \cup {o}
             C == dir[s].meta.catalog \cup {o}
  <2>2. M \in SUBSET Object /\ C \in SUBSET Object /\ {} \in SUBSET Write
    BY MetaType, Zenon
  <2>3. Rewritten(s, M, C, {})
    BY <2>1, <2>2, WithFacts, ZenonT(40)
  <2> USE DEF Rewritten
  <2>4. Contents(dir'[s]) = Contents(dir[s])
    <3>1. Data(M) = Data(dir[s].meta.manifest) \cup dir[s].wal
      <4>1. \A A, x : Data(A \cup {x}) = Data(A) \cup x.data
        BY DataFacts, Zenon
      <4> QED
        BY <2>1, <4>1, Zenon
    <3>2. /\ Contents(dir'[s]) = Data(M) \cup {}
          /\ Contents(dir[s]) = Data(dir[s].meta.manifest) \cup dir[s].wal
      BY <2>3, Zenon
    <3> QED
      BY <3>1, <3>2, Zenon
  <2>5. Data(dir[s].meta.manifest) \subseteq Data(dir'[s].meta.manifest)
    <3>1. Data(M) = Data(dir[s].meta.manifest) \cup o.data
      BY DataFacts, Zenon
    <3>2. dir'[s].meta.manifest = M
      BY <2>3, Zenon
    <3> QED
      BY <3>1, <3>2, Zenon
  <2>6. Intact(s) => Intact(s)'
    BY <2>1, <2>3, Zenon DEF Intact
  <2>7. Owned(s, dir[s].meta) /\ Contents(dir[s]) \subseteq {s} \X Nat => Owned(s, dir'[s].meta)
    BY <1>2, <2>1, <2>3, Zenon DEF Owned
  <2> QED
    BY <2>1, <2>3, <2>4, <2>5, <2>6, <2>7, Zenon DEF Edits
<1> QED
  BY <1>1, <1>2

\* So does a compaction, but for the log.
LEMMA CompactEdits ==
    ASSUME TypeOK, NEW s \in Stores, Stored(s), Compact(s)
    PROVE  Edits(s)
<1>1. PICK S \in SUBSET dir[s].meta.manifest, o \in Object :
              /\ S # {}
              /\ o.data = Data(S)
              /\ remote' = remote \cup {o}
              /\ dir' = [dir EXCEPT ![s] = With(s, (dir[s].meta.manifest \ S) \cup {o},
                                                dir[s].meta.catalog \cup {o}, dir[s].wal)]
  BY CompactEffect, Zenon
<1> DEFINE M == (dir[s].meta.manifest \ S) \cup {o}
           C == dir[s].meta.catalog \cup {o}
<1>2. M \in SUBSET Object /\ C \in SUBSET Object /\ dir[s].wal \in SUBSET Write
  BY MetaType
<1>3. Rewritten(s, M, C, dir[s].wal)
  BY <1>1, <1>2, WithFacts, Zenon
<1> USE DEF Rewritten
<1>4. Contents(dir'[s]) = Contents(dir[s]) /\ Data(M) = Data(dir[s].meta.manifest)
  <2>1. Data(M) = Data(dir[s].meta.manifest)
    BY <1>1, DataFacts, SMTT(120)
  <2> QED
    BY <1>3, <2>1, Zenon
<1>5. Intact(s) => Intact(s)'
  BY <1>1, <1>3, Zenon DEF Intact
<1>6. Owned(s, dir[s].meta) => Owned(s, dir'[s].meta)
  <2>1. ASSUME Owned(s, dir[s].meta) PROVE Data(S) # {} /\ Data(S) \subseteq {s} \X Nat
    BY <1>1, <2>1 DEF Owned, Data
  <2>2. ASSUME Owned(s, dir[s].meta), NEW p \in M \cup C
        PROVE  p.data # {} /\ p.data \subseteq {s} \X Nat
    BY <1>1, <2>1, <2>2 DEF Owned
  <2>3. dir[s].meta.manifest \subseteq dir[s].meta.catalog => M \subseteq C
    OBVIOUS
  <2> HIDE DEF M, C
  <2> QED
    BY <1>3, <2>2, <2>3, Zenon DEF Owned
<1>7. s \in sid
  BY DEF Compact
<1> QED
  BY <1>1, <1>3, <1>4, <1>5, <1>6, <1>7, Zenon DEF Edits

\* So does a deletion.
LEMMA DeleteEdits ==
    ASSUME TypeOK, NEW s \in Stores, Stored(s), DeleteObsolete(s)
    PROVE  Edits(s)
<1>1. PICK o \in dir[s].meta.catalog \ dir[s].meta.manifest :
              /\ remote' = remote \ {o}
              /\ dir' = [dir EXCEPT ![s] = With(s, dir[s].meta.manifest,
                                                dir[s].meta.catalog \ {o}, dir[s].wal)]
  BY DeleteEffect, Zenon
<1> DEFINE M == dir[s].meta.manifest
           C == dir[s].meta.catalog \ {o}
<1>2. M \in SUBSET Object /\ C \in SUBSET Object /\ dir[s].wal \in SUBSET Write
  BY MetaType
<1>3. Rewritten(s, M, C, dir[s].wal)
  BY <1>1, <1>2, WithFacts, Zenon
<1> USE DEF Rewritten
<1>4. Intact(s) => Intact(s)'
  BY <1>1, <1>3, Zenon DEF Intact
<1>5. Owned(s, dir[s].meta) => Owned(s, dir'[s].meta)
  BY <1>1, <1>3, Zenon DEF Owned
<1> QED
  BY <1>1, <1>3, <1>4, <1>5, Zenon DEF Edits

\* So does the beginning of an upload, with a flush or, in Close, without.
LEMMA BeginEdits ==
    ASSUME TypeOK, NEW s \in Stores, Stored(s), Checkpoint(s) \/ Close(s)
    PROVE  Edits(s) /\ (pc'[s] = "ckpt" => dir'[s].wal = {})
<1>1. CASE FlushTo(s, dir')
  BY <1>1, FlushEdits, Zenon
<1>2. CASE UNCHANGED <<dir, remote>> /\ Close(s)
  BY <1>2 DEF Edits, Stored, Intact, Close, TypeOK
<1> QED
  BY <1>1, <1>2 DEF Checkpoint, Close

\* What a commit does.
LEMMA CommitFacts ==
    ASSUME TypeOK, NEW s \in Stores, Stored(s), NEW w \in Write, Commit(s, w)
    PROVE  /\ \A t \in Stores \ {s} : dir'[t] = dir[t]
           /\ Stored(s)'
           /\ dir'[s].meta = dir[s].meta
           /\ dir'[s].wal = dir[s].wal \cup {w}
           /\ dir'[s].minver = dir[s].minver
           /\ Contents(dir'[s]) = Contents(dir[s]) \cup {w}
<1> DEFINE W == dir[s].wal \cup {w}
<1>1. dir' = [dir EXCEPT ![s] = With(s, dir[s].meta.manifest, dir[s].meta.catalog, W)]
  BY CommitEffect
<1>2. /\ dir[s].meta.manifest \in SUBSET Object /\ dir[s].meta.catalog \in SUBSET Object
      /\ W \in SUBSET Write
  BY MetaType, Zenon
<1>3. Rewritten(s, dir[s].meta.manifest, dir[s].meta.catalog, W)
  BY <1>1, <1>2, WithFacts, Zenon
<1> USE DEF Rewritten
<1>4. dir'[s].meta = dir[s].meta
  BY <1>1, DirFields, Zenon DEF With
<1> QED
  BY <1>3, <1>4

-----------------------------------------------------------------------------
\* A step of one store leaves what the others have.
Same(t) ==
    /\ pc'[t] = pc[t] /\ dir'[t] = dir[t] /\ part'[t] = part[t] /\ bundle'[t] = bundle[t]
    /\ count'[t] = count[t] /\ mark'[t] = mark[t] /\ saved'[t] = saved[t]
    /\ t \in sid' <=> t \in sid
    /\ t \in reg' <=> t \in reg
    /\ t \in clean' <=> t \in clean

\* In particular bundles have the name of their store, or the shared one.
LEMMA Others ==
    ASSUME Inv, NEW s \in Stores, Step(s), NEW t \in Stores \ {s}
    PROVE  Same(t)
<1>1. TypeOK /\ BaseInv(s)
  BY DEF Inv
<1>2. /\ dir \in [Stores -> Dir]
      /\ part \in [Stores -> Part]
      /\ bundle \in [Names -> Meta \cup {None}]
      /\ mark \in [Stores -> SUBSET Write]
      /\ pc \in [Stores -> {"down", "open", "ckpt", "closing"}]
      /\ count \in [Stores -> Nat]
      /\ saved \in [Stores -> SUBSET Write]
  BY <1>1, Zenon DEF TypeOK, Dir, Part
<1>3. pc[s] # "down" => Stored(s)
  BY <1>1, Zenon DEF BaseInv
<1>4. ASSUME Running(s), FlushTo(s, dir') PROVE dir'[t] = dir[t]
  BY <1>1, <1>3, <1>4, FlushEdits DEF Edits, Running
<1>5. CASE Flush(s)
  BY <1>4, <1>5 DEF Flush, Same
<1>6. CASE Compact(s)
  BY <1>1, <1>3, <1>6, CompactEdits DEF Compact, Edits, Running, Same
<1>7. CASE DeleteObsolete(s)
  BY <1>1, <1>3, <1>7, DeleteEdits DEF DeleteObsolete, Edits, Running, Same
<1>8. CASE WriteIdent(s)
  BY <1>2, <1>8 DEF WriteIdent, Commit, Same
<1>9. CASE ClientWrite(s)
  BY <1>2, <1>9 DEF ClientWrite, Commit, Same
<1>10. CASE SetStoreID(s)
  BY <1>10, Zenon DEF SetStoreID, Same
<1>11. CASE RegisterNode(s)
  BY <1>11 DEF RegisterNode, Same
<1>12. CASE Checkpoint(s)
  <2>1. dir'[t] = dir[t]
    BY <1>4, <1>12 DEF Checkpoint, Running
  <2> QED
    BY <1>2, <1>12, <2>1 DEF Checkpoint, Same
<1>13. CASE Close(s)
  <2>1. dir'[t] = dir[t]
    BY <1>4, <1>13 DEF Close, Running
  <2> QED
    BY <1>2, <1>13, <2>1 DEF Close, Same
<1>14. CASE ReadManifest(s)
  BY <1>2, <1>14 DEF ReadManifest, Same
<1>15. CASE ReadCatalog(s)
  BY <1>2, <1>15, Zenon DEF ReadCatalog, Same
<1>16. CASE UploadOk(s)
  <2>1. part[s].name \in {s, Legacy}
    BY <1>1, <1>16 DEF BaseInv, UploadOk
  <2>2. t # part[s].name /\ t \in Names
    BY <2>1, NamesDistinct DEF Names
  <2>3. bundle'[t] = bundle[t]
    BY <1>2, <1>16, <2>2, Zenon DEF UploadOk
  <2> QED
    BY <1>2, <1>16, <2>3, ZenonT(40) DEF UploadOk, EndUpload, Same
<1>17. CASE UploadFail(s)
  BY <1>2, <1>17 DEF UploadFail, EndUpload, Same
<1>18. CASE Crash(s)
  BY <1>2, <1>18 DEF Crash, Same
<1>19. CASE LoseDir(s)
  BY <1>2, <1>19 DEF LoseDir, Same
<1>20. CASE Open(s)
  BY <1>2, <1>20 DEF Open, RecoveryStoreID, Same
<1>21. CASE OpenRefused(s)
  BY <1>2, <1>21 DEF OpenRefused, Same
<1> QED
  BY <1>5, <1>6, <1>7, <1>8, <1>9, <1>10, <1>11, <1>12, <1>13, <1>14, <1>15, <1>16, <1>17,
     <1>18, <1>19, <1>20, <1>21 DEF Step

\* BaseInv is preserved.
LEMMA BaseStep ==
    ASSUME Inv, NEW s \in Stores, Step(s)
    PROVE  \A t \in Stores : BaseInv(t)'
<1>1. TypeOK /\ BaseInv(s)
  BY DEF Inv
<1>2. /\ dir \in [Stores -> Dir]
      /\ part \in [Stores -> Part]
      /\ bundle \in [Names -> Meta \cup {None}]
      /\ mark \in [Stores -> SUBSET Write]
      /\ pc \in [Stores -> {"down", "open", "ckpt", "closing"}]
  BY <1>1, ZenonT(40) DEF TypeOK, Dir, Part
<1>3. ASSUME NEW t \in Stores \ {s} PROVE BaseInv(t)'
  <2>1. Same(t) /\ BaseInv(t)
    BY Others DEF Inv
  <2> QED
    BY <2>1 DEF Same, BaseInv, Stored
<1>4. SUFFICES BaseInv(s)'
  BY <1>3, Zenon
<1>5. pc[s] # "down" => Stored(s) /\ dir[s].minver
  BY <1>1 DEF BaseInv
<1>6. ASSUME Edits(s), Running(s),
             UNCHANGED <<pc, sid, reg, part, mark, clean>>
      PROVE  BaseInv(s)'
  BY <1>1, <1>5, <1>6, Zenon DEF BaseInv, Edits, Running, Stored
<1>7. CASE Flush(s)
  BY <1>1, <1>5, <1>6, <1>7, FlushEdits, Zenon DEF Flush, Running
<1>8. CASE Compact(s)
  BY <1>1, <1>5, <1>6, <1>8, CompactEdits, Zenon DEF Compact, Running
<1>9. CASE DeleteObsolete(s)
  BY <1>1, <1>5, <1>6, <1>9, DeleteEdits, Zenon DEF DeleteObsolete, Running
<1>10. ASSUME NEW w \in Write, Commit(s, w) PROVE BaseInv(s)'
  <2>1. Running(s) /\ Stored(s)
    BY <1>5, <1>10, Zenon DEF Commit, Running
  <2>2. Stored(s)' /\ dir'[s].minver = dir[s].minver
    BY <1>1, <1>10, <2>1, CommitFacts
  <2> QED
    BY <1>1, <1>5, <1>10, <2>1, <2>2 DEF BaseInv, Commit, Running
<1>11. CASE WriteIdent(s)
  BY <1>10, <1>11 DEF WriteIdent, Ident, Write
<1>12. CASE ClientWrite(s)
  <2>1. <<s, count[s]>> \in Write
    BY <1>1, Zenon DEF TypeOK, Write
  <2> QED
    BY <1>10, <1>12, <2>1 DEF ClientWrite
<1>13. CASE SetStoreID(s)
  BY <1>1, <1>13, Zenon DEF SetStoreID, BaseInv, Stored, Running
<1>14. CASE RegisterNode(s)
  BY <1>1, <1>14, Zenon DEF RegisterNode, BaseInv, Stored, Running
<1>15. CASE Checkpoint(s)
  <2>1. Stored(s)' /\ dir'[s].minver
    BY <1>1, <1>5, <1>15, FlushEdits DEF Checkpoint, Edits
  <2>2. part'[s].name \in {s, Legacy}
    BY <1>2, <1>15 DEF Checkpoint, Unread, manifestBundleName
  <2>3. pc'[s] = "ckpt" /\ s \notin clean' /\ (s \in reg' => s \in sid')
    BY <1>1, <1>2, <1>15 DEF Checkpoint, BaseInv
  <2> QED
    BY <2>1, <2>2, <2>3 DEF BaseInv
<1>16. CASE Close(s)
  <2>1. Stored(s)' /\ dir'[s].minver /\ Contents(dir'[s]) = Contents(dir[s])
    <3>1. CASE FlushTo(s, dir')
      BY <1>1, <1>5, <1>16, <3>1, FlushEdits DEF Close, Edits
    <3>2. CASE UNCHANGED dir
      BY <1>5, <1>16, <3>2 DEF Close, Stored
    <3> QED
      BY <1>16, <3>1, <3>2 DEF Close
  <2>2. part'[s] = [name |-> manifestBundleName(s \in sid, s), manifest |-> None, catalog |-> None]
    BY <1>2, <1>16 DEF Close, Unread
  <2>3. /\ pc'[s] = "closing" /\ s \notin clean' /\ (s \in reg' => s \in sid')
        /\ mark'[s] = Contents(dir'[s])
    BY <1>1, <1>2, <1>16, <2>1 DEF Close, BaseInv
  <2> QED
    BY <1>16, <2>1, <2>2, <2>3 DEF BaseInv, manifestBundleName, Close
<1>17. CASE ReadManifest(s)
  <2>1. part'[s] = [part[s] EXCEPT !.manifest = dir[s].meta.manifest]
    BY <1>2, <1>17 DEF ReadManifest
  <2>2. /\ part'[s].manifest = dir[s].meta.manifest
        /\ part'[s].name = part[s].name
        /\ part'[s].catalog = part[s].catalog
    BY <1>2, <2>1 DEF Part
  <2> QED
    BY <1>1, <1>17, <2>2 DEF ReadManifest, BaseInv, Stored
<1>18. CASE ReadCatalog(s)
  <2>1. part'[s] = [part[s] EXCEPT !.catalog = dir[s].meta.catalog]
    BY <1>2, <1>18 DEF ReadCatalog
  <2>2. /\ part'[s].catalog = dir[s].meta.catalog
        /\ part'[s].name = part[s].name
        /\ part'[s].manifest = part[s].manifest
    BY <1>2, <2>1, Zenon DEF Part
  <2> QED
    BY <1>1, <1>18, <2>2 DEF ReadCatalog, BaseInv, Stored
<1>19. CASE UploadOk(s)
  <2>1. CASE pc[s] = "ckpt"
    BY <1>1, <1>2, <1>19, <2>1, Zenon DEF UploadOk, EndUpload, BaseInv, Stored
  <2>2. CASE pc[s] = "closing"
    <3>1. pc'[s] = "down" /\ s \in clean' /\ mark'[s] = mark[s] /\ dir' = dir /\ reg' = reg
      BY <1>2, <1>19, <2>2, Zenon DEF UploadOk, EndUpload
    <3>2. ASSUME s \in reg PROVE bundle'[s] = dir[s].meta
      <4>1. /\ part[s].name = s /\ part[s].manifest = dir[s].meta.manifest
            /\ part[s].catalog = dir[s].meta.catalog
        BY <1>1, <1>19, <2>2, <3>2 DEF UploadOk, BaseInv
      <4>2. dir[s].meta = [iter |-> dir[s].meta.iter, manifest |-> dir[s].meta.manifest,
                           catalog |-> dir[s].meta.catalog]
        BY <1>1, <1>5, <2>2, DirFields, Zenon
      <4>3. s \in Names
        BY DEF Names
      <4> QED
        BY <1>2, <1>19, <4>1, <4>2, <4>3, ZenonT(40) DEF UploadOk
    <3> QED
      BY <1>1, <1>5, <2>2, <3>1, <3>2, Zenon DEF BaseInv, Stored
  <2> QED
    BY <1>19, <2>1, <2>2, Zenon DEF UploadOk
<1>20. CASE UploadFail(s)
  BY <1>1, <1>2, <1>20, SMTT(120) DEF UploadFail, EndUpload, BaseInv, Stored
<1>21. CASE Crash(s)
  BY <1>1, <1>2, <1>21 DEF Crash, BaseInv
<1>22. CASE LoseDir(s)
  BY <1>1, <1>2, <1>22, Zenon DEF LoseDir, BaseInv
<1>23. CASE Open(s)
  <2>1. dir'[s] = Opened(s) /\ pc'[s] = "open" /\ s \notin clean' /\ (s \in reg' => s \in sid')
    BY <1>2, <1>23 DEF Open, RecoveryStoreID
  <2>2. Opened(s).minver /\ Opened(s).meta # None
    <3>1. Downloaded(s) \in Meta \cup {None}
      BY <1>2 DEF Downloaded, RecoveryStoreID, manifestBundleName, Names, Dir
    <3>2. Opened(s).meta \in Meta
      <4>1. CASE Downloaded(s) = None
        BY <4>1 DEF Opened, Meta
      <4>2. CASE Downloaded(s) # None
        BY <3>1, <4>2, SMTT(120) DEF Opened, Meta
      <4> QED
        BY <4>1, <4>2
    <3> QED
      BY <3>2, NoneIsNoFile DEF Opened
  <2> QED
    BY <2>1, <2>2, Zenon DEF BaseInv, Stored
<1>24. CASE OpenRefused(s)
  <2>1. [dir[s] EXCEPT !.meta = Downloaded(s)] =
          [meta |-> Downloaded(s), wal |-> dir[s].wal, minver |-> dir[s].minver]
    BY <1>2, SetMeta
  <2>2. dir' = [dir EXCEPT ![s] = [dir[s] EXCEPT !.meta = Downloaded(s)]]
    BY <1>24, Zenon DEF OpenRefused
  <2>3. dir'[s] = [meta |-> Downloaded(s), wal |-> dir[s].wal, minver |-> dir[s].minver]
    BY <1>2, <2>1, <2>2, Zenon
  <2>4. Stored(s) => Downloaded(s) # None
    BY Zenon DEF Downloaded, RecoveryStoreID, Stored
  <2>5. ASSUME s \in clean, s \in reg PROVE Downloaded(s) = dir[s].meta
    BY <1>1, <2>5 DEF Downloaded, RecoveryStoreID, BaseInv, manifestBundleName
  <2>6. UNCHANGED <<pc, sid, reg, bundle, part, mark, clean>> /\ pc[s] = "down"
    BY <1>24, Zenon DEF OpenRefused
  <2>7. ASSUME s \in clean, s \in reg PROVE Contents(dir'[s]) = Contents(dir[s])
    BY <2>3, <2>5, <2>7, SMTT(120) DEF Contents
  <2> QED
    BY <1>1, <2>3, <2>4, <2>5, <2>6, <2>7 DEF BaseInv, Stored
<1> QED
  BY <1>7, <1>8, <1>9, <1>11, <1>12, <1>13, <1>14, <1>15, <1>16, <1>17, <1>18, <1>19,
     <1>20, <1>21, <1>22, <1>23, <1>24 DEF Step

-----------------------------------------------------------------------------
\* A store alone at its URL: what it runs from, or has closed with, is intact.
Alone == \A s, t \in Stores : s = t

IntactInv ==
    \A s \in Stores : pc[s] # "down" \/ s \in clean \cap reg => Intact(s)

\* IntactInv is preserved if there is one store: nobody else deletes its objects.
LEMMA AloneStep ==
    ASSUME Inv, Alone, IntactInv, NEW s \in Stores, Step(s)
    PROVE  IntactInv'
<1>1. TypeOK /\ BaseInv(s)
  BY DEF Inv
<1>2. /\ dir \in [Stores -> Dir]
      /\ bundle \in [Names -> Meta \cup {None}]
      /\ pc \in [Stores -> {"down", "open", "ckpt", "closing"}]
  BY <1>1 DEF TypeOK, Dir
<1>3. pc[s] # "down" => Stored(s) /\ Intact(s)
  BY <1>1 DEF BaseInv, IntactInv
<1>4. SUFFICES pc'[s] # "down" \/ s \in clean' \cap reg' => Intact(s)'
  BY Zenon DEF IntactInv, Alone
<1>5. ASSUME UNCHANGED <<dir, remote>>, pc[s] # "down" \/ (pc' = pc /\ clean' = clean /\ reg' = reg)
      PROVE  Intact(s)' \/ (pc'[s] = "down" /\ s \notin clean' \cap reg')
  BY <1>3, <1>5, ZenonT(40) DEF Intact, IntactInv
<1>6. CASE Flush(s)
  BY <1>1, <1>3, <1>6, FlushEdits DEF Flush, Edits, Running
<1>7. CASE Compact(s)
  BY <1>1, <1>3, <1>7, CompactEdits, Zenon DEF Compact, Edits, Running
<1>8. CASE DeleteObsolete(s)
  BY <1>1, <1>3, <1>8, DeleteEdits, Zenon DEF DeleteObsolete, Edits, Running
<1>9. ASSUME NEW w \in Write, Commit(s, w) PROVE Intact(s)'
  <2>1. Stored(s) /\ Intact(s)
    BY <1>3, <1>9 DEF Commit, Running
  <2>2. dir'[s].meta = dir[s].meta /\ remote' = remote
    BY <1>1, <1>9, <2>1, CommitFacts DEF Commit
  <2> QED
    BY <2>1, <2>2 DEF Intact
<1>10. CASE WriteIdent(s)
  BY <1>9, <1>10 DEF WriteIdent, Ident, Write
<1>11. CASE ClientWrite(s)
  <2>1. <<s, count[s]>> \in Write
    BY <1>1, Zenon DEF TypeOK, Write
  <2> QED
    BY <1>9, <1>11, <2>1 DEF ClientWrite
<1>12. CASE SetStoreID(s) \/ RegisterNode(s)
  BY <1>5, <1>12 DEF SetStoreID, RegisterNode, Running
<1>13. CASE Checkpoint(s)
  BY <1>1, <1>3, <1>13, FlushEdits DEF Checkpoint, Edits
<1>14. CASE Close(s)
  <2>1. CASE FlushTo(s, dir')
    BY <1>1, <1>3, <1>14, <2>1, FlushEdits DEF Close, Edits
  <2>2. CASE UNCHANGED <<dir, remote>>
    BY <1>3, <1>14, <2>2 DEF Close, Intact
  <2> QED
    BY <1>14, <2>1, <2>2 DEF Close
<1>15. CASE ReadManifest(s) \/ ReadCatalog(s)
  BY <1>5, <1>15, Zenon DEF ReadManifest, ReadCatalog
<1>16. CASE UploadOk(s)
  BY <1>5, <1>16 DEF UploadOk
<1>17. CASE UploadFail(s)
  BY <1>5, <1>17 DEF UploadFail
<1>18. CASE Crash(s)
  BY <1>5, <1>18 DEF Crash
<1>19. CASE LoseDir(s)
  BY <1>2, <1>19 DEF LoseDir
<1>20. Downloaded(s) \in Meta \cup {None}
  BY <1>2 DEF Downloaded, RecoveryStoreID, manifestBundleName, Names, Dir
<1>21. CASE Open(s)
  <2>1. dir'[s] = Opened(s) /\ remote' = remote /\ ~Refused(s)
    BY <1>2, <1>21 DEF Open, RecoveryStoreID
  <2>2. CASE Downloaded(s) = None
    BY <2>1, <2>2, SMTT(120) DEF Opened, Intact
  <2>3. CASE Downloaded(s) # None
    <3>1. /\ Opened(s).meta.manifest = Downloaded(s).manifest
          /\ Opened(s).meta.catalog = Downloaded(s).catalog
      BY <1>20, <2>3, Zenon DEF Opened, Meta
    <3>2. Downloaded(s).manifest \subseteq Downloaded(s).catalog \cap remote
      BY <2>1, <2>3 DEF Refused, NotPristine, ObjectMissing
    <3> QED
      BY <2>1, <3>1, <3>2 DEF Intact
  <2> QED
    BY <2>2, <2>3, Zenon
<1>22. CASE OpenRefused(s)
  <2>1. UNCHANGED <<pc, clean, reg, remote>> /\ pc[s] = "down"
    BY <1>22, Zenon DEF OpenRefused
  <2>2. ASSUME s \in clean \cap reg PROVE Intact(s)'
    <3>1. Downloaded(s) = dir[s].meta
      BY <1>1, <2>2 DEF Downloaded, RecoveryStoreID, BaseInv, manifestBundleName
    <3>2. [dir[s] EXCEPT !.meta = Downloaded(s)] = dir[s]
      BY <1>2, <3>1, SetMeta DEF Dir
    <3>3. dir' = [dir EXCEPT ![s] = [dir[s] EXCEPT !.meta = Downloaded(s)]]
      BY <1>22, Zenon DEF OpenRefused
    <3>4. dir'[s] = dir[s]
      BY <1>2, <3>2, <3>3, Zenon
    <3> QED
      BY <2>1, <2>2, <3>4, Zenon DEF Intact, IntactInv
  <2> QED
    BY <2>1, <2>2
<1> QED
  BY <1>6, <1>7, <1>8, <1>10, <1>11, <1>12, <1>13, <1>14, <1>15, <1>16, <1>17, <1>18,
     <1>19, <1>21, <1>22 DEF Step

\* A store that was closed, is registered and is intact comes back as it was.
LEMMA CleanReopen ==
    ASSUME Inv, NEW s \in clean \cap reg, Intact(s)
    PROVE  ~Refused(s) /\ Contents(Opened(s)) = mark[s]
<1>1. s \in Stores /\ TypeOK /\ BaseInv(s)
  BY Zenon DEF Inv, TypeOK
<1>2. /\ Stored(s) /\ dir[s].minver /\ mark[s] = Contents(dir[s])
      /\ Downloaded(s) = dir[s].meta
  BY <1>1, Zenon DEF BaseInv, Downloaded, RecoveryStoreID, manifestBundleName, Stored
<1>3. dir[s].meta \in Meta
  BY <1>1, <1>2, MetaType, Zenon
<1>4. ~Refused(s)
  BY <1>2 DEF Refused, NotPristine, ObjectMissing, Intact
<1>5. /\ Opened(s).meta = [dir[s].meta EXCEPT !.iter = dir[s].meta.iter + 1]
      /\ Opened(s).wal = dir[s].wal
  BY <1>2 DEF Opened, Stored
<1>6. Opened(s).meta \in Meta /\ Opened(s).meta.manifest = dir[s].meta.manifest
  BY <1>3, <1>5 DEF Meta
<1>7. Contents(Opened(s)) = Contents(dir[s])
  BY <1>2, <1>5, <1>6, NoneIsNoFile DEF Contents, Stored
<1> QED
  BY <1>2, <1>4, <1>7, Zenon

-----------------------------------------------------------------------------
\* Stores that share a URL and are careful.

\* Metadata that names nothing.
Empty(m) == m.manifest = {} /\ m.catalog = {}

\* A directory has metadata and min version file, or neither; a registered
\* store has them.
DirInv(s) ==
    /\ dir[s].minver <=> Stored(s)
    /\ s \in reg => Stored(s)
    /\ ~Stored(s) => dir[s].wal = {} /\ bundle[s] = None

\* A store has objects of its own, which the object store has, and only what
\* was written to it. The same is true of its bundle.
OwnInv(s) ==
    /\ Stored(s) => Owned(s, dir[s].meta) /\ Intact(s)
    /\ bundle[s] # None =>
        /\ Owned(s, bundle[s])
        /\ bundle[s].manifest \subseteq remote
        /\ Data(bundle[s].manifest) \subseteq Written(s)
        /\ bundle[s].iter <= dir[s].meta.iter
    /\ Contents(dir[s]) \subseteq Written(s)
    /\ count[s] <= MaxWrites + 1

\* A store that is not running under its id, or is down and not registered, has
\* no SSTables. Hence the bundle that such stores share names none.
IdInv(s) ==
    /\ pc[s] = "down" => s \notin sid
    /\ Contents(dir[s]) # {} \/ s \in sid \/ s \in reg => Ident(s) \in Contents(dir[s])
    /\ pc[s] # "down" /\ s \notin sid => Empty(dir[s].meta) /\ saved[s] = {}
    /\ pc[s] = "down" /\ s \notin reg =>
        /\ Stored(s) => Empty(dir[s].meta)
        /\ dir[s].wal = {} /\ saved[s] = {}

\* An upload in progress reads the metadata files as they are.
PartInv(s) ==
    /\ pc[s] \in {"ckpt", "closing"} =>
        /\ part[s].manifest \in {None, dir[s].meta.manifest}
        /\ part[s].catalog \in {None, dir[s].meta.catalog}
        /\ saved[s] \subseteq mark[s]
        /\ part[s].name = s => s \in sid /\ Ident(s) \in mark[s]
        /\ part[s].name = Legacy => Empty(dir[s].meta) /\ saved[s] = {}
    /\ pc[s] = "ckpt" =>
        /\ mark[s] \subseteq Data(dir[s].meta.manifest)
        /\ part[s].name = Legacy => mark[s] = {}

\* What the last upload covered is in the store, and comes back with its bundle.
SavedInv(s) ==
    /\ saved[s] \subseteq Contents(dir[s])
    /\ bundle[s] # None => Ident(s) \in saved[s]
    /\ bundle[s] # None /\ bundle[s].iter >= dir[s].meta.iter =>
        saved[s] \subseteq Data(bundle[s].manifest)
                           \cup (IF pc[s] = "down" THEN dir[s].wal ELSE {})

\* All of it, of one store.
CareInv(s) == DirInv(s) /\ OwnInv(s) /\ IdInv(s) /\ PartInv(s) /\ SavedInv(s)

\* The bundle that stores without an id share names nothing.
LegacyInv == bundle[Legacy] # None => Empty(bundle[Legacy])

\* All of it, of all stores.
SharedInv == LegacyInv /\ \A s \in Stores : CareInv(s)

\* What an open makes of what it has downloaded.
LEMMA OpenedFacts ==
    ASSUME TypeOK, NEW s \in Stores
    PROVE  /\ Downloaded(s) \in Meta \cup {None}
           /\ Opened(s).meta # None /\ Opened(s).meta.iter \in Nat
           /\ Opened(s).minver /\ Opened(s).wal = dir[s].wal
           /\ Downloaded(s) # None =>
                /\ Opened(s).meta.iter = Downloaded(s).iter + 1
                /\ Opened(s).meta.manifest = Downloaded(s).manifest
                /\ Opened(s).meta.catalog = Downloaded(s).catalog
                /\ Contents(Opened(s)) = Data(Downloaded(s).manifest) \cup dir[s].wal
           /\ Downloaded(s) = None =>
                Empty(Opened(s).meta) /\ Contents(Opened(s)) = dir[s].wal
<1>1. Downloaded(s) \in Meta \cup {None}
  <2>1. dir \in [Stores -> Dir] /\ bundle \in [Names -> Meta \cup {None}]
    BY DEF TypeOK, Dir
  <2> QED
    BY <2>1 DEF Downloaded, RecoveryStoreID, manifestBundleName, Names, Dir
<1>2. Opened(s).minver /\ Opened(s).wal = dir[s].wal
  BY Zenon DEF Opened
<1>3. CASE Downloaded(s) = None
  <2>1. Opened(s).meta = [iter |-> 1, manifest |-> {}, catalog |-> {}]
    BY <1>3 DEF Opened
  <2>2. Opened(s).meta \in Meta
    BY <2>1 DEF Meta
  <2>3. Empty(Opened(s).meta) /\ Opened(s).meta.iter \in Nat
    BY <2>1, SMTT(120) DEF Empty
  <2> QED
    BY <1>1, <1>2, <1>3, <2>2, <2>3, DataFacts, NoneIsNoFile DEF Contents, Empty
<1>4. CASE Downloaded(s) # None
  <2>1. Opened(s).meta = [Downloaded(s) EXCEPT !.iter = Downloaded(s).iter + 1]
    BY <1>4 DEF Opened
  <2>2. /\ Opened(s).meta \in Meta
        /\ Opened(s).meta.iter = Downloaded(s).iter + 1
        /\ Opened(s).meta.manifest = Downloaded(s).manifest
        /\ Opened(s).meta.catalog = Downloaded(s).catalog
    BY <1>1, <1>4, <2>1 DEF Meta
  <2>3. Opened(s).meta.iter \in Nat
    BY <2>2, Zenon DEF Meta
  <2> QED
    BY <1>1, <1>2, <1>4, <2>2, <2>3, NoneIsNoFile DEF Contents
<1> QED
  BY <1>3, <1>4, Zenon

\* A careful store that is down can be opened, with all of its last upload.
Reopens(s) ==
    /\ ~Refused(s)
    /\ Owned(s, Opened(s).meta) /\ Opened(s).meta.manifest \subseteq remote
    /\ saved[s] \subseteq Contents(Opened(s)) /\ Contents(Opened(s)) \subseteq Written(s)
    /\ Contents(Opened(s)) # {} \/ s \in reg => Ident(s) \in Contents(Opened(s))
    /\ s \notin reg => Empty(Opened(s).meta) /\ saved[s] = {}
    /\ bundle[s] # None => bundle[s].iter < Opened(s).meta.iter

\* By cases on where the metadata comes from: the bundle of the store, its
\* directory, or the shared bundle or none.
LEMMA Reopen ==
    ASSUME TypeOK, LegacyInv, NEW s \in Stores, CareInv(s), pc[s] = "down"
    PROVE  Reopens(s)
<1> DEFINE m == dir[s].meta
           D == Downloaded(s)
<1>1. /\ D \in Meta \cup {None}
      /\ D # None =>
           /\ Opened(s).meta.iter = D.iter + 1
           /\ Opened(s).meta.manifest = D.manifest
           /\ Opened(s).meta.catalog = D.catalog
           /\ Contents(Opened(s)) = Data(D.manifest) \cup dir[s].wal
      /\ D = None => Empty(Opened(s).meta) /\ Contents(Opened(s)) = dir[s].wal
  BY OpenedFacts
<1>2. DirInv(s) /\ OwnInv(s) /\ IdInv(s) /\ SavedInv(s)
  BY DEF CareInv
<1>3. Stored(s) => m \in Meta /\ m.iter \in Nat
  BY MetaType, Zenon
<1>4. bundle[s] # None => bundle[s].iter \in Nat
  BY DEF TypeOK, Names, Meta
<1>5. CASE s \in reg /\ D = bundle[s] /\ bundle[s] # None /\ bundle[s].iter >= m.iter
  <2>1. Stored(s) /\ dir[s].minver
    BY <1>2, <1>5 DEF DirInv
  <2>2. Owned(s, Opened(s).meta) /\ Opened(s).meta.manifest \subseteq remote
    BY <1>1, <1>2, <1>5, Zenon DEF OwnInv, Owned
  <2>3. ~Refused(s)
    BY <1>1, <1>5, <2>1, <2>2, Zenon DEF Refused, NotPristine, ObjectMissing, Owned
  <2>4. saved[s] \subseteq Contents(Opened(s)) /\ Ident(s) \in Contents(Opened(s))
    BY <1>1, <1>2, <1>5, Zenon DEF SavedInv
  <2>5. Contents(Opened(s)) \subseteq Written(s)
    BY <1>1, <1>2, <1>5, <2>1, Zenon DEF OwnInv, Contents
  <2>6. bundle[s].iter < Opened(s).meta.iter
    BY <1>1, <1>4, <1>5, SMTT(120)
  <2> QED
    BY <1>5, <2>2, <2>3, <2>4, <2>5, <2>6, Zenon DEF Reopens
<1>6. CASE D = m /\ Stored(s)
  <2>1. dir[s].minver
    BY <1>2, <1>6, Zenon DEF DirInv
  <2>2. D # None
    BY <1>6, ZenonT(40) DEF Stored
  <2>3. Contents(Opened(s)) = Contents(dir[s])
    BY <1>1, <1>6, <2>2 DEF Contents
  <2>4. Owned(s, Opened(s).meta) /\ Opened(s).meta.manifest \subseteq remote
    BY <1>1, <1>2, <1>6, <2>2, Zenon DEF OwnInv, Owned, Intact
  <2>5. ~Refused(s)
    BY <1>1, <2>1, <2>2, <2>4, ZenonT(40) DEF Refused, NotPristine, ObjectMissing, Owned
  <2>6. bundle[s] # None => bundle[s].iter < Opened(s).meta.iter
    <3>1. bundle[s] # None => bundle[s].iter <= m.iter
      BY <1>2, Zenon DEF OwnInv
    <3>2. Opened(s).meta.iter = m.iter + 1
      BY <1>1, <1>6, <2>2, Zenon
    <3>3. \A x, y \in Nat : x <= y => x < y + 1
      OBVIOUS
    <3> QED
      BY <1>3, <1>4, <1>6, <3>1, <3>2, <3>3, Zenon
  <2>7. s \notin reg => Empty(Opened(s).meta) /\ saved[s] = {}
    BY <1>1, <1>2, <1>6, <2>2, Zenon DEF IdInv, Empty
  <2>8. saved[s] \subseteq Contents(dir[s]) /\ Contents(dir[s]) \subseteq Written(s)
    BY <1>2, Zenon DEF OwnInv, SavedInv
  <2>9. Contents(dir[s]) # {} \/ s \in reg => Ident(s) \in Contents(dir[s])
    BY <1>2, ZenonT(40) DEF IdInv
  <2> QED
    BY <2>3, <2>4, <2>5, <2>6, <2>7, <2>8, <2>9, Zenon DEF Reopens
<1>7. CASE s \notin reg /\ (D = None \/ (D = bundle[Legacy] /\ D # None /\ (Stored(s) => D.iter >= m.iter)))
  <2>1. dir[s].wal = {} /\ saved[s] = {}
    BY <1>2, <1>7, Zenon DEF IdInv
  <2>2. Empty(Opened(s).meta) /\ (D # None => Empty(D))
    BY <1>1, <1>7, ZenonT(40) DEF LegacyInv, Empty
  <2>3. Contents(Opened(s)) = {}
    BY <1>1, <2>1, <2>2, DataFacts DEF Empty
  <2>4. ~Refused(s)
    BY <2>1, <2>2, Zenon DEF Refused, NotPristine, ObjectMissing, Empty
  <2>5. Owned(s, Opened(s).meta)
    BY <2>2, Zenon DEF Owned, Empty
  <2>6. bundle[s] = None
    BY <1>2, <2>1, Zenon DEF SavedInv
  <2> QED
    BY <1>7, <2>1, <2>2, <2>3, <2>4, <2>5, <2>6 DEF Reopens, Empty
<1>8. s \notin reg \/ Stored(s)
  BY <1>2, Zenon DEF DirInv
<1> QED
  BY <1>5, <1>6, <1>7, <1>8, ZenonT(40) DEF Downloaded, RecoveryStoreID, manifestBundleName, Stored

\* The objects a step removes are objects of its store.
LEMMA Removed ==
    ASSUME Inv, NEW s \in Stores, Step(s), NEW o \in remote \ remote'
    PROVE  Stored(s) /\ o \in dir[s].meta.catalog
<1>1. TypeOK /\ (pc[s] # "down" => Stored(s))
  BY DEF Inv, BaseInv
<1>2. CASE DeleteObsolete(s)
  BY <1>1, <1>2, DeleteEdits, Zenon DEF DeleteObsolete, Running, Edits
<1>3. CASE Flush(s) \/ Checkpoint(s) \/ Close(s)
  BY <1>3 DEF Flush, Checkpoint, Close, FlushTo
<1>4. CASE Compact(s)
  BY <1>4 DEF Compact
<1>5. CASE UNCHANGED remote
  BY <1>5
<1> QED
  BY <1>2, <1>3, <1>4, <1>5, ZenonT(40) DEF Step, WriteIdent, ClientWrite, Commit, SetStoreID,
     RegisterNode, ReadManifest, ReadCatalog, UploadOk, UploadFail, Crash, LoseDir, Open, RecoveryStoreID,
     OpenRefused

\* A careful step of one store preserves CareInv of the others: an object that
\* goes has data of its own store only.
LEMMA CareOthers ==
    ASSUME Inv, SharedInv, NEW s \in Stores, Step(s), NEW t \in Stores \ {s}
    PROVE  CareInv(t)'
<1>1. Same(t) /\ CareInv(t)
  BY Others DEF SharedInv
<1>2. ASSUME NEW A, A \subseteq remote, \A o \in A : o.data # {} /\ o.data \subseteq {t} \X Nat
      PROVE  A \subseteq remote'
  <2>1. SUFFICES ASSUME NEW o \in A, o \notin remote' PROVE FALSE
    OBVIOUS
  <2>2. Stored(s) /\ o \in dir[s].meta.catalog
    BY <1>2, <2>1, Removed, ZenonT(40)
  <2>3. o.data # {} /\ o.data \subseteq {s} \X Nat
    BY <2>2 DEF SharedInv, CareInv, OwnInv, Owned
  <2> QED
    BY <1>2, <2>3
<1>3. DirInv(t)'
  BY <1>1, Zenon DEF CareInv, DirInv, Same, Stored
<1>4. OwnInv(t)'
  <2>1. OwnInv(t)
    BY <1>1, Zenon DEF CareInv
  <2>2. Stored(t) => dir[t].meta.manifest \subseteq remote'
    BY <1>2, <2>1, Zenon DEF OwnInv, Owned, Intact
  <2>3. bundle[t] # None => bundle[t].manifest \subseteq remote'
    BY <1>2, <2>1, Zenon DEF OwnInv, Owned
  <2> QED
    BY <1>1, <2>1, <2>2, <2>3, Zenon DEF OwnInv, Same, Stored, Intact, Written
<1>5. IdInv(t)'
  BY <1>1, Zenon DEF CareInv, IdInv, Same, Stored
<1>6. PartInv(t)'
  BY <1>1, Zenon DEF CareInv, PartInv, Same
<1>7. SavedInv(t)'
  BY <1>1, Zenon DEF CareInv, SavedInv, Same
<1> QED
  BY <1>3, <1>4, <1>5, <1>6, <1>7 DEF CareInv

\* What is written to a store is its own.
LEMMA WrittenOwn == ASSUME NEW s \in Stores, TypeOK PROVE Written(s) \subseteq {s} \X Nat
  BY DEF Written, TypeOK

\* Flushes, compactions and deletions of a running store.
LEMMA CareEdits ==
    ASSUME TypeOK, NEW s \in Stores, CareInv(s), BaseInv(s), Running(s), Edits(s), Careful,
           UNCHANGED <<pc, sid, reg, bundle, part, count, mark, saved, clean>>
    PROVE  CareInv(s)'
<1>1. /\ DirInv(s) /\ OwnInv(s) /\ IdInv(s) /\ PartInv(s) /\ SavedInv(s)
      /\ Stored(s) /\ pc[s] \in {"open", "ckpt"}
  BY Zenon DEF CareInv, BaseInv, Running
<1>2. DirInv(s)'
  BY <1>1, Zenon DEF DirInv, Edits
<1>3. OwnInv(s)'
  <2>1. Owned(s, dir'[s].meta) /\ Intact(s)'
    BY <1>1, WrittenOwn, Zenon DEF OwnInv, Edits
  <2>2. bundle[s] # None => bundle[s].manifest \subseteq remote'
    BY <1>1, Zenon DEF Careful, Orderly, KeepObjects, OwnInv, Names
  <2> QED
    BY <1>1, <2>1, <2>2, Zenon DEF OwnInv, Edits, Written
<1>4. IdInv(s)'
  BY <1>1, Zenon DEF IdInv, Edits, Empty
<1>5. PartInv(s)'
  <2>1. pc[s] = "ckpt" => dir'[s].meta = dir[s].meta
    BY DEF Careful, Orderly, StillFiles
  <2> QED
    BY <1>1, <2>1, Zenon DEF PartInv
<1>6. SavedInv(s)'
  BY <1>1, Zenon DEF SavedInv, Edits
<1> QED
  BY <1>2, <1>3, <1>4, <1>5, <1>6 DEF CareInv

\* Writes.
LEMMA CareCommit ==
    ASSUME TypeOK, NEW s \in Stores, CareInv(s), BaseInv(s), NEW w \in Write, Commit(s, w),
           w = Ident(s) \/ Ident(s) \in Contents(dir[s]),
           w \in Written(s)', Written(s) \subseteq Written(s)', count'[s] <= MaxWrites + 1
    PROVE  CareInv(s)'
<1>1. /\ DirInv(s) /\ OwnInv(s) /\ IdInv(s) /\ PartInv(s) /\ SavedInv(s)
      /\ Stored(s) /\ pc[s] \in {"open", "ckpt"}
  BY DEF CareInv, BaseInv, Commit, Running
<1>2. /\ Stored(s)'
      /\ dir'[s].meta = dir[s].meta
      /\ dir'[s].minver = dir[s].minver
      /\ Contents(dir'[s]) = Contents(dir[s]) \cup {w}
  BY <1>1, CommitFacts, Zenon
<1>3. UNCHANGED <<pc, sid, reg, remote, bundle, part, mark, saved>>
  BY DEF Commit
<1>4. DirInv(s)'
  BY <1>1, <1>2, <1>3, Zenon DEF DirInv
<1>5. OwnInv(s)'
  <2>1. Contents(dir'[s]) \subseteq Written(s)'
    BY <1>1, <1>2, ZenonT(40) DEF OwnInv
  <2>2. bundle[s] # None => Data(bundle[s].manifest) \subseteq Written(s)'
    BY <1>1 DEF OwnInv
  <2> QED
    BY <1>1, <1>2, <1>3, <2>1, <2>2, Zenon DEF OwnInv, Intact
<1>6. IdInv(s)'
  BY <1>1, <1>2, <1>3, Zenon DEF IdInv, Empty
<1>7. PartInv(s)'
  BY <1>1, <1>2, <1>3, Zenon DEF PartInv
<1>8. SavedInv(s)'
  BY <1>1, <1>2, <1>3, Zenon DEF SavedInv
<1> QED
  BY <1>4, <1>5, <1>6, <1>7, <1>8, Zenon DEF CareInv

\* Checkpoint and Close, up to the upload.
LEMMA CareBegin ==
    ASSUME TypeOK, NEW s \in Stores, CareInv(s), BaseInv(s), pc[s] = "open",
           Checkpoint(s) \/ Close(s)
    PROVE  CareInv(s)'
<1>1. /\ DirInv(s) /\ OwnInv(s) /\ IdInv(s) /\ SavedInv(s)
      /\ Stored(s)
  BY DEF CareInv, BaseInv
<1>2. /\ UNCHANGED <<sid, reg, bundle, count, saved>>
      /\ pc'[s] \in {"ckpt", "closing"}
      /\ mark'[s] = Contents(dir[s])
      /\ part'[s].name = manifestBundleName(s \in sid, s)
      /\ part'[s].manifest = None /\ part'[s].catalog = None
  BY DEF TypeOK, Checkpoint, Close, Unread
<1>3. Edits(s) /\ (pc'[s] = "ckpt" => dir'[s].wal = {})
  BY <1>1, BeginEdits
<1>4. \A o \in remote : o \in remote'
  BY DEF Checkpoint, Close, FlushTo
<1>5. DirInv(s)'
  BY <1>1, <1>2, <1>3, Zenon DEF DirInv, Edits
<1>6. OwnInv(s)'
  <2>1. Owned(s, dir'[s].meta) /\ Intact(s)'
    BY <1>1, <1>3, WrittenOwn, Zenon DEF OwnInv, Edits
  <2> QED
    BY <1>1, <1>2, <1>3, <1>4, <2>1, Zenon DEF OwnInv, Edits, Written
<1>7. IdInv(s)'
  BY <1>1, <1>2, <1>3, Zenon DEF IdInv, Edits, Empty
<1>8. PartInv(s)'
  <2>1. CASE s \in sid
    <3>1. part'[s].name = s /\ Ident(s) \in mark'[s]
      BY <1>1, <1>2, <2>1, Zenon DEF manifestBundleName, IdInv
    <3>2. pc'[s] = "ckpt" => mark'[s] \subseteq Data(dir'[s].meta.manifest)
      BY <1>2, <1>3, Zenon DEF Edits, Contents, Stored
    <3> QED
      BY <1>1, <1>2, <2>1, <3>1, <3>2, NamesDistinct, Zenon DEF PartInv, SavedInv
  <2>2. CASE s \notin sid
    <3>1. part'[s].name = Legacy /\ Legacy # s
      BY <1>2, <2>2, NamesDistinct DEF manifestBundleName
    <3>2. Empty(dir[s].meta) /\ saved[s] = {} /\ dir' = dir
      BY <1>1, <1>3, <2>2, Zenon DEF IdInv, Edits, Empty
    <3>3. pc'[s] = "ckpt" => mark'[s] = {}
      BY <1>1, <1>2, <1>3, <3>2, DataFacts, Zenon DEF Contents, Stored, Empty
    <3> QED
      BY <1>1, <1>2, <3>1, <3>2, <3>3, Zenon DEF PartInv, SavedInv
  <2> QED
    BY <2>1, <2>2
<1>9. SavedInv(s)'
  BY <1>1, <1>2, <1>3, Zenon DEF SavedInv, Edits
<1> QED
  BY <1>5, <1>6, <1>7, <1>8, <1>9, ZenonT(40) DEF CareInv

\* A step that leaves the files of a running store, and may end its process.
LEMMA CareEnd ==
    ASSUME TypeOK, NEW s \in Stores, CareInv(s), BaseInv(s), pc[s] # "down", Careful,
           UNCHANGED <<dir, reg, remote, bundle, count, saved>>,
           \/ pc'[s] = "down" /\ s \notin sid'
           \/ pc'[s] = "open" /\ sid' = sid
    PROVE  CareInv(s)'
<1>1. /\ DirInv(s) /\ OwnInv(s) /\ IdInv(s) /\ SavedInv(s)
      /\ Stored(s)
  BY DEF CareInv, BaseInv
<1>2. DirInv(s)' /\ OwnInv(s)' /\ SavedInv(s)'
  BY <1>1, Zenon DEF DirInv, OwnInv, SavedInv, Stored, Intact, Written
<1>3. IdInv(s)'
  <2>1. CASE pc'[s] = "open" /\ sid' = sid
    BY <1>1, <2>1, Zenon DEF IdInv
  <2>2. CASE pc'[s] = "down" /\ s \notin sid'
    <3>1. ASSUME s \notin reg PROVE Contents(dir[s]) = {} /\ s \notin sid
      BY <1>1, <2>2, <3>1 DEF Careful, Orderly, RegisterFirst, IdInv
    <3>2. ASSUME s \notin reg PROVE Empty(dir[s].meta) /\ dir[s].wal = {} /\ saved[s] = {}
      BY <1>1, <3>1, <3>2, Zenon DEF IdInv, Contents
    <3> QED
      BY <1>1, <2>2, <3>2, ZenonT(40) DEF IdInv
  <2> QED
    BY <2>1, <2>2
<1>4. PartInv(s)'
  BY Zenon DEF PartInv
<1> QED
  BY <1>2, <1>3, <1>4, Zenon DEF CareInv

\* A completed upload.
LEMMA CareUpload ==
    ASSUME TypeOK, LegacyInv, NEW s \in Stores, CareInv(s), BaseInv(s), UploadOk(s), Careful
    PROVE  CareInv(s)' /\ LegacyInv'
<1> DEFINE m == dir[s].meta
<1>1. /\ DirInv(s) /\ OwnInv(s) /\ IdInv(s) /\ PartInv(s) /\ SavedInv(s)
      /\ Stored(s) /\ pc[s] \in {"ckpt", "closing"}
      /\ part[s].name \in {s, Legacy}
  BY Zenon DEF CareInv, BaseInv, UploadOk
<1>2. part[s].manifest = m.manifest /\ part[s].catalog = m.catalog
  BY <1>1, Zenon DEF PartInv, UploadOk
<1>3. m.iter \in Nat /\ m \in Meta
  BY <1>1, MetaType, Zenon
<1>4. /\ UNCHANGED <<dir, reg, remote, count>>
      /\ saved'[s] = mark[s]
      /\ pc[s] = "ckpt" => pc'[s] = "open" /\ sid' = sid
      /\ pc[s] = "closing" => pc'[s] = "down" /\ sid' = sid \ {s}
  BY <1>1, ZenonT(40) DEF TypeOK, UploadOk, EndUpload
<1>5. /\ bundle'[part[s].name].iter = m.iter
      /\ bundle'[part[s].name].manifest = m.manifest
      /\ bundle'[part[s].name].catalog = m.catalog
      /\ \A n \in Names \ {part[s].name} : bundle'[n] = bundle[n]
  BY <1>1, <1>2 DEF TypeOK, UploadOk, Names
<1>6. s \in Names /\ Legacy \in Names /\ s # Legacy
  BY NamesDistinct DEF Names
<1>7. mark[s] \subseteq Contents(dir[s])
  BY <1>1, Zenon DEF PartInv, BaseInv, Contents, Stored
<1>8. part[s].name = Legacy => bundle[s] = None
  BY <1>1, Zenon DEF PartInv, SavedInv
<1>9. pc[s] = "closing" /\ s \notin reg => Contents(dir[s]) = {} /\ s \notin sid /\ mark[s] = {}
  BY <1>1, <1>4, Zenon DEF Careful, Orderly, RegisterFirst, IdInv, BaseInv
<1>10. LegacyInv'
  <2>1. CASE part[s].name = Legacy
    BY <1>1, <1>5, <2>1, ZenonT(40) DEF LegacyInv, PartInv, Empty
  <2>2. CASE part[s].name = s
    BY <1>5, <1>6, <2>2 DEF LegacyInv
  <2> QED
    BY <1>1, <2>1, <2>2, Zenon
<1>11. DirInv(s)'
  BY <1>1, <1>4, Zenon DEF DirInv, Stored
<1>12. OwnInv(s)'
  <2>1. CASE part[s].name = Legacy
    BY <1>1, <1>4, <1>5, <1>6, <2>1, Zenon DEF OwnInv, Stored, Intact, Written
  <2>2. CASE part[s].name = s
    <3>1. Owned(s, bundle'[s]) /\ bundle'[s].manifest \subseteq remote
      BY <1>1, <1>5, <2>2 DEF OwnInv, Owned, Intact
    <3>2. Data(bundle'[s].manifest) \subseteq Written(s)
      BY <1>1, <1>5, <2>2, Zenon DEF OwnInv, Contents, Stored
    <3>3. bundle'[s].iter <= m.iter
      BY <1>3, <1>5, <2>2
    <3> QED
      BY <1>1, <1>4, <3>1, <3>2, <3>3, ZenonT(40) DEF OwnInv, Stored, Intact, Written
  <2> QED
    BY <1>1, <2>1, <2>2, Zenon
<1>13. IdInv(s)'
  <2>1. CASE pc[s] = "ckpt"
    <3>1. s \notin sid => mark[s] = {}
      BY <1>1, <2>1, Zenon DEF PartInv
    <3> QED
      BY <1>1, <1>4, <2>1, <3>1 DEF IdInv
  <2>2. CASE pc[s] = "closing"
    <3>1. s \notin reg => Empty(m) /\ dir[s].wal = {} /\ mark[s] = {}
      BY <1>1, <1>9, <2>2, Zenon DEF IdInv, Contents
    <3> QED
      BY <1>1, <1>4, <2>2, <3>1, Zenon DEF IdInv
  <2> QED
    BY <1>1, <2>1, <2>2, ZenonT(40)
<1>14. PartInv(s)'
  BY <1>1, <1>4, Zenon DEF PartInv
<1>15. SavedInv(s)'
  <2>1. CASE part[s].name = Legacy
    BY <1>4, <1>5, <1>6, <1>7, <1>8, <2>1, ZenonT(40) DEF SavedInv
  <2>2. CASE part[s].name = s
    <3>1. Ident(s) \in mark[s]
      BY <1>1, <2>2, Zenon DEF PartInv
    <3>2. mark[s] \subseteq Data(m.manifest) \cup (IF pc'[s] = "down" THEN dir[s].wal ELSE {})
      BY <1>1, <1>4, <1>7, Zenon DEF PartInv, Contents, Stored
    <3> QED
      BY <1>4, <1>5, <1>7, <2>2, <3>1, <3>2 DEF SavedInv
  <2> QED
    BY <1>1, <2>1, <2>2
<1> QED
  BY <1>10, <1>11, <1>12, <1>13, <1>14, <1>15 DEF CareInv

\* SharedInv is preserved by careful steps.
LEMMA CareStep ==
    ASSUME Inv, SharedInv, NEW s \in Stores, Step(s), Careful
    PROVE  SharedInv'
<1>1. TypeOK /\ BaseInv(s) /\ LegacyInv /\ CareInv(s)
  BY Zenon DEF Inv, SharedInv
<1>2. /\ dir \in [Stores -> Dir]
      /\ part \in [Stores -> Part]
      /\ pc \in [Stores -> {"down", "open", "ckpt", "closing"}]
      /\ count \in [Stores -> Nat]
  BY <1>1 DEF TypeOK, Dir, Part
<1>3. SUFFICES CareInv(s)' /\ LegacyInv'
  BY CareOthers DEF SharedInv
<1>4. UNCHANGED bundle => LegacyInv'
  BY <1>1, Zenon DEF LegacyInv
<1>5. pc[s] # "down" => Stored(s)
  BY <1>1, Zenon DEF BaseInv
<1>6. CASE Flush(s)
  BY <1>1, <1>4, <1>5, <1>6, FlushEdits, CareEdits DEF Flush, Running
<1>7. CASE Compact(s)
  BY <1>1, <1>4, <1>5, <1>7, CompactEdits, CareEdits, Zenon DEF Compact, Running
<1>8. CASE DeleteObsolete(s)
  BY <1>1, <1>4, <1>5, <1>8, DeleteEdits, CareEdits, Zenon DEF DeleteObsolete, Running
<1>9. CASE WriteIdent(s)
  <2>1. Ident(s) \in Write /\ Commit(s, Ident(s)) /\ UNCHANGED bundle
    BY <1>9 DEF Ident, Write, WriteIdent, Commit
  <2>2. count'[s] = IF count[s] = 0 THEN 1 ELSE count[s]
    BY <1>2, <1>9 DEF WriteIdent
  <2>3. count[s] \in Nat /\ count[s] <= MaxWrites + 1
    BY <1>1, <1>2, Zenon DEF CareInv, OwnInv
  <2>4. Written(s) \subseteq Written(s)' /\ Ident(s) \in Written(s)'
    BY <2>2, <2>3, SMTT(120) DEF Written, Ident
  <2>5. count'[s] <= MaxWrites + 1
    BY <2>2, <2>3, BoundsNat, SMTT(120)
  <2> QED
    BY <1>1, <1>4, <2>1, <2>4, <2>5, CareCommit
<1>10. CASE ClientWrite(s)
  <2> DEFINE w == <<s, count[s]>>
  <2>1. Commit(s, w) /\ UNCHANGED bundle /\ Ident(s) \in Contents(dir[s])
    BY <1>10 DEF ClientWrite, Commit
  <2>2. count'[s] = count[s] + 1 /\ count[s] \in Nat /\ count[s] <= MaxWrites
    BY <1>2, <1>10 DEF ClientWrite
  <2>3. w \in Write
    BY <2>2 DEF Write
  <2>4. Written(s) \subseteq Written(s)' /\ w \in Written(s)'
    BY <2>2 DEF Written
  <2>5. count'[s] <= MaxWrites + 1
    BY <2>2, BoundsNat
  <2> HIDE DEF w
  <2> QED
    BY <1>1, <1>4, <2>1, <2>3, <2>4, <2>5, CareCommit
<1>11. CASE SetStoreID(s)
  <2>1. /\ UNCHANGED <<pc, dir, reg, remote, bundle, part, count, mark, saved>>
        /\ s \in sid' /\ pc[s] # "down" /\ Ident(s) \in Contents(dir[s])
    BY <1>11, Zenon DEF SetStoreID, Running
  <2> QED
    BY <1>1, <1>4, <2>1, Zenon DEF CareInv, DirInv, OwnInv, IdInv, PartInv, SavedInv, Stored, Intact, Written
<1>12. CASE RegisterNode(s)
  <2>1. /\ UNCHANGED <<pc, dir, sid, remote, bundle, part, count, mark, saved>>
        /\ pc[s] # "down" /\ Ident(s) \in Contents(dir[s])
    BY <1>12, Zenon DEF RegisterNode, Running
  <2> QED
    BY <1>1, <1>4, <1>5, <2>1, Zenon DEF CareInv, DirInv, OwnInv, IdInv, PartInv, SavedInv, Stored, Intact, Written
<1>13. CASE Checkpoint(s) \/ Close(s)
  BY <1>1, <1>4, <1>13, CareBegin DEF Checkpoint, Close
<1>14. CASE ReadManifest(s)
  <2>1. part'[s] = [part[s] EXCEPT !.manifest = dir[s].meta.manifest]
    BY <1>2, <1>14 DEF ReadManifest
  <2>2. /\ part'[s].manifest = dir[s].meta.manifest
        /\ part'[s].name = part[s].name
        /\ part'[s].catalog = part[s].catalog
    BY <1>2, <2>1 DEF Part
  <2>3. UNCHANGED <<pc, dir, sid, reg, remote, bundle, count, mark, saved>>
    BY <1>14 DEF ReadManifest
  <2> QED
    BY <1>1, <1>4, <2>2, <2>3, Zenon DEF CareInv, DirInv, OwnInv, IdInv, PartInv, SavedInv, Stored, Intact, Written
<1>15. CASE ReadCatalog(s)
  <2>1. part'[s] = [part[s] EXCEPT !.catalog = dir[s].meta.catalog]
    BY <1>2, <1>15 DEF ReadCatalog
  <2>2. /\ part'[s].catalog = dir[s].meta.catalog
        /\ part'[s].name = part[s].name
        /\ part'[s].manifest = part[s].manifest
    BY <1>2, <2>1 DEF Part
  <2>3. UNCHANGED <<pc, dir, sid, reg, remote, bundle, count, mark, saved>>
    BY <1>15 DEF ReadCatalog
  <2> QED
    BY <1>1, <1>4, <2>2, <2>3, Zenon DEF CareInv, DirInv, OwnInv, IdInv, PartInv, SavedInv, Stored, Intact, Written
<1>16. CASE UploadOk(s)
  BY <1>1, <1>16, CareUpload, Zenon
<1>17. CASE UploadFail(s)
  <2>1. /\ UNCHANGED <<dir, reg, remote, bundle, count, saved>> /\ pc[s] # "down"
        /\ \/ pc'[s] = "down" /\ s \notin sid'
           \/ pc'[s] = "open" /\ sid' = sid
    BY <1>2, <1>17, Zenon DEF UploadFail, EndUpload
  <2> QED
    BY <1>1, <1>4, <2>1, CareEnd, Zenon
<1>18. CASE Crash(s)
  <2>1. /\ UNCHANGED <<dir, reg, remote, bundle, count, saved>> /\ pc[s] # "down"
        /\ pc'[s] = "down" /\ s \notin sid'
    BY <1>2, <1>18 DEF Crash
  <2> QED
    BY <1>1, <1>4, <2>1, CareEnd
<1>19. CASE LoseDir(s)
  <2>1. dir'[s] = EmptyDir /\ dir[s] # EmptyDir
    BY <1>2, <1>19, Zenon DEF LoseDir
  <2>2. ~dir[s].minver
    BY <2>1 DEF Careful, Orderly, KeepDir, EmptyDir
  <2>3. dir[s].meta = None /\ dir[s].wal = {} /\ dir[s].minver = FALSE
    BY <1>1, <1>2, <2>2, Zenon DEF CareInv, DirInv, Stored, Dir
  <2>4. dir[s] = [meta |-> dir[s].meta, wal |-> dir[s].wal, minver |-> dir[s].minver]
    BY <1>2, Zenon DEF Dir
  <2> QED
    BY <2>1, <2>3, <2>4, Zenon DEF EmptyDir
<1>20. CASE Open(s)
  <2>1. Reopens(s)
    BY <1>1, <1>20, Reopen, Zenon DEF Open, RecoveryStoreID
  <2>2. /\ dir'[s] = Opened(s) /\ pc'[s] = "open" /\ pc[s] = "down"
        /\ UNCHANGED <<reg, remote, bundle, part, count, saved>>
        /\ s \in reg => s \in sid'
        /\ s \notin reg => sid' = sid
    BY <1>2, <1>20, Zenon DEF Open, RecoveryStoreID
  <2>3. Opened(s).meta # None /\ Opened(s).meta.iter \in Nat /\ Opened(s).minver
    BY <1>1, OpenedFacts, Zenon
  <2>4. bundle[s] # None => bundle[s].iter \in Nat
    BY <1>1, Zenon DEF TypeOK, Names, Meta
  <2>5. DirInv(s)'
    BY <2>2, <2>3 DEF DirInv, Stored
  <2>6. OwnInv(s)'
    <3>1. Intact(s)'
      BY <2>1, <2>2, ZenonT(40) DEF Reopens, Owned, Intact
    <3>2. bundle[s] # None => bundle[s].iter <= Opened(s).meta.iter
      BY <2>1, <2>3, <2>4 DEF Reopens
    <3> QED
      BY <1>1, <2>1, <2>2, <3>1, <3>2, Zenon DEF CareInv, OwnInv, Reopens, Stored, Written
  <2>7. IdInv(s)'
    BY <1>1, <2>1, <2>2, Zenon DEF CareInv, IdInv, Reopens
  <2>8. PartInv(s)'
    BY <2>2, Zenon DEF PartInv
  <2>9. SavedInv(s)'
    <3>1. bundle[s] # None => ~(bundle[s].iter >= Opened(s).meta.iter)
      <4>1. bundle[s] # None => bundle[s].iter < Opened(s).meta.iter
        BY <2>1, Zenon DEF Reopens
      <4>2. \A x, y \in Nat : x < y => ~(x >= y)
        OBVIOUS
      <4> QED
        BY <2>3, <2>4, <4>1, <4>2, Zenon
    <3> QED
      BY <1>1, <2>1, <2>2, <3>1, Zenon DEF CareInv, SavedInv, Reopens
  <2> QED
    BY <1>4, <2>2, <2>5, <2>6, <2>7, <2>8, <2>9, Zenon DEF CareInv
<1>21. CASE OpenRefused(s)
  BY <1>1, <1>21, Reopen DEF OpenRefused, Reopens
<1> QED
  BY <1>6, <1>7, <1>8, <1>9, <1>10, <1>11, <1>12, <1>13, <1>14, <1>15, <1>16, <1>17,
     <1>18, <1>19, <1>20, <1>21 DEF Step

-----------------------------------------------------------------------------
\* A store alone at its URL and orderly: what its last upload covered is not lost.

\* A store with a min version file has metadata, a registered one has both, and
\* one that has a bundle of its own has metadata that is not older.
HomeInv(s) ==
    /\ dir[s].minver => Stored(s)
    /\ s \in reg => dir[s].minver
    /\ bundle[s] # None => Stored(s) /\ bundle[s].iter <= dir[s].meta.iter

\* A store that runs without its id, or is down and would be opened without it.
Nameless(s) == IF pc[s] = "down" THEN s \notin reg ELSE s \notin sid

\* Such a store has no SSTables, and neither has the bundle it would get.
BareInv(s) ==
    /\ pc[s] = "down" => s \notin sid
    /\ Contents(dir[s]) # {} \/ s \in sid \/ s \in reg => Ident(s) \in Contents(dir[s])
    /\ Nameless(s) =>
        /\ saved[s] = {} /\ bundle[s] = None
        /\ bundle[Legacy] # None => bundle[Legacy].manifest = {}
        /\ part[s].manifest # None => part[s].manifest = {}
        /\ Stored(s) => dir[s].meta.manifest = {}
        /\ pc[s] = "down" => dir[s].wal = {}

\* What a checkpoint has to cover is in the MANIFEST, and in what it has read of
\* it. It goes to the shared bundle only if that is nothing.
LoadInv(s) ==
    /\ pc[s] = "ckpt" =>
        /\ mark[s] \subseteq Data(dir[s].meta.manifest)
        /\ part[s].manifest # None => mark[s] \subseteq Data(part[s].manifest)
    /\ pc[s] \in {"ckpt", "closing"} =>
        /\ part[s].name = s => s \in sid /\ Ident(s) \in mark[s]
        /\ part[s].name = Legacy =>
            bundle[s] = None /\ saved[s] = {} /\ (pc[s] = "ckpt" => mark[s] = {})

\* All of it.
LossInv(s) == HomeInv(s) /\ BareInv(s) /\ LoadInv(s) /\ SavedInv(s)

\* Flushes, compactions and deletions of a running store.
LEMMA LossEdits ==
    ASSUME NEW s \in Stores, LossInv(s), BaseInv(s), Running(s), Edits(s),
           UNCHANGED <<pc, sid, reg, bundle, part, mark, saved>>
    PROVE  LossInv(s)'
<1>1. /\ HomeInv(s) /\ BareInv(s) /\ LoadInv(s) /\ SavedInv(s)
      /\ Stored(s) /\ pc[s] \in {"open", "ckpt"}
  BY Zenon DEF LossInv, BaseInv, Running
<1>2. HomeInv(s)'
  BY <1>1, Zenon DEF HomeInv, Edits
<1>3. BareInv(s)'
  BY <1>1, Zenon DEF BareInv, Nameless, Edits
<1>4. LoadInv(s)'
  <2>1. Data(dir[s].meta.manifest) \subseteq Data(dir'[s].meta.manifest)
    BY DEF Edits
  <2>2. mark[s] \subseteq Data(dir[s].meta.manifest) => mark[s] \subseteq Data(dir'[s].meta.manifest)
    BY <2>1
  <2> QED
    BY <1>1, <2>2, Zenon DEF LoadInv
<1>5. SavedInv(s)'
  BY <1>1, Zenon DEF SavedInv, Edits
<1> QED
  BY <1>2, <1>3, <1>4, <1>5 DEF LossInv

\* Writes.
LEMMA LossCommit ==
    ASSUME TypeOK, NEW s \in Stores, LossInv(s), BaseInv(s), NEW w \in Write, Commit(s, w),
           w = Ident(s) \/ Ident(s) \in Contents(dir[s])
    PROVE  LossInv(s)'
<1>1. /\ HomeInv(s) /\ BareInv(s) /\ LoadInv(s) /\ SavedInv(s)
      /\ Stored(s) /\ pc[s] \in {"open", "ckpt"}
  BY DEF LossInv, BaseInv, Commit, Running
<1>2. /\ Stored(s)'
      /\ dir'[s].meta = dir[s].meta
      /\ dir'[s].minver = dir[s].minver
      /\ Contents(dir'[s]) = Contents(dir[s]) \cup {w}
  BY <1>1, CommitFacts, Zenon
<1>3. UNCHANGED <<pc, sid, reg, bundle, part, mark, saved>>
  BY DEF Commit
<1>4. HomeInv(s)'
  BY <1>1, <1>2, <1>3, Zenon DEF HomeInv
<1>5. BareInv(s)'
  BY <1>1, <1>2, <1>3, Zenon DEF BareInv, Nameless
<1>6. LoadInv(s)'
  BY <1>1, <1>2, <1>3, Zenon DEF LoadInv
<1>7. SavedInv(s)'
  BY <1>1, <1>2, <1>3, Zenon DEF SavedInv
<1> QED
  BY <1>4, <1>5, <1>6, <1>7, Zenon DEF LossInv

\* Checkpoint and Close, up to the upload.
LEMMA LossBegin ==
    ASSUME TypeOK, NEW s \in Stores, LossInv(s), BaseInv(s), pc[s] = "open",
           Checkpoint(s) \/ Close(s)
    PROVE  LossInv(s)'
<1>1. /\ HomeInv(s) /\ BareInv(s) /\ SavedInv(s)
      /\ Stored(s)
  BY DEF LossInv, BaseInv
<1>2. /\ UNCHANGED <<sid, reg, bundle, count, saved>>
      /\ pc'[s] \in {"ckpt", "closing"}
      /\ mark'[s] = Contents(dir[s])
      /\ part'[s].name = manifestBundleName(s \in sid, s)
      /\ part'[s].manifest = None /\ part'[s].catalog = None
  BY DEF TypeOK, Checkpoint, Close, Unread
<1>3. Edits(s) /\ (pc'[s] = "ckpt" => dir'[s].wal = {})
  BY <1>1, BeginEdits
<1>4. HomeInv(s)'
  BY <1>1, <1>2, <1>3, Zenon DEF HomeInv, Edits
<1>5. BareInv(s)'
  BY <1>1, <1>2, <1>3, Zenon DEF BareInv, Nameless, Edits
<1>6. pc'[s] = "ckpt" => mark'[s] \subseteq Data(dir'[s].meta.manifest)
  BY <1>2, <1>3, Zenon DEF Edits, Contents, Stored
<1>7. LoadInv(s)'
  <2>1. CASE s \in sid
    <3>1. part'[s].name = s /\ Ident(s) \in mark'[s] /\ s # Legacy
      BY <1>1, <1>2, <2>1, NamesDistinct, Zenon DEF manifestBundleName, BareInv
    <3> QED
      BY <1>2, <1>6, <2>1, <3>1, Zenon DEF LoadInv
  <2>2. CASE s \notin sid
    <3>1. part'[s].name = Legacy /\ Legacy # s
      BY <1>2, <2>2, NamesDistinct DEF manifestBundleName
    <3>2. saved[s] = {} /\ bundle[s] = None /\ dir'[s].meta.manifest = {}
      BY <1>1, <1>3, <2>2, Zenon DEF BareInv, Nameless, Edits
    <3>3. pc'[s] = "ckpt" => mark'[s] = {}
      BY <1>6, <3>2, DataFacts
    <3> QED
      BY <1>2, <1>6, <3>1, <3>2, <3>3, Zenon DEF LoadInv
  <2> QED
    BY <2>1, <2>2
<1>8. SavedInv(s)'
  BY <1>1, <1>2, <1>3, Zenon DEF SavedInv, Edits
<1> QED
  BY <1>4, <1>5, <1>7, <1>8, Zenon DEF LossInv

\* An orderly store that goes down and is not registered holds nothing.
LEMMA DownBare ==
    ASSUME NEW s \in Stores, BareInv(s), BaseInv(s), pc[s] # "down", Orderly,
           pc'[s] = "down", s \notin reg
    PROVE  /\ s \notin sid /\ Contents(dir[s]) = {}
           /\ dir[s].wal = {} /\ dir[s].meta.manifest = {}
<1>1. Ident(s) \notin Contents(dir[s])
  BY DEF Orderly, RegisterFirst
<1>2. s \notin sid /\ Contents(dir[s]) = {}
  BY <1>1, Zenon DEF BareInv
<1> QED
  BY <1>2, Zenon DEF BareInv, Nameless, BaseInv, Contents

\* A step that leaves the files of a running store, and may end its process.
LEMMA LossEnd ==
    ASSUME NEW s \in Stores, LossInv(s), BaseInv(s), pc[s] # "down", Orderly,
           UNCHANGED <<dir, reg, bundle, saved>>, part'[s].manifest = None,
           \/ pc'[s] = "down" /\ s \notin sid'
           \/ pc'[s] = "open" /\ sid' = sid
    PROVE  LossInv(s)'
<1>1. HomeInv(s) /\ BareInv(s) /\ SavedInv(s) /\ Stored(s)
  BY DEF LossInv, BaseInv
<1>2. HomeInv(s)' /\ SavedInv(s)'
  BY <1>1, Zenon DEF HomeInv, SavedInv, Stored
<1>3. BareInv(s)'
  <2>1. CASE pc'[s] = "open" /\ sid' = sid
    BY <1>1, <2>1, Zenon DEF BareInv, Nameless, Stored
  <2>2. CASE pc'[s] = "down" /\ s \notin sid'
    <3>1. s \notin reg => s \notin sid /\ dir[s].wal = {}
      BY <1>1, <2>2, DownBare, Zenon
    <3> QED
      BY <1>1, <2>2, <3>1, ZenonT(40) DEF BareInv, Nameless, Stored
  <2> QED
    BY <2>1, <2>2
<1>4. LoadInv(s)'
  BY Zenon DEF LoadInv
<1> QED
  BY <1>2, <1>3, <1>4, Zenon DEF LossInv

\* A completed upload.
LEMMA LossUpload ==
    ASSUME TypeOK, NEW s \in Stores, LossInv(s), BaseInv(s), UploadOk(s), Orderly
    PROVE  LossInv(s)'
<1> DEFINE m == dir[s].meta
<1>1. /\ HomeInv(s) /\ BareInv(s) /\ LoadInv(s) /\ SavedInv(s)
      /\ Stored(s) /\ pc[s] \in {"ckpt", "closing"}
      /\ part[s].name \in {s, Legacy}
  BY Zenon DEF LossInv, BaseInv, UploadOk
<1>2. m.iter \in Nat /\ m \in Meta
  BY <1>1, MetaType, Zenon
<1>3. /\ UNCHANGED <<dir, reg>>
      /\ saved'[s] = mark[s] /\ part'[s].manifest = None
      /\ pc[s] = "ckpt" => pc'[s] = "open" /\ sid' = sid
      /\ pc[s] = "closing" => pc'[s] = "down" /\ sid' = sid \ {s}
  BY <1>1, ZenonT(40) DEF TypeOK, UploadOk, EndUpload, Unread
<1>4. /\ bundle'[part[s].name].iter = m.iter
      /\ bundle'[part[s].name].manifest = part[s].manifest
      /\ \A n \in Names \ {part[s].name} : bundle'[n] = bundle[n]
  BY <1>1 DEF TypeOK, UploadOk, Names
<1>5. s \in Names /\ Legacy \in Names /\ s # Legacy
  BY NamesDistinct DEF Names
<1>6. mark[s] \subseteq Contents(dir[s])
  BY <1>1, Zenon DEF LoadInv, BaseInv, Contents, Stored
<1>7. part[s].manifest # None
  BY DEF UploadOk
<1>8. mark[s] \subseteq Data(part[s].manifest) \cup (IF pc'[s] = "down" THEN dir[s].wal ELSE {})
  <2>1. CASE pc[s] = "ckpt"
    BY <1>1, <1>7, <2>1, Zenon DEF LoadInv
  <2>2. CASE pc[s] = "closing"
    BY <1>1, <1>3, <1>7, <2>2, Zenon DEF BaseInv, Contents, Stored
  <2> QED
    BY <1>1, <2>1, <2>2, Zenon
<1>9. HomeInv(s)'
  <2>1. part[s].name = s => bundle'[s].iter <= m.iter
    BY <1>2, <1>4
  <2>2. part[s].name = Legacy => bundle'[s] = bundle[s]
    BY <1>4, <1>5, Zenon
  <2> QED
    BY <1>1, <1>3, <2>1, <2>2, ZenonT(40) DEF HomeInv, Stored
<1>10. pc[s] = "closing" /\ s \notin reg => s \notin sid /\ mark[s] = {} /\ dir[s].wal = {}
  BY <1>1, <1>3, DownBare, Zenon DEF BaseInv
<1>11. Nameless(s)' => Nameless(s) /\ part[s].name = Legacy /\ mark[s] = {}
  <2>1. CASE pc[s] = "ckpt"
    BY <1>1, <1>3, <2>1, Zenon DEF Nameless, LoadInv
  <2>2. CASE pc[s] = "closing"
    <3>1. s \notin sid => part[s].name = Legacy
      BY <1>1, Zenon DEF LoadInv
    <3> QED
      BY <1>3, <1>10, <2>2, <3>1, Zenon DEF Nameless
  <2> QED
    BY <1>1, <2>1, <2>2, Zenon
<1>12. BareInv(s)'
  <2>1. pc'[s] = "down" => s \notin sid' /\ (s \notin reg => dir[s].wal = {})
    BY <1>1, <1>3, <1>10
  <2>2. s \in sid' => s \in sid
    BY <1>1, <1>3
  <2>3. ASSUME Nameless(s)'
        PROVE  /\ saved'[s] = {} /\ bundle'[s] = None
               /\ bundle'[Legacy] # None => bundle'[Legacy].manifest = {}
               /\ part'[s].manifest # None => part'[s].manifest = {}
               /\ Stored(s) => m.manifest = {}
               /\ pc'[s] = "down" => dir[s].wal = {}
    <3>1. Nameless(s) /\ part[s].name = Legacy /\ mark[s] = {}
      BY <1>11, <2>3, Zenon
    <3>2. bundle'[s] = bundle[s] /\ bundle'[Legacy].manifest = part[s].manifest
      BY <1>4, <1>5, <3>1, Zenon
    <3>3. pc'[s] = "down" => s \notin reg
      BY <1>3, <2>3 DEF Nameless
    <3> QED
      BY <1>1, <1>3, <1>7, <2>1, <3>1, <3>2, <3>3, Zenon DEF BareInv
  <2> QED
    BY <1>1, <1>3, <2>1, <2>2, <2>3, ZenonT(40) DEF BareInv, Stored
<1>13. LoadInv(s)'
  BY <1>1, <1>3, Zenon DEF LoadInv
<1>14. SavedInv(s)'
  <2>1. CASE part[s].name = Legacy
    <3>1. bundle'[s] = None
      BY <1>1, <1>4, <1>5, <2>1, Zenon DEF LoadInv
    <3> QED
      BY <1>3, <1>6, <3>1, ZenonT(40) DEF SavedInv
  <2>2. CASE part[s].name = s
    <3>1. Ident(s) \in mark[s]
      BY <1>1, <2>2, Zenon DEF LoadInv
    <3> QED
      BY <1>3, <1>4, <1>6, <1>8, <2>2, <3>1 DEF SavedInv
  <2> QED
    BY <1>1, <2>1, <2>2
<1> QED
  BY <1>9, <1>12, <1>13, <1>14 DEF LossInv

\* What a store that is down gets from its bundle, if anything, is no less than
\* its last upload covered.
LEMMA LossReopen ==
    ASSUME TypeOK, NEW s \in Stores, LossInv(s), pc[s] = "down"
    PROVE  /\ saved[s] \subseteq Contents(Opened(s))
           /\ Contents(Opened(s)) # {} \/ s \in reg => Ident(s) \in Contents(Opened(s))
           /\ s \notin reg /\ Downloaded(s) # None => Downloaded(s).manifest = {}
           /\ Stored(s) => Downloaded(s) # None
           /\ bundle[s] # None =>
                /\ bundle[s].iter <= Downloaded(s).iter
                /\ bundle[s].iter >= Downloaded(s).iter =>
                     saved[s] \subseteq Data(bundle[s].manifest) \cup dir[s].wal
<1>1. HomeInv(s) /\ BareInv(s) /\ SavedInv(s)
  BY DEF LossInv
<1>2. Stored(s) => Downloaded(s) # None
  BY Zenon DEF Downloaded, Stored
<1>3. /\ Downloaded(s) # None => Contents(Opened(s)) = Data(Downloaded(s).manifest) \cup dir[s].wal
      /\ Downloaded(s) = None => Contents(Opened(s)) = dir[s].wal
  BY OpenedFacts, Zenon
<1>4. CASE s \in reg
  <2>1. Stored(s)
    BY <1>1, <1>4 DEF HomeInv
  <2>2. bundle[s] # None => bundle[s].iter \in Nat
    BY DEF TypeOK, Names, Meta
  <2>3. CASE bundle[s] # None /\ bundle[s].iter >= dir[s].meta.iter
    <3>1. Downloaded(s) = bundle[s]
      BY <1>4, <2>3, Zenon DEF Downloaded, RecoveryStoreID, manifestBundleName
    <3>2. saved[s] \subseteq Data(bundle[s].manifest) \cup dir[s].wal /\ Ident(s) \in saved[s]
      BY <1>1, <2>3, Zenon DEF SavedInv
    <3>3. Contents(Opened(s)) = Data(bundle[s].manifest) \cup dir[s].wal
      BY <1>3, <2>3, <3>1, Zenon
    <3>4. bundle[s].iter <= bundle[s].iter
      BY <2>2, <2>3
    <3> QED
      BY <1>2, <1>4, <3>1, <3>2, <3>3, <3>4, ZenonT(40)
  <2>4. CASE ~(bundle[s] # None /\ bundle[s].iter >= dir[s].meta.iter)
    <3>1. Downloaded(s) = dir[s].meta
      BY <1>4, <2>1, <2>4, Zenon DEF Downloaded, RecoveryStoreID, manifestBundleName, Stored
    <3>2. Contents(Opened(s)) = Contents(dir[s])
      BY <1>3, <2>1, <3>1, Zenon DEF Contents, Stored
    <3>3. saved[s] \subseteq Contents(dir[s]) /\ Ident(s) \in Contents(dir[s])
      BY <1>1, <1>4, Zenon DEF SavedInv, BareInv
    <3> QED
      BY <1>1, <1>2, <1>4, <2>4, <3>1, <3>2, <3>3, ZenonT(40) DEF HomeInv
  <2> QED
    BY <2>3, <2>4, Zenon
<1>5. CASE s \notin reg
  <2>1. /\ saved[s] = {} /\ bundle[s] = None /\ dir[s].wal = {}
        /\ bundle[Legacy] # None => bundle[Legacy].manifest = {}
        /\ Stored(s) => dir[s].meta.manifest = {}
    BY <1>1, <1>5 DEF BareInv, Nameless
  <2>2. Downloaded(s) # None => Downloaded(s).manifest = {}
    BY <1>5, <2>1 DEF Downloaded, RecoveryStoreID, manifestBundleName, Stored
  <2>3. Contents(Opened(s)) = {}
    BY <1>3, <2>1, <2>2, DataFacts
  <2> QED
    BY <1>2, <1>5, <2>1, <2>2, <2>3, Zenon
<1> QED
  BY <1>4, <1>5, Zenon

\* LossInv is preserved by orderly steps of the store.
LEMMA LossStep ==
    ASSUME TypeOK, NEW s \in Stores, LossInv(s), BaseInv(s), Step(s), Orderly
    PROVE  LossInv(s)'
<1>1. /\ dir \in [Stores -> Dir]
      /\ part \in [Stores -> Part]
      /\ pc \in [Stores -> {"down", "open", "ckpt", "closing"}]
  BY DEF TypeOK, Dir, Part
<1>2. HomeInv(s) /\ BareInv(s) /\ LoadInv(s) /\ SavedInv(s) /\ (pc[s] # "down" => Stored(s))
  BY Zenon DEF LossInv, BaseInv
<1>3. CASE Flush(s)
  BY <1>2, <1>3, FlushEdits, LossEdits DEF Flush, Running
<1>4. CASE Compact(s)
  BY <1>2, <1>4, CompactEdits, LossEdits, Zenon DEF Compact, Running
<1>5. CASE DeleteObsolete(s)
  BY <1>2, <1>5, DeleteEdits, LossEdits, Zenon DEF DeleteObsolete, Running
<1>6. CASE WriteIdent(s)
  <2>1. Ident(s) \in Write /\ Commit(s, Ident(s))
    BY <1>6 DEF Ident, Write, WriteIdent
  <2> QED
    BY <2>1, LossCommit, Zenon
<1>7. CASE ClientWrite(s)
  <2>1. <<s, count[s]>> \in Write
    BY Zenon DEF TypeOK, Write
  <2> QED
    BY <1>7, <2>1, LossCommit, Zenon DEF ClientWrite
<1>8. CASE SetStoreID(s)
  <2>1. /\ UNCHANGED <<pc, dir, reg, bundle, part, mark, saved>>
        /\ s \in sid' /\ pc[s] # "down" /\ Ident(s) \in Contents(dir[s])
    BY <1>8, Zenon DEF SetStoreID, Running
  <2> QED
    BY <1>2, <2>1, Zenon DEF LossInv, HomeInv, BareInv, Nameless, LoadInv, SavedInv, Stored
<1>9. CASE RegisterNode(s)
  <2>1. /\ UNCHANGED <<pc, dir, sid, bundle, part, mark, saved>>
        /\ pc[s] # "down" /\ Ident(s) \in Contents(dir[s]) /\ dir[s].minver
    BY <1>9, Zenon DEF RegisterNode, Running, BaseInv
  <2> QED
    BY <1>2, <2>1, Zenon DEF LossInv, HomeInv, BareInv, Nameless, LoadInv, SavedInv, Stored
<1>10. CASE Checkpoint(s) \/ Close(s)
  BY <1>10, LossBegin DEF Checkpoint, Close
<1>11. CASE ReadManifest(s)
  <2>1. part'[s] = [part[s] EXCEPT !.manifest = dir[s].meta.manifest]
    BY <1>1, <1>11 DEF ReadManifest
  <2>2. part'[s].manifest = dir[s].meta.manifest /\ part'[s].name = part[s].name
    BY <1>1, <2>1 DEF Part
  <2>3. UNCHANGED <<pc, dir, sid, reg, bundle, mark, saved>> /\ pc[s] # "down"
    BY <1>11 DEF ReadManifest
  <2> QED
    BY <1>2, <2>2, <2>3, Zenon DEF LossInv, HomeInv, BareInv, Nameless, LoadInv, SavedInv, Stored
<1>12. CASE ReadCatalog(s)
  <2>1. part'[s] = [part[s] EXCEPT !.catalog = dir[s].meta.catalog]
    BY <1>1, <1>12 DEF ReadCatalog
  <2>2. part'[s].manifest = part[s].manifest /\ part'[s].name = part[s].name
    BY <1>1, <2>1 DEF Part
  <2>3. UNCHANGED <<pc, dir, sid, reg, bundle, mark, saved>>
    BY <1>12 DEF ReadCatalog
  <2> QED
    BY <1>2, <2>2, <2>3, Zenon DEF LossInv, HomeInv, BareInv, Nameless, LoadInv, SavedInv, Stored
<1>13. CASE UploadOk(s)
  BY <1>13, LossUpload, Zenon
<1>14. CASE UploadFail(s)
  <2>1. /\ UNCHANGED <<dir, reg, bundle, saved>> /\ pc[s] # "down" /\ part'[s].manifest = None
        /\ \/ pc'[s] = "down" /\ s \notin sid'
           \/ pc'[s] = "open" /\ sid' = sid
    BY <1>1, <1>14, Zenon DEF UploadFail, EndUpload, Unread
  <2> QED
    BY <2>1, LossEnd, Zenon
<1>15. CASE Crash(s)
  <2>1. /\ UNCHANGED <<dir, reg, bundle, saved>> /\ pc[s] # "down" /\ part'[s].manifest = None
        /\ pc'[s] = "down" /\ s \notin sid'
    BY <1>1, <1>15 DEF Crash, Unread
  <2> QED
    BY <2>1, LossEnd
<1>16. CASE LoseDir(s)
  <2>1. /\ dir'[s] = EmptyDir /\ pc[s] = "down"
        /\ UNCHANGED <<pc, sid, reg, bundle, part, mark, saved>>
    BY <1>1, <1>16, Zenon DEF LoseDir
  <2>2. ~dir[s].minver
    BY <2>1 DEF Orderly, KeepDir, EmptyDir
  <2>3. /\ ~Stored(s)' /\ dir'[s].wal = {} /\ ~dir'[s].minver
        /\ Contents(dir'[s]) = {}
    BY <2>1 DEF EmptyDir, Stored, Contents
  <2>4. s \notin reg /\ s \notin sid /\ saved[s] = {} /\ bundle[s] = None
    BY <1>2, <2>1, <2>2, Zenon DEF HomeInv, BareInv, Nameless
  <2> QED
    BY <1>2, <2>1, <2>3, <2>4, ZenonT(40) DEF LossInv, HomeInv, BareInv, Nameless, LoadInv, SavedInv
<1>17. CASE Open(s)
  <2>1. /\ dir'[s] = Opened(s) /\ pc'[s] = "open" /\ pc[s] = "down"
        /\ UNCHANGED <<reg, bundle, part, saved>>
        /\ s \in reg => s \in sid'
        /\ s \notin reg => sid' = sid
    BY <1>1, <1>17, Zenon DEF Open, RecoveryStoreID
  <2>2. /\ Opened(s).meta # None /\ Opened(s).meta.iter \in Nat /\ Opened(s).minver
        /\ Downloaded(s) \in Meta \cup {None}
        /\ Downloaded(s) # None =>
             /\ Opened(s).meta.iter = Downloaded(s).iter + 1
             /\ Opened(s).meta.manifest = Downloaded(s).manifest
        /\ Downloaded(s) = None => Opened(s).meta.manifest = {}
    BY OpenedFacts, Zenon DEF Empty
  <2>3. bundle[s] # None => bundle[s].iter \in Nat
    BY Zenon DEF TypeOK, Names, Meta
  <2>4. bundle[s] # None =>
          bundle[s].iter <= Opened(s).meta.iter /\ ~(bundle[s].iter >= Opened(s).meta.iter)
    <3>1. ASSUME bundle[s] # None PROVE Downloaded(s) # None /\ bundle[s].iter <= Downloaded(s).iter
      BY <1>2, <2>1, <3>1, LossReopen, Zenon DEF HomeInv
    <3>2. Downloaded(s) # None => Downloaded(s).iter \in Nat
      BY <2>2 DEF Meta
    <3>3. Downloaded(s) # None => Opened(s).meta.iter = Downloaded(s).iter + 1
      BY <2>2, Zenon
    <3> QED
      BY <2>3, <3>1, <3>2, <3>3
  <2>5. HomeInv(s)'
    BY <2>1, <2>2, <2>4, Zenon DEF HomeInv, Stored
  <2>6. BareInv(s)'
    <3>1. s \in sid' => s \in reg
      BY <1>2, <2>1, Zenon DEF BareInv
    <3>2. Contents(Opened(s)) # {} \/ s \in reg => Ident(s) \in Contents(Opened(s))
      BY <2>1, LossReopen, Zenon
    <3>3. s \notin reg => Opened(s).meta.manifest = {}
      BY <2>1, <2>2, LossReopen, Zenon
    <3> QED
      BY <1>2, <2>1, <3>1, <3>2, <3>3, ZenonT(40) DEF BareInv, Nameless
  <2>7. LoadInv(s)'
    BY <2>1, Zenon DEF LoadInv
  <2>8. SavedInv(s)'
    <3>1. saved[s] \subseteq Contents(Opened(s))
      BY <2>1, LossReopen, Zenon
    <3> QED
      BY <1>2, <2>1, <2>4, <3>1, Zenon DEF SavedInv
  <2> QED
    BY <2>5, <2>6, <2>7, <2>8, Zenon DEF LossInv
<1>18. CASE OpenRefused(s)
  <2>1. pc[s] = "down" /\ UNCHANGED <<pc, sid, reg, bundle, part, mark, saved>>
    BY <1>18, Zenon DEF OpenRefused
  <2>2. [dir[s] EXCEPT !.meta = Downloaded(s)] =
          [meta |-> Downloaded(s), wal |-> dir[s].wal, minver |-> dir[s].minver]
    BY <1>1, SetMeta
  <2>3. dir' = [dir EXCEPT ![s] = [dir[s] EXCEPT !.meta = Downloaded(s)]]
    BY <1>18, Zenon DEF OpenRefused
  <2>4. dir'[s].meta = Downloaded(s) /\ dir'[s].wal = dir[s].wal /\ dir'[s].minver = dir[s].minver
    BY <1>1, <2>2, <2>3
  <2>5. Contents(dir'[s]) = Contents(Opened(s))
    <3>1. /\ Downloaded(s) # None => Contents(Opened(s)) = Data(Downloaded(s).manifest) \cup dir[s].wal
          /\ Downloaded(s) = None => Contents(Opened(s)) = dir[s].wal
      BY OpenedFacts, Zenon
    <3> QED
      BY <2>4, <3>1 DEF Contents
  <2>6. HomeInv(s)'
    BY <1>2, <2>1, <2>4, LossReopen, Zenon DEF HomeInv, Stored
  <2>7. BareInv(s)'
    <3>1. Contents(Opened(s)) # {} \/ s \in reg => Ident(s) \in Contents(Opened(s))
      BY <2>1, LossReopen, Zenon
    <3>2. s \notin reg /\ Downloaded(s) # None => Downloaded(s).manifest = {}
      BY <2>1, LossReopen, Zenon
    <3> QED
      BY <1>2, <2>1, <2>4, <2>5, <3>1, <3>2, ZenonT(40) DEF BareInv, Nameless, Stored
  <2>8. LoadInv(s)'
    BY <2>1, Zenon DEF LoadInv
  <2>9. SavedInv(s)'
    <3>1. saved[s] \subseteq Contents(Opened(s))
      BY <2>1, LossReopen, Zenon
    <3>2. bundle[s] # None /\ bundle[s].iter >= Downloaded(s).iter =>
            saved[s] \subseteq Data(bundle[s].manifest) \cup dir[s].wal
      BY <2>1, LossReopen, Zenon
    <3> QED
      BY <1>2, <2>1, <2>4, <2>5, <3>1, <3>2, ZenonT(40) DEF SavedInv
  <2> QED
    BY <2>6, <2>7, <2>8, <2>9, Zenon DEF LossInv
<1> QED
  BY <1>3, <1>4, <1>5, <1>6, <1>7, <1>8, <1>9, <1>10, <1>11, <1>12, <1>13, <1>14, <1>15,
     <1>16, <1>17, <1>18 DEF Step

-----------------------------------------------------------------------------
\* The inductive invariant.
IInv ==
    /\ Inv
    /\ Alone => IntactInv
    /\ Alone /\ orderly => \A s \in Stores : LossInv(s)
    /\ careful => SharedInv

\* It holds initially.
LEMMA InitInv == Init => IInv
<1> SUFFICES ASSUME Init PROVE IInv
  OBVIOUS
<1>1. TypeOK
  BY DEF Init, TypeOK, EmptyDir, Unread, Names
<1>2. ASSUME NEW s \in Stores
      PROVE  /\ pc[s] = "down" /\ dir[s] = EmptyDir /\ bundle[s] = None
             /\ count[s] = 0 /\ saved[s] = {}
  BY Zenon DEF Init, Names
<1>3. ASSUME NEW s \in Stores PROVE BaseInv(s)
  BY <1>2, Zenon DEF Init, BaseInv
<1>4. IntactInv
  BY <1>2 DEF Init, IntactInv
<1>5. ASSUME NEW s \in Stores PROVE CareInv(s)
  <2>1. ~Stored(s) /\ dir[s].wal = {} /\ ~dir[s].minver /\ Contents(dir[s]) = {}
    <3>1. EmptyDir.meta = None /\ EmptyDir.wal = {} /\ ~EmptyDir.minver
      BY DEF EmptyDir
    <3>2. dir[s].meta = None /\ dir[s].wal = {} /\ ~dir[s].minver
      BY <1>2, <3>1, Zenon
    <3> QED
      BY <3>2 DEF Stored, Contents
  <2>2. count[s] <= MaxWrites + 1
    BY <1>2, BoundsNat, SMTT(120)
  <2> QED
    BY <1>2, <2>1, <2>2, ZenonT(40) DEF Init, CareInv, DirInv, OwnInv, IdInv, PartInv, SavedInv
<1>6. LegacyInv
  BY DEF Init, LegacyInv, Names
<1>7. ASSUME NEW s \in Stores PROVE LossInv(s)
  <2>1. ~Stored(s) /\ dir[s].wal = {} /\ ~dir[s].minver /\ Contents(dir[s]) = {}
    BY <1>2 DEF EmptyDir, Stored, Contents
  <2>2. part[s].manifest = None /\ bundle[Legacy] = None /\ s \notin sid /\ s \notin reg
    BY DEF Init, Unread, Names
  <2> QED
    BY <1>2, <2>1, <2>2, ZenonT(40) DEF LossInv, HomeInv, BareInv, Nameless, LoadInv, SavedInv
<1> QED
  BY <1>1, <1>3, <1>4, <1>5, <1>6, <1>7 DEF IInv, Inv, SharedInv

\* It is preserved.
LEMMA NextInv == IInv /\ [Next]_vars => IInv'
<1> SUFFICES ASSUME IInv, [Next]_vars PROVE IInv'
  OBVIOUS
<1>1. CASE Next
  <2>1. PICK s \in Stores : Step(s)
    BY <1>1 DEF Next
  <2>2. /\ careful' \in BOOLEAN /\ (careful' => careful /\ Careful)
        /\ orderly' \in BOOLEAN /\ (orderly' => orderly /\ Orderly)
    BY <1>1, Zenon DEF Next
  <2>3. Inv'
    BY <2>1, <2>2, TypeStep, BaseStep DEF IInv, Inv
  <2>4. Alone => IntactInv'
    BY <2>1, AloneStep DEF IInv
  <2>5. careful' => SharedInv'
    BY <2>1, <2>2, CareStep DEF IInv
  <2>6. Alone /\ orderly' => \A t \in Stores : LossInv(t)'
    <3> SUFFICES ASSUME Alone, orderly', NEW t \in Stores PROVE LossInv(t)'
      OBVIOUS
    <3>1. t = s
      BY DEF Alone
    <3>2. TypeOK /\ BaseInv(s) /\ LossInv(s) /\ Orderly
      BY <2>2, Zenon DEF IInv, Inv
    <3> QED
      BY <2>1, <3>1, <3>2, LossStep, Zenon
  <2> QED
    BY <2>3, <2>4, <2>5, <2>6, Zenon DEF IInv, Alone
<1>2. CASE UNCHANGED vars
  <2>1. Inv'
    BY <1>2, Zenon DEF IInv, Inv, TypeOK, BaseInv, Stored, vars
  <2>2. Alone => IntactInv'
    BY <1>2, Zenon DEF IInv, IntactInv, Intact, vars
  <2>3. ASSUME NEW s \in Stores PROVE (Stored(s)' <=> Stored(s)) /\ (Intact(s)' <=> Intact(s))
    BY <1>2, Zenon DEF Stored, Intact, vars
  <2>4. ASSUME NEW s \in Stores PROVE CareInv(s) => CareInv(s)'
    <3>1. DirInv(s) => DirInv(s)'
      BY <1>2, <2>3, Zenon DEF DirInv, vars
    <3>2. OwnInv(s) => OwnInv(s)'
      BY <1>2, <2>3, Zenon DEF OwnInv, Written, vars
    <3>3. IdInv(s) => IdInv(s)'
      BY <1>2, <2>3, Zenon DEF IdInv, Written, vars
    <3>4. PartInv(s) => PartInv(s)'
      BY <1>2, <2>3, Zenon DEF PartInv, Written, vars
    <3>5. SavedInv(s) => SavedInv(s)'
      BY <1>2, <2>3, Zenon DEF SavedInv, Written, vars
    <3> QED
      BY <3>1, <3>2, <3>3, <3>4, <3>5, Zenon DEF CareInv
  <2>5. careful' => SharedInv'
    <3>1. LegacyInv => LegacyInv'
      BY <1>2, Zenon DEF LegacyInv, vars
    <3>2. (careful' <=> careful)
      BY <1>2, Zenon DEF vars
    <3> QED
      BY <2>4, <3>1, <3>2, Zenon DEF IInv, SharedInv
  <2>6. ASSUME NEW s \in Stores PROVE LossInv(s) => LossInv(s)'
    BY <1>2, <2>3, Zenon DEF LossInv, HomeInv, BareInv, Nameless, LoadInv, SavedInv, vars
  <2>7. Alone /\ orderly' => \A s \in Stores : LossInv(s)'
    BY <1>2, <2>6, Zenon DEF IInv, vars
  <2> QED
    BY <2>1, <2>2, <2>5, <2>7, Zenon DEF IInv, Alone
<1> QED
  BY <1>1, <1>2

\* So it always holds.
LEMMA Invariance == Spec => []IInv
  BY InitInv, NextInv, PTL DEF Spec

\* What a registered store held at a clean Close is what the next open finds.
THEOREM CleanRestartHolds == Spec => []CleanRestart
<1>1. IInv => CleanRestart
  <2> SUFFICES ASSUME IInv, Unshared, NEW s \in clean \cap reg
               PROVE  ~Refused(s) /\ Contents(Opened(s)) = mark[s]
    BY ZenonT(40) DEF CleanRestart
  <2>1. s \in Stores /\ Stored(s)
    BY SMTT(120) DEF IInv, Inv, TypeOK, BaseInv
  <2>2. Intact(s)
    <3>1. CASE careful
      BY <2>1, <3>1, Zenon DEF IInv, SharedInv, CareInv, OwnInv
    <3>2. CASE Alone
      BY <2>1, <3>2, Zenon DEF IInv, IntactInv
    <3> QED
      BY <3>1, <3>2 DEF Unshared, Alone
  <2> QED
    BY <2>2, CleanReopen DEF IInv
<1> QED
  BY <1>1, Invariance, PTL

\* As long as all stores are careful, one that is down and has its directory can
\* be opened and has everything of its last completed upload.
THEOREM CrashRecoveryHolds == Spec => []CrashRecovery
<1>1. IInv => CrashRecovery
  <2> SUFFICES ASSUME IInv, careful, NEW s \in Stores, pc[s] = "down"
               PROVE  ~Refused(s) /\ saved[s] \subseteq Contents(Opened(s))
    BY Zenon DEF CrashRecovery, LossIsLimited
  <2>1. Reopens(s)
    BY Reopen, ZenonT(40) DEF IInv, Inv, SharedInv
  <2> QED
    BY <2>1, Zenon DEF Reopens
<1> QED
  BY <1>1, Invariance, PTL

\* No open is silently short: as long as the step discipline Orderly is kept, a
\* store that NewPebble would open has all of its last completed upload, whatever
\* flushes, compactions and deletions ran while a checkpoint read the files.
THEOREM NoSilentLossHolds == Spec => []NoSilentLoss
<1>1. IInv => NoSilentLoss
  <2> SUFFICES ASSUME IInv, Unshared, orderly, NEW s \in Stores, pc[s] = "down"
               PROVE  saved[s] \subseteq Contents(Opened(s))
    BY Zenon DEF NoSilentLoss
  <2>1. CASE careful
    BY <2>1, Reopen, ZenonT(40) DEF IInv, Inv, SharedInv, Reopens
  <2>2. CASE Alone
    BY <2>2, LossReopen, ZenonT(40) DEF IInv, Inv
  <2> QED
    BY <2>1, <2>2 DEF Unshared, Alone
<1> QED
  BY <1>1, Invariance, PTL

-----------------------------------------------------------------------------
\* The refinement mapping.
Up == {s \in Stores : pc[s] # "down"}
View == [s \in Stores |-> Contents(dir[s])]
Record == [s \in Stores |-> Written(s)]

\* A step changes what the mapping says of its own store at most.
LEMMA MappedStep ==
    ASSUME Inv, NEW s \in Stores, Step(s)
    PROVE  /\ View' = [View EXCEPT ![s] = Contents(dir'[s])]
           /\ Record' = [Record EXCEPT ![s] = Written(s)']
           /\ saved' = [saved EXCEPT ![s] = saved'[s]]
           /\ pc'[s] = "down" => Up' = Up \ {s}
           /\ pc'[s] # "down" => Up' = Up \cup {s}
<1>1. \A t \in Stores \ {s} : Same(t)
  BY Others
<1>2. saved \in [Stores -> SUBSET Write] /\ saved' \in [Stores -> SUBSET Write]
  <2>1. saved \in [Stores -> SUBSET Write] /\ mark \in [Stores -> SUBSET Write]
    BY Zenon DEF Inv, TypeOK
  <2>2. UNCHANGED saved \/ saved' = [saved EXCEPT ![s] = mark[s]]
    BY Zenon DEF Step, Flush, Compact, DeleteObsolete, WriteIdent, ClientWrite, Commit, SetStoreID,
       RegisterNode, Checkpoint, Close, ReadManifest, ReadCatalog, UploadOk, UploadFail, Crash,
       LoseDir, Open, RecoveryStoreID, OpenRefused
  <2> QED
    BY <2>1, <2>2, Zenon
<1>3. View' = [View EXCEPT ![s] = Contents(dir'[s])]
  BY <1>1, Zenon DEF View, Same
<1>4. Record' = [Record EXCEPT ![s] = Written(s)']
  BY <1>1, Zenon DEF Record, Same, Written
<1>5. saved' = [saved EXCEPT ![s] = saved'[s]]
  BY <1>1, <1>2 DEF Same
<1>6. /\ pc'[s] = "down" => Up' = Up \ {s}
      /\ pc'[s] # "down" => Up' = Up \cup {s}
  BY <1>1, SMTT(120) DEF Up, Same
<1> QED
  BY <1>3, <1>4, <1>5, <1>6

\* Steps that the abstract specification does not see.
LEMMA Stutter ==
    ASSUME Inv, NEW s \in Stores, Step(s), Contents(dir'[s]) = Contents(dir[s]),
           UNCHANGED <<count, saved>>, pc[s] = "down" <=> pc'[s] = "down"
    PROVE  UNCHANGED <<Up, View, Record, saved>>
<1>1. UNCHANGED View
  BY MappedStep, Zenon DEF View
<1>2. UNCHANGED Record
  BY Zenon DEF Record, Written
<1>3. UNCHANGED Up
  BY MappedStep DEF Up
<1> QED
  BY <1>1, <1>2, <1>3

\* Going down and coming back, in terms of the mapping.
LEMMA MappedStop ==
    ASSUME NEW s \in Stores, NEW K, s \in Up, Up' = Up \ {s}, K = saved[s] \/ K = View[s],
           saved' = [saved EXCEPT ![s] = K], UNCHANGED <<View, Record>>
    PROVE  Durable!Stop(s, K)
  BY Zenon DEF Durable!Stop, Up, View, Record

LEMMA MappedStart ==
    ASSUME NEW s \in Stores, NEW V, s \notin Up, Up' = Up \cup {s}, saved[s] \subseteq V,
           V \subseteq Record[s], View' = [View EXCEPT ![s] = V], UNCHANGED <<Record, saved>>
    PROVE  Durable!Start(s, V)
  BY Zenon DEF Durable!Start, Up, View, Record

\* Every careful step is a step of DurableStore or a stutter.
LEMMA RefinedStep ==
    ASSUME IInv, SharedInv', NEW s \in Stores, Step(s), careful, Careful
    PROVE  Durable!Next \/ UNCHANGED <<Up, View, Record, saved>>
<1>1. TypeOK /\ BaseInv(s) /\ CareInv(s) /\ LegacyInv /\ Inv
  BY Zenon DEF IInv, Inv, SharedInv
<1>2. /\ dir \in [Stores -> Dir]
      /\ pc \in [Stores -> {"down", "open", "ckpt", "closing"}]
      /\ count \in [Stores -> Nat]
      /\ saved \in [Stores -> SUBSET Write]
  BY <1>1 DEF TypeOK, Dir
<1>3. /\ View' = [View EXCEPT ![s] = Contents(dir'[s])]
      /\ Record' = [Record EXCEPT ![s] = Written(s)']
      /\ saved' = [saved EXCEPT ![s] = saved'[s]]
      /\ pc'[s] = "down" => Up' = Up \ {s}
      /\ pc'[s] # "down" => Up' = Up \cup {s}
  BY <1>1, MappedStep, Zenon
<1>4. /\ View[s] = Contents(dir[s])
      /\ Record[s] = Written(s)
      /\ s \in Up <=> pc[s] # "down"
  BY Zenon DEF View, Record, Up
<1>5. Written(s) \subseteq Stores \X (0..MaxWrites)
  <2>1. count[s] \in Nat /\ count[s] <= MaxWrites + 1
    BY <1>1, <1>2, Zenon DEF CareInv, OwnInv
  <2> QED
    BY <2>1, BoundsNat DEF Written
<1>6. Contents(dir[s]) \subseteq Written(s) /\ saved[s] \subseteq Contents(dir[s])
  BY <1>1, Zenon DEF CareInv, OwnInv, SavedInv
<1>7. Stored(s) \/ pc[s] = "down"
  BY <1>1, Zenon DEF BaseInv
<1>8. ASSUME NEW w \in Stores \X (0..MaxWrites), pc[s] # "down", UNCHANGED <<pc, saved>>,
             Contents(dir'[s]) = Contents(dir[s]) \cup {w}, Written(s)' = Written(s) \cup {w}
      PROVE  Durable!Next
  <2>1. Durable!Write(s, w)
    <3>1. UNCHANGED Up
      BY <1>8 DEF Up
    <3> QED
      BY <1>3, <1>4, <1>8, <3>1, Zenon DEF Durable!Write, Up, View, Record
  <2> QED
    BY <1>8, <2>1, Zenon DEF Durable!Next
<1>9. ASSUME NEW K \in SUBSET (Stores \X (0..MaxWrites)),
             Durable!Checkpoint(s, K) \/ Durable!Stop(s, K) \/ Durable!Start(s, K)
      PROVE  Durable!Next
  BY <1>9, Zenon DEF Durable!Next
<1>10. CASE Flush(s)
  <2>1. Contents(dir'[s]) = Contents(dir[s]) /\ UNCHANGED <<count, saved, pc>>
    BY <1>1, <1>7, <1>10, FlushEdits, Zenon DEF Flush, Edits, Running
  <2> QED
    BY <1>1, <2>1, Stutter
<1>11. CASE Compact(s)
  <2>1. Contents(dir'[s]) = Contents(dir[s]) /\ UNCHANGED <<count, saved, pc>>
    BY <1>1, <1>7, <1>11, CompactEdits, Zenon DEF Compact, Edits, Running
  <2> QED
    BY <1>1, <2>1, Stutter
<1>12. CASE DeleteObsolete(s)
  <2>1. Contents(dir'[s]) = Contents(dir[s]) /\ UNCHANGED <<count, saved, pc>>
    BY <1>1, <1>7, <1>12, DeleteEdits, Zenon DEF DeleteObsolete, Edits, Running
  <2> QED
    BY <1>1, <2>1, Stutter
<1>13. CASE WriteIdent(s)
  <2>1. Ident(s) \in Write /\ Ident(s) \in Stores \X (0..MaxWrites)
    BY BoundsNat DEF Ident, Write
  <2>2. pc[s] # "down" /\ UNCHANGED <<pc, saved>> /\ Commit(s, Ident(s))
    BY <1>13 DEF WriteIdent, Commit, Running
  <2>3. Contents(dir'[s]) = Contents(dir[s]) \cup {Ident(s)}
    BY <1>1, <1>7, <2>1, <2>2, CommitFacts, Zenon
  <2>4. count[s] \in Nat /\ count'[s] = IF count[s] = 0 THEN 1 ELSE count[s]
    BY <1>2, <1>13 DEF WriteIdent
  <2>5. Written(s)' = Written(s) \cup {Ident(s)}
    BY <2>4, SMTT(120) DEF Written, Ident
  <2> QED
    BY <1>8, <2>1, <2>2, <2>3, <2>5
<1>14. CASE ClientWrite(s)
  <2> DEFINE w == <<s, count[s]>>
  <2>1. pc[s] # "down" /\ UNCHANGED <<pc, saved>> /\ Commit(s, w)
    BY <1>14, Zenon DEF ClientWrite, Commit, Running
  <2>2. count[s] \in Nat /\ count'[s] = count[s] + 1 /\ count[s] <= MaxWrites
    BY <1>2, <1>14 DEF ClientWrite
  <2>3. w \in Write /\ w \in Stores \X (0..MaxWrites)
    BY <2>2, BoundsNat DEF Write
  <2>4. Written(s)' = Written(s) \cup {w}
    BY <2>2, SMTT(120) DEF Written
  <2> HIDE DEF w
  <2>5. Contents(dir'[s]) = Contents(dir[s]) \cup {w}
    BY <1>1, <1>7, <2>1, <2>3, CommitFacts, Zenon
  <2> QED
    BY <1>8, <2>1, <2>3, <2>4, <2>5
<1>15. CASE SetStoreID(s) \/ RegisterNode(s) \/ ReadManifest(s) \/ ReadCatalog(s)
  <2>1. UNCHANGED <<dir, count, saved, pc>>
    BY <1>15 DEF SetStoreID, RegisterNode, ReadManifest, ReadCatalog
  <2> QED
    BY <1>1, <2>1, Stutter
<1>16. CASE Checkpoint(s) \/ Close(s)
  <2>1. pc[s] # "down" /\ pc'[s] # "down" /\ UNCHANGED <<count, saved>>
    BY <1>2, <1>16 DEF Checkpoint, Close
  <2>2. Contents(dir'[s]) = Contents(dir[s])
    <3>1. CASE FlushTo(s, dir')
      BY <1>1, <1>7, <2>1, <3>1, FlushEdits, Zenon DEF Edits
    <3>2. CASE UNCHANGED dir
      BY <3>2
    <3> QED
      BY <1>16, <3>1, <3>2 DEF Checkpoint, Close
  <2> QED
    BY <1>1, <2>1, <2>2, Stutter, Zenon
<1>17. CASE UploadOk(s)
  <2>1. /\ pc[s] \in {"ckpt", "closing"} /\ UNCHANGED <<dir, count>>
        /\ saved'[s] = mark[s]
        /\ pc[s] = "ckpt" => pc'[s] = "open"
        /\ pc[s] = "closing" => pc'[s] = "down"
    BY <1>2, <1>17 DEF UploadOk, EndUpload
  <2>2. UNCHANGED <<View, Record>>
    BY <2>1, Zenon DEF View, Record, Written
  <2>3. CASE pc[s] = "ckpt"
    <3>1. saved[s] \subseteq mark[s] /\ mark[s] \subseteq Contents(dir[s])
      BY <1>1, <1>7, <2>3, Zenon DEF CareInv, PartInv, Contents, Stored
    <3>2. UNCHANGED Up
      BY <1>3, <1>4, <2>1, <2>3, Zenon
    <3>3. Durable!Checkpoint(s, mark[s])
      BY <1>3, <1>4, <2>1, <2>2, <2>3, <3>1, <3>2, Zenon DEF Durable!Checkpoint, Up, View, Record
    <3>4. mark[s] \in SUBSET (Stores \X (0..MaxWrites))
      BY <1>5, <1>6, <3>1
    <3> QED
      BY <1>9, <3>3, <3>4, Zenon
  <2>4. CASE pc[s] = "closing"
    <3>1. mark[s] = Contents(dir[s])
      BY <1>1, <2>4, Zenon DEF BaseInv
    <3>2. PICK K \in SUBSET (Stores \X (0..MaxWrites)) : K = mark[s]
      BY <1>5, <1>6, <3>1, Zenon
    <3>3. s \in Up /\ Up' = Up \ {s} /\ K = View[s]
      BY <1>3, <1>4, <2>1, <2>4, <3>1, <3>2, Zenon
    <3>4. saved' = [saved EXCEPT ![s] = K]
      BY <1>3, <2>1, <3>2, Zenon
    <3>5. Durable!Stop(s, K)
      BY <2>2, <3>3, <3>4, MappedStop, Zenon
    <3> QED
      BY <1>9, <3>5
  <2> QED
    BY <2>1, <2>3, <2>4, Zenon
<1>18. CASE UploadFail(s) \/ Crash(s)
  <2>1. /\ pc[s] # "down" /\ UNCHANGED <<dir, count, saved>>
        /\ pc'[s] \in {"open", "down"}
    BY <1>2, <1>18, SMTT(120) DEF UploadFail, Crash, EndUpload
  <2>2. CASE pc'[s] = "open"
    BY <1>1, <2>1, <2>2, Stutter
  <2>3. CASE pc'[s] = "down"
    <3>1. UNCHANGED <<View, Record>>
      BY <2>1, Zenon DEF View, Record, Written
    <3>2. PICK K \in SUBSET (Stores \X (0..MaxWrites)) : K = saved[s]
      BY <1>5, <1>6, Zenon
    <3>3. s \in Up /\ Up' = Up \ {s}
      BY <1>3, <1>4, <2>1, <2>3, Zenon
    <3>4. saved' = [saved EXCEPT ![s] = K]
      BY <1>3, <2>1, <3>2
    <3>5. Durable!Stop(s, K)
      BY <3>1, <3>2, <3>3, <3>4, MappedStop, Zenon
    <3> QED
      BY <1>9, <3>5
  <2> QED
    BY <2>1, <2>2, <2>3
<1>19. CASE LoseDir(s)
  <2>1. /\ UNCHANGED <<pc, count, saved>>
        /\ dir'[s] = EmptyDir
    BY <1>2, <1>19 DEF LoseDir
  <2>2. dir[s].meta = None /\ dir[s].wal = {}
    <3>1. ~EmptyDir.minver
      BY DEF EmptyDir
    <3>2. ~dir[s].minver
      BY <1>1, <2>1, <3>1, Zenon DEF Careful, Orderly, KeepDir
    <3> QED
      BY <1>1, <3>2, Zenon DEF CareInv, DirInv, Stored
  <2>3. Contents(dir'[s]) = Contents(dir[s])
    <3>1. EmptyDir.meta = None /\ EmptyDir.wal = {}
      BY DEF EmptyDir
    <3> QED
      BY <2>1, <2>2, <3>1, Zenon DEF Contents
  <2> QED
    BY <1>1, <2>1, <2>3, Stutter, Zenon
<1>20. CASE Open(s)
  <2>1. /\ pc[s] = "down" /\ pc'[s] = "open" /\ UNCHANGED <<count, saved>>
        /\ dir'[s] = Opened(s)
    BY <1>2, <1>20, Zenon DEF Open, RecoveryStoreID
  <2>2. Reopens(s)
    BY <1>1, <2>1, Reopen, Zenon
  <2>3. PICK V \in SUBSET (Stores \X (0..MaxWrites)) : V = Contents(Opened(s))
    BY <1>5, <2>2, ZenonT(40) DEF Reopens
  <2>4. saved[s] \subseteq V /\ V \subseteq Record[s]
    BY <1>4, <2>2, <2>3 DEF Reopens
  <2>5. UNCHANGED Record
    BY <2>1, Zenon DEF Record, Written
  <2>6. s \notin Up /\ Up' = Up \cup {s} /\ View' = [View EXCEPT ![s] = V]
    BY <1>3, <1>4, <2>1, <2>3, Zenon
  <2>7. Durable!Start(s, V)
    BY <2>1, <2>4, <2>5, <2>6, MappedStart, Zenon
  <2> QED
    BY <1>9, <2>7, Zenon
<1>21. CASE OpenRefused(s)
  BY <1>1, <1>21, Reopen DEF OpenRefused, Reopens
<1> QED
  BY <1>10, <1>11, <1>12, <1>13, <1>14, <1>15, <1>16, <1>17, <1>18, <1>19, <1>20, <1>21 DEF Step

\* As long as all stores are careful, they implement DurableStore: one that goes
\* down comes back with at least its last completed checkpoint, and with nothing
\* that was never written to it.
THEOREM ImplementsDurableStoreHolds == Spec => ImplementsDurableStore
<1>1. Init => Durable!Init
  <2> SUFFICES ASSUME Init PROVE Durable!Init
    OBVIOUS
  <2>1. \A s \in Stores : pc[s] = "down" /\ Contents(dir[s]) = {} /\ Written(s) = {}
    BY DEF Init, Contents, EmptyDir, Written
  <2> QED
    BY <2>1 DEF Init, Durable!Init
<1>2. IInv /\ IInv' /\ [Next]_vars => [careful' => [Durable!Next]_(Durable!vars)]_vars
  <2> SUFFICES ASSUME IInv, IInv', Next, careful'
               PROVE  Durable!Next \/ UNCHANGED Durable!vars
    BY DEF vars
  <2>1. PICK s \in Stores : Step(s)
    BY DEF Next
  <2>2. careful /\ Careful
    BY Zenon DEF Next
  <2>3. SharedInv'
    BY DEF IInv
  <2>4. Durable!Next \/ UNCHANGED <<Up, View, Record, saved>>
    BY <2>1, <2>2, <2>3, RefinedStep
  <2> QED
    BY <2>4, Zenon DEF Durable!vars, Up, View, Record
<1> QED
  BY <1>1, <1>2, Invariance, PTL DEF Spec, ImplementsDurableStore
=============================================================================
