-------------------------- MODULE TargetStoreProofs --------------------------
(***************************************************************************)
(* Proofs about TargetStore, for any set of miners, any forms of records   *)
(* and any bounds.  StoreInv says what an open file is, what is left when  *)
(* the process is down, and how files and memory agree; it is inductive,   *)
(* and beside it FewTornFiles, which counts the torn files.                *)
(***************************************************************************)
EXTENDS TargetStore, FiniteSetTheorems, TLAPS

------------------------------------------------------------------------------
(* The inductive invariant.                                                *)

\* When the process is down nothing of its memory is left, nor an open file.
DownIsEmpty ==
  ~up => /\ writing = NoMiner
         /\ storing = "no"
         /\ recentPieces = NoRecord
         /\ ~unread
         /\ targets = [m \in Miners |-> NoRecord]

\* The file the handler has open is torn, and what will be written to it is
\* the last result of its miner.
OpenFileIsTorn ==
  writing # NoMiner => /\ up /\ storePath
                       /\ file[writing] = Torn
                       /\ targets[writing] \in Records
                       /\ targets[writing] = latest[writing]
                       /\ missed[writing] = 0

\* While recent.pieces is open it is torn, and until the map is replaced it
\* has the refresh under way, which is not served yet.
PiecesUnderWay ==
  /\ storing # "no" => up /\ storePath /\ refreshes >= 1 /\ recentPieces # refreshes
  /\ storing = "open" => piecesFile = Torn
  /\ storing = "written" => piecesFile = refreshes

\* Nothing is served or stored of a refresh that has not begun.
PiecesAreOfPast ==
  /\ recentPieces \in Nat => recentPieces <= refreshes
  /\ piecesFile \in Nat => piecesFile <= refreshes

\* A miner never checked has no file.
NewHaveNoFile ==
  \A m \in Miners : latest[m] = NoRecord => file[m] = Absent

\* Without a store path there is no file.
NoPathNoFiles ==
  ~storePath => piecesFile = Absent /\ \A m \in Miners : file[m] = Absent

TornFiles == {m \in Miners : file[m] = Torn}

\* OneTornPerMishap, with the finiteness that gives the cardinality a meaning.
FewTornFiles ==
  /\ IsFiniteSet(TornFiles)
  /\ Cardinality(TornFiles \ {writing}) <= mishaps

StoreInv ==
  /\ TypeOK
  /\ DownIsEmpty
  /\ OpenFileIsTorn
  /\ PiecesUnderWay
  /\ PiecesAreOfPast
  /\ NoPathNoFiles
  /\ NewHaveNoFile
  /\ FileIsLatest
  /\ ServedIsLatest
  /\ PiecesMatchFile

------------------------------------------------------------------------------
(* What the proofs need of the constants and of the operators.             *)

\* Two names are at most two things.
LEMMA PairIsSmall ==
  ASSUME NEW a, NEW b
  PROVE  Cardinality({a, b}) <= 2
<1>1. IsFiniteSet({a}) /\ Cardinality({a}) = 1
  BY FS_Singleton
<1>2. {a, b} = {a} \cup {b}
  OBVIOUS
<1> QED  BY <1>1, <1>2, FS_AddElement

\* The three values that are no record differ from each other, from every
\* record and from every number.
LEMMA Distinct ==
  /\ NoRecord # Absent /\ NoRecord # Torn /\ Absent # Torn
  /\ {NoRecord, Absent, Torn} \cap Records = {}
  /\ {NoRecord, Absent, Torn} \cap Nat = {}
<1>1. NoRecord # Absent
  <2> SUFFICES ASSUME NoRecord = Absent PROVE FALSE  OBVIOUS
  <2>1. {NoRecord, Absent, Torn} = {NoRecord, Torn}  OBVIOUS
  <2>2. Cardinality({NoRecord, Absent, Torn}) = 3  BY StoreAssumption
  <2>3. Cardinality({NoRecord, Torn}) <= 2  BY PairIsSmall
  <2> QED  BY <2>1, <2>2, <2>3
<1>2. NoRecord # Torn
  <2> SUFFICES ASSUME NoRecord = Torn PROVE FALSE  OBVIOUS
  <2>1. {NoRecord, Absent, Torn} = {NoRecord, Absent}  OBVIOUS
  <2>2. Cardinality({NoRecord, Absent, Torn}) = 3  BY StoreAssumption
  <2>3. Cardinality({NoRecord, Absent}) <= 2  BY PairIsSmall
  <2> QED  BY <2>1, <2>2, <2>3
<1>3. Absent # Torn
  <2> SUFFICES ASSUME Absent = Torn PROVE FALSE  OBVIOUS
  <2>1. {NoRecord, Absent, Torn} = {NoRecord, Absent}  OBVIOUS
  <2>2. Cardinality({NoRecord, Absent, Torn}) = 3  BY StoreAssumption
  <2>3. Cardinality({NoRecord, Absent}) <= 2  BY PairIsSmall
  <2> QED  BY <2>1, <2>2, <2>3
<1>4. Records \subseteq [n : Nat, form : Forms]
  BY StoreAssumption DEF Records
<1> QED  BY <1>1, <1>2, <1>3, <1>4, StoreAssumption

\* The record a check leaves is one of Records, within the bound.
LEMMA NextRecordType ==
  ASSUME NEW m \in Miners, NEW form \in Forms, TypeOK,
         NextRecord(m, form).n <= MaxVersion
  PROVE  NextRecord(m, form) \in Records
<1>1. CASE latest[m] = NoRecord
  BY <1>1, StoreAssumption DEF NextRecord, Records
<1>2. CASE latest[m] # NoRecord
  <2>1. latest[m] \in Records
    BY <1>2 DEF TypeOK
  <2>2. latest[m].n \in 1 .. MaxVersion
    BY <2>1 DEF Records
  <2> QED  BY <1>2, <2>2, StoreAssumption DEF NextRecord, Records
<1> QED  BY <1>1, <1>2

\* A result that misses its file is one more that its file is behind by.
LEMMA MissedOneMore ==
  ASSUME NEW m \in Miners, NEW form \in Forms, TypeOK, NewHaveNoFile, FileIsLatest,
         file[m] \in Records
  PROVE  file[m].n = NextRecord(m, form).n - (missed[m] + 1)
<1>1. /\ missed[m] \in Nat /\ file[m].n \in 1 .. MaxVersion
      /\ file[m].n = latest[m].n - missed[m]
  BY DEF TypeOK, FileIsLatest, Records
<1>2. latest[m] # NoRecord
  BY Distinct DEF NewHaveNoFile
<1>3. latest[m].n \in Nat
  BY <1>2, StoreAssumption DEF TypeOK, Records
<1> QED  BY <1>1, <1>2, <1>3 DEF NextRecord

------------------------------------------------------------------------------
(* The invariant holds.                                                    *)

\* The invariant holds before the first start.
LEMMA StoreInvInit == Init => StoreInv
<1> SUFFICES ASSUME Init PROVE StoreInv  OBVIOUS
<1> USE StoreAssumption, Distinct DEF Init
<1>1. TypeOK
  <2>1. up \in BOOLEAN /\ unread \in BOOLEAN
    OBVIOUS
  <2> QED  BY <2>1 DEF TypeOK
<1>2. DownIsEmpty /\ OpenFileIsTorn /\ NoPathNoFiles
  BY DEF DownIsEmpty, OpenFileIsTorn, NoPathNoFiles
<1>3. NewHaveNoFile /\ FileIsLatest /\ ServedIsLatest
  BY DEF NewHaveNoFile, FileIsLatest, ServedIsLatest
<1>4. PiecesUnderWay /\ PiecesAreOfPast /\ PiecesMatchFile
  BY DEF PiecesUnderWay, PiecesAreOfPast, PiecesMatchFile
<1> QED  BY <1>1, <1>2, <1>3, <1>4 DEF StoreInv

\* What the pieces conjuncts say does not depend on the handler's variables.
PiecesInv ==
  /\ PiecesUnderWay
  /\ PiecesAreOfPast
  /\ PiecesMatchFile

\* Steps on the files leave what is known of the pieces.
LEMMA PiecesUntouched ==
  StoreInv /\ UNCHANGED <<storePath, up, piecesVars>> => PiecesInv'
BY DEF StoreInv, PiecesInv, piecesVars, PiecesUnderWay, PiecesAreOfPast, PiecesMatchFile

\* Nor those on the files on the variables of the pieces, while the process
\* runs.
FilesInv ==
  /\ OpenFileIsTorn
  /\ NewHaveNoFile
  /\ FileIsLatest
  /\ ServedIsLatest

\* Steps on the pieces leave what is known of the files.
LEMMA FilesUntouched ==
  StoreInv /\ UNCHANGED <<storePath, up, handlerVars>> => FilesInv'
BY DEF StoreInv, FilesInv, handlerVars, OpenFileIsTorn, NewHaveNoFile, FileIsLatest, ServedIsLatest

\* The result handler keeps the invariant: a file opened is torn until its
\* record is encoded.
LEMMA HandlerStep == StoreInv /\ Handler => StoreInv'
<1> SUFFICES ASSUME StoreInv, Handler PROVE StoreInv'  OBVIOUS
<1> USE StoreAssumption, Distinct
<1>1. ASSUME NEW m \in Miners, NEW form \in Forms,
             RecordInMemory(m, NextRecord(m, form))
      PROVE  StoreInv'
  <2> DEFINE r == NextRecord(m, form)
  <2>1. r \in Records
    BY <1>1, NextRecordType DEF StoreInv, RecordInMemory, Note
  <2> HIDE DEF r
  <2>2. RecordInMemory(m, r)  BY <1>1 DEF r
  <2>3. TypeOK'
    BY <2>1, <2>2 DEF StoreInv, TypeOK, RecordInMemory, Note, piecesVars
  <2>4. FilesInv' /\ DownIsEmpty' /\ NoPathNoFiles'
    BY <2>1, <2>2 DEF StoreInv, RecordInMemory, Note, piecesVars, DownIsEmpty, NoPathNoFiles,
                      FilesInv, OpenFileIsTorn, NewHaveNoFile, FileIsLatest, ServedIsLatest, TypeOK
  <2>5. PiecesInv'
    BY <2>2, PiecesUntouched DEF RecordInMemory, Note
  <2> QED  BY <2>3, <2>4, <2>5 DEF StoreInv, FilesInv, PiecesInv
<1>2. ASSUME NEW m \in Miners, NEW form \in Forms,
             OpenFile(m, NextRecord(m, form))
      PROVE  StoreInv'
  <2> DEFINE r == NextRecord(m, form)
  <2>1. r \in Records
    BY <1>2, NextRecordType DEF StoreInv, OpenFile, Note
  <2> HIDE DEF r
  <2>2. OpenFile(m, r)  BY <1>2 DEF r
  <2>3. TypeOK'
    BY <2>1, <2>2 DEF StoreInv, TypeOK, OpenFile, Note, piecesVars
  <2>4. DownIsEmpty' /\ NoPathNoFiles'
    BY <2>2 DEF StoreInv, OpenFile, Note, piecesVars, DownIsEmpty, NoPathNoFiles
  <2>5. OpenFileIsTorn'
    BY <2>1, <2>2 DEF StoreInv, TypeOK, OpenFile, Note, OpenFileIsTorn
  <2>6. NewHaveNoFile' /\ FileIsLatest' /\ ServedIsLatest'
    BY <2>1, <2>2 DEF StoreInv, TypeOK, OpenFile, Note, NewHaveNoFile, FileIsLatest, ServedIsLatest
  <2>7. PiecesInv'
    BY <2>2, PiecesUntouched DEF OpenFile, Note
  <2> QED  BY <2>3, <2>4, <2>5, <2>6, <2>7 DEF StoreInv, PiecesInv
<1>3. ASSUME NEW m \in Miners, NEW form \in Forms,
             OpenFails(m, NextRecord(m, form))
      PROVE  StoreInv'
  <2> DEFINE r == NextRecord(m, form)
  <2>1. r \in Records
    BY <1>3, NextRecordType DEF StoreInv, OpenFails, Note
  <2> HIDE DEF r
  <2>2. OpenFails(m, r)  BY <1>3 DEF r
  <2>3. TypeOK'
    BY <2>1, <2>2 DEF StoreInv, TypeOK, OpenFails, Note, piecesVars, Mishap
  <2>4. DownIsEmpty' /\ NoPathNoFiles'
    BY <2>2 DEF StoreInv, OpenFails, Note, piecesVars, DownIsEmpty, NoPathNoFiles
  <2>5. OpenFileIsTorn'
    BY <2>2 DEF StoreInv, OpenFails, Note, OpenFileIsTorn
  <2>6. NewHaveNoFile' /\ FileIsLatest' /\ ServedIsLatest'
    BY <1>3, <2>1, <2>2, MissedOneMore DEF StoreInv, TypeOK, OpenFails, Note,
       NewHaveNoFile, FileIsLatest, ServedIsLatest, r
  <2>7. PiecesInv'
    BY <2>2, PiecesUntouched DEF OpenFails, Note
  <2> QED  BY <2>3, <2>4, <2>5, <2>6, <2>7 DEF StoreInv, PiecesInv
<1>4. CASE Encode
  <2>1. TypeOK'
    BY <1>4 DEF StoreInv, TypeOK, Encode, piecesVars, OpenFileIsTorn
  <2>2. DownIsEmpty' /\ NoPathNoFiles' /\ OpenFileIsTorn'
    BY <1>4 DEF StoreInv, Encode, piecesVars, DownIsEmpty, NoPathNoFiles, OpenFileIsTorn
  <2>3. NewHaveNoFile' /\ FileIsLatest' /\ ServedIsLatest'
    BY <1>4 DEF StoreInv, TypeOK, Encode, NewHaveNoFile, FileIsLatest, ServedIsLatest,
                 OpenFileIsTorn, Records
  <2>4. PiecesInv'
    BY <1>4, PiecesUntouched DEF Encode
  <2> QED  BY <2>1, <2>2, <2>3, <2>4 DEF StoreInv, PiecesInv
<1>5. CASE EncodeFails
  <2>1. TypeOK'
    BY <1>5 DEF StoreInv, TypeOK, EncodeFails, piecesVars, Mishap
  <2>2. DownIsEmpty' /\ NoPathNoFiles' /\ FilesInv'
    BY <1>5 DEF StoreInv, EncodeFails, piecesVars, DownIsEmpty, NoPathNoFiles, FilesInv,
                OpenFileIsTorn, NewHaveNoFile, FileIsLatest, ServedIsLatest
  <2>3. PiecesInv'
    BY <1>5, PiecesUntouched DEF EncodeFails
  <2> QED  BY <2>1, <2>2, <2>3 DEF StoreInv, PiecesInv, FilesInv
<1> QED  BY <1>1, <1>2, <1>3, <1>4, <1>5 DEF Handler

\* The refresh keeps it: pieces are served only once their file is written.
LEMMA RefresherStep == StoreInv /\ Refresher => StoreInv'
<1> SUFFICES ASSUME StoreInv, Refresher PROVE StoreInv'  OBVIOUS
<1> USE StoreAssumption, Distinct
<1>1. FilesInv'
  BY FilesUntouched DEF Refresher, DropPieces, OpenPieces, OpenPiecesFails, EncodePieces,
                        EncodePiecesFails, ReplacePieces
<1>2. NoPathNoFiles'
  BY DEF StoreInv, NoPathNoFiles, PiecesUnderWay, handlerVars, Refresher, DropPieces,
         OpenPieces, OpenPiecesFails, EncodePieces, EncodePiecesFails, ReplacePieces
<1>3. TypeOK /\ PiecesUnderWay /\ PiecesAreOfPast /\ PiecesMatchFile
      /\ up /\ up' /\ refreshes \in Nat /\ recentPieces \in Nat \cup {NoRecord}
  BY DEF StoreInv, TypeOK, Refresher, DropPieces, OpenPieces, OpenPiecesFails, EncodePieces,
         EncodePiecesFails, ReplacePieces
<1>4. DownIsEmpty'
  BY <1>3 DEF DownIsEmpty
<1>5. TypeOK' /\ PiecesInv'
  <2> USE <1>3 DEF TypeOK, PiecesInv, PiecesUnderWay, PiecesAreOfPast, PiecesMatchFile, Mishap
  <2>1. CASE DropPieces
    <3>1. recentPieces' # refreshes' /\ piecesFile' = Absent
      BY <2>1 DEF DropPieces, StoreInv, NoPathNoFiles
    <3> QED  BY <2>1, <3>1 DEF DropPieces, handlerVars
  <2>2. CASE OpenPieces
    BY <2>2 DEF OpenPieces, handlerVars
  <2>3. CASE OpenPiecesFails
    BY <2>3 DEF OpenPiecesFails, handlerVars
  <2>4. CASE EncodePieces
    BY <2>4 DEF EncodePieces, handlerVars
  <2>5. CASE EncodePiecesFails
    BY <2>5 DEF EncodePiecesFails, handlerVars
  <2>6. CASE ReplacePieces
    <3>1. unread' \in BOOLEAN  BY <2>6 DEF ReplacePieces
    <3> QED  BY <2>6, <3>1 DEF ReplacePieces, handlerVars
  <2> QED  BY <2>1, <2>2, <2>3, <2>4, <2>5, <2>6 DEF Refresher
<1> QED  BY <1>1, <1>2, <1>4, <1>5 DEF StoreInv, FilesInv, PiecesInv

\* So does the end of the process, wherever it stops the two.
LEMMA ExitStep == StoreInv /\ Exit => StoreInv'
<1> SUFFICES ASSUME StoreInv, Exit PROVE StoreInv'  OBVIOUS
<1> USE StoreAssumption, Distinct DEF Exit
<1>1. TypeOK'
  <2>1. up' \in BOOLEAN /\ unread' \in BOOLEAN
    OBVIOUS
  <2> QED  BY <2>1 DEF StoreInv, TypeOK, Mishap
<1>2. DownIsEmpty' /\ NoPathNoFiles' /\ FilesInv'
  BY DEF StoreInv, DownIsEmpty, NoPathNoFiles, FilesInv, OpenFileIsTorn, NewHaveNoFile,
         FileIsLatest, ServedIsLatest
<1>3. PiecesInv'
  BY DEF StoreInv, TypeOK, PiecesInv, PiecesUnderWay, PiecesAreOfPast, PiecesMatchFile
<1> QED  BY <1>1, <1>2, <1>3 DEF StoreInv, FilesInv, PiecesInv

\* A start reads what the files have, or finds that it cannot.
LEMMA LoadStep ==
  ASSUME StoreInv, NEW readable \in SUBSET Miners, NEW opened \in BOOLEAN,
         Load(readable, opened), mishaps' \in {mishaps, mishaps + 1},
         mishaps' <= MaxMishaps
  PROVE  StoreInv'
<1> USE StoreAssumption, Distinct DEF Load
<1>1. loadTargets(readable) \in [Miners -> Records \cup {NoRecord}]
  BY DEF loadTargets, Decodable
<1>2. loadRecentPieces \in 1 .. MaxVersion \cup {NoRecord}
  BY DEF StoreInv, TypeOK, loadRecentPieces
<1>3. TypeOK'
  <2>1. up' \in BOOLEAN /\ unread' \in BOOLEAN
    BY DEF StoreInv, TypeOK
  <2> QED  BY <1>1, <1>2, <2>1 DEF StoreInv, TypeOK
<1>4. DownIsEmpty' /\ NoPathNoFiles' /\ OpenFileIsTorn' /\ NewHaveNoFile' /\ FileIsLatest'
  BY DEF StoreInv, DownIsEmpty, NoPathNoFiles, OpenFileIsTorn, NewHaveNoFile, FileIsLatest
<1>5. ServedIsLatest'
  <2> SUFFICES ASSUME NEW m \in Miners, targets'[m] # NoRecord
               PROVE  \/ targets'[m] = latest[m]
                      \/ missed[m] > 0 /\ targets'[m] = file[m]
    BY DEF ServedIsLatest
  <2>1. targets'[m] = file[m] /\ file[m] \in Records
    BY DEF StoreInv, DownIsEmpty, loadTargets, Decodable
  <2>2. missed[m] \in Nat
    BY DEF StoreInv, TypeOK
  <2> QED  BY <2>1, <2>2 DEF StoreInv, FileIsLatest
<1>6. PiecesUnderWay' /\ PiecesAreOfPast'
  BY DEF StoreInv, TypeOK, DownIsEmpty, PiecesUnderWay, PiecesAreOfPast, loadRecentPieces
<1>7. PiecesMatchFile'
  BY DEF StoreInv, TypeOK, DownIsEmpty, NoPathNoFiles, PiecesMatchFile, loadRecentPieces
<1> QED  BY <1>3, <1>4, <1>5, <1>6, <1>7 DEF StoreInv

\* Both ways to start keep the invariant.
LEMMA StartStep == StoreInv /\ (Start \/ StartUnread) => StoreInv'
<1>1. ASSUME StoreInv, Start PROVE StoreInv'
  <2>1. mishaps' \in {mishaps, mishaps + 1} /\ mishaps' <= MaxMishaps
    BY <1>1, StoreAssumption DEF Start, StoreInv, TypeOK
  <2> QED  BY <1>1, <2>1, LoadStep DEF Start
<1>2. ASSUME StoreInv, StartUnread PROVE StoreInv'
  <2>1. mishaps' \in {mishaps, mishaps + 1} /\ mishaps' <= MaxMishaps
    BY <1>2, StoreAssumption DEF StartUnread, Mishap, StoreInv, TypeOK
  <2> QED  BY <1>2, <2>1, LoadStep DEF StartUnread
<1> QED  BY <1>1, <1>2

\* Every step keeps the invariant.
LEMMA StoreInvStep == StoreInv /\ [Next]_vars => StoreInv'
<1> SUFFICES ASSUME StoreInv, [Next]_vars PROVE StoreInv'  OBVIOUS
<1>1. CASE UNCHANGED vars
  BY <1>1 DEF vars, StoreInv, TypeOK, DownIsEmpty, OpenFileIsTorn, PiecesUnderWay,
              PiecesAreOfPast, NoPathNoFiles, NewHaveNoFile, FileIsLatest, ServedIsLatest,
              PiecesMatchFile
<1> QED  BY <1>1, HandlerStep, RefresherStep, ExitStep, StartStep DEF Next

\* Whatever the process, the handler and the refresher do, the files and the
\* memory are as StoreInv says.
THEOREM StoreInvariant == Spec => []StoreInv
<1> QED  BY StoreInvInit, StoreInvStep, PTL DEF Spec

\* Every variable of the store has its type.
THEOREM StoreTypes == Spec => []TypeOK
<1>1. StoreInv => TypeOK  BY DEF StoreInv
<1> QED  BY <1>1, StoreInvariant, PTL

\* store writes one file per miner, under targetsMutex: a whole file is behind
\* the miner's last result by those it could not be opened for, and by no more,
\* whatever ended in between.
THEOREM FilesAreLatest == Spec => []FileIsLatest
<1>1. StoreInv => FileIsLatest  BY DEF StoreInv
<1> QED  BY <1>1, StoreInvariant, PTL

\* However often the process ends and starts, whatever cannot be read: no
\* older result of a miner is served than its file has, and that only if the
\* file could not be opened for the later ones.
THEOREM ServedAreLatest == Spec => []ServedIsLatest
<1>1. StoreInv => ServedIsLatest  BY DEF StoreInv
<1> QED  BY <1>1, StoreInvariant, PTL

\* storeRecentPieces replaces the map after the file was written: pieces that
\* are served are stored, and a whole file is ahead of them only in between, or
\* if it could not be opened at the start.
THEOREM PiecesAgreeWithFile == Spec => []PiecesMatchFile
<1>1. StoreInv => PiecesMatchFile  BY DEF StoreInv
<1> QED  BY <1>1, StoreInvariant, PTL

------------------------------------------------------------------------------
(* The torn files.                                                         *)

\* The handler's steps on a file tear one miner's file at a time: it stays
\* open, is written whole, or costs a mishap.
LEMMA TornFilesStep ==
  ASSUME StoreInv, FewTornFiles, [Next]_vars
  PROVE  FewTornFiles'
<1> USE StoreAssumption, Distinct
<1>1. mishaps \in Nat /\ writing \in Miners \cup {NoMiner}
  BY DEF StoreInv, TypeOK
<1>2. /\ IsFiniteSet(TornFiles)
      /\ Cardinality(TornFiles) \in Nat
      /\ IsFiniteSet(TornFiles \ {writing})
      /\ Cardinality(TornFiles \ {writing}) \in Nat
  BY FS_Subset, FS_CardinalityType DEF FewTornFiles
<1>3. NoMiner \notin TornFiles
  BY DEF TornFiles
<1>4. ASSUME file' = file, writing' = writing, mishaps' \in {mishaps, mishaps + 1}
      PROVE  FewTornFiles'
  <2>1. TornFiles' = TornFiles  BY <1>4 DEF TornFiles
  <2> QED  BY <1>1, <1>2, <1>4, <2>1 DEF FewTornFiles
<1>5. ASSUME file' = file, writing' = NoMiner, mishaps' = mishaps + 1
      PROVE  FewTornFiles'
  <2>1. TornFiles' = TornFiles  BY <1>5 DEF TornFiles
  <2>2. TornFiles \ {NoMiner} = TornFiles  BY <1>3
  <2>3. Cardinality(TornFiles) <= Cardinality(TornFiles \ {writing}) + 1
    BY <1>2, FS_RemoveElement
  <2> QED  BY <1>1, <1>2, <1>5, <2>1, <2>2, <2>3 DEF FewTornFiles
<1>6. ASSUME NEW m \in Miners, NEW r, OpenFile(m, r) PROVE FewTornFiles'
  <2>1. writing = NoMiner /\ writing' = m /\ mishaps' = mishaps
    BY <1>6 DEF OpenFile, Note
  <2>2. TornFiles' = TornFiles \cup {m}
    BY <1>6 DEF OpenFile, TornFiles, StoreInv, TypeOK
  <2>3. IsFiniteSet(TornFiles')
    BY <2>2, <1>2, FS_AddElement
  <2>4. TornFiles' \ {writing'} = TornFiles \ {m} /\ TornFiles \ {writing} = TornFiles
    BY <1>3, <2>1, <2>2
  <2>5. Cardinality(TornFiles \ {m}) <= Cardinality(TornFiles)
    BY <1>2, FS_Subset
  <2>6. Cardinality(TornFiles \ {m}) \in Nat
    BY <1>2, FS_Subset, FS_CardinalityType
  <2> QED  BY <1>1, <1>2, <2>1, <2>3, <2>4, <2>5, <2>6 DEF FewTornFiles
<1>7. CASE Encode
  <2>1. TornFiles' = TornFiles \ {writing}
    BY <1>7 DEF Encode, TornFiles, StoreInv, TypeOK, OpenFileIsTorn
  <2>2. TornFiles' \ {writing'} = TornFiles \ {writing}
    BY <1>3, <1>7, <2>1 DEF Encode
  <2> QED  BY <1>2, <1>7, <2>1, <2>2 DEF FewTornFiles, Encode
<1>8. CASE EncodeFails
  BY <1>5, <1>8 DEF EncodeFails, Mishap
<1>9. CASE Exit
  BY <1>5, <1>9 DEF Exit, Mishap
<1>10. CASE Start \/ StartUnread
  BY <1>4, <1>10 DEF Start, StartUnread, Load, Mishap
<1>11. CASE Refresher
  BY <1>4, <1>11 DEF Refresher, DropPieces, OpenPieces, OpenPiecesFails, EncodePieces,
                     EncodePiecesFails, ReplacePieces, Mishap, handlerVars
<1>12. ASSUME NEW m \in Miners, NEW r, RecordInMemory(m, r) \/ OpenFails(m, r)
       PROVE  FewTornFiles'
  BY <1>4, <1>12 DEF RecordInMemory, OpenFails, Mishap
<1>13. CASE UNCHANGED vars
  BY <1>4, <1>13 DEF vars
<1> QED
  BY <1>6, <1>7, <1>8, <1>9, <1>10, <1>11, <1>12, <1>13 DEF Next, Handler

\* However often the process ends and calls fail, no more records are lost
\* than that: besides the open file, at most one per mishap is torn.
THEOREM TornFilesAreFew == Spec => []OneTornPerMishap
<1>1. Init => FewTornFiles
  <2> SUFFICES ASSUME Init PROVE FewTornFiles  OBVIOUS
  <2>1. TornFiles = {} /\ TornFiles \ {writing} = {}
    BY Distinct DEF Init, TornFiles
  <2> QED  BY <2>1, FS_EmptySet DEF Init, FewTornFiles
<1>2. FewTornFiles => OneTornPerMishap
  <2>1. TornFiles \ {writing} = {m \in Miners \ {writing} : file[m] = Torn}
    BY DEF TornFiles
  <2> QED  BY <2>1 DEF FewTornFiles, OneTornPerMishap
<1> QED  BY <1>1, <1>2, StoreInvariant, TornFilesStep, PTL DEF Spec

==============================================================================
