----------------------------- MODULE TargetStore -----------------------------
(***************************************************************************)
(* The store directory: one JSON file per miner, written by the result     *)
(* handler after every check, and recent.pieces, written by the deal       *)
(* statistics after every refresh.  Both are truncated and then written    *)
(* again, and both are read once, when the service starts.                 *)
(*                                                                         *)
(* A file that was opened and not (wholly) written is torn.  The process   *)
(* may end at any point: main does not wait for the goroutines, so a       *)
(* signal and a crash leave the same files behind.  What the operating     *)
(* system may lose of a completed write is not modelled.                   *)
(***************************************************************************)
EXTENDS Integers, FiniteSets

CONSTANTS Miners,      \* the miner IDs
          Forms,       \* the forms a record can have, see Decodable
          MaxVersion,  \* bound of the model: results per miner, and refreshes
          MaxMishaps,  \* bound of the model: process ends and failed calls
          NoRecord,    \* no entry in the map, no recent pieces
          Absent,      \* no such file
          Torn,        \* a file without a whole record
          NoMiner      \* the handler writes no file

ASSUME StoreAssumption ==
  /\ Forms \subseteq {"plain", "transports", "no-id"}
  /\ MaxVersion \in Nat /\ MaxMishaps \in Nat
  /\ NoMiner \notin Miners
  /\ Cardinality({NoRecord, Absent, Torn}) = 3
  /\ {NoRecord, Absent, Torn} \cap ([n : Nat, form : Forms] \cup Nat) = {}

VARIABLES
  storePath,    \* a store directory is configured
  up,           \* the process runs
  targets,      \* hf.targets
  file,         \* the file of each miner
  writing,      \* the miner whose file the handler has open
  recentPieces, \* hf.recentPieces: the refresh it is from
  piecesFile,   \* the file recent.pieces
  storing,      \* storeRecentPieces: not under way, "open" or "written"
  refreshes,    \* refreshes so far
  latest,       \* history: the last result recorded for each miner
  missed,       \* history: results in a row whose file could not be opened
  unread,       \* history: recent.pieces could not be opened at the last start
  mishaps       \* history: process ends and failed calls so far

vars == <<storePath, up, targets, file, writing, recentPieces, piecesFile, storing,
          refreshes, latest, missed, unread, mishaps>>

handlerVars == <<targets, file, writing, latest, missed>>
piecesVars == <<recentPieces, piecesFile, storing, refreshes, unread>>

Records == [n : 1 .. MaxVersion, form : Forms]

\* External encoders: the addresses of transports protocols are interface
\* values and an AddrInfo without a peer ID is written with an empty one; a
\* record of either form cannot be decoded.
Decodable(r) == r \in Records /\ r.form = "plain"

Init ==
  /\ storePath \in BOOLEAN
  /\ up = TRUE
  /\ targets = [m \in Miners |-> NoRecord]
  /\ file = [m \in Miners |-> Absent]
  /\ writing = NoMiner
  /\ recentPieces = NoRecord
  /\ piecesFile = Absent
  /\ storing = "no"
  /\ refreshes = 0
  /\ latest = [m \in Miners |-> NoRecord]
  /\ missed = [m \in Miners |-> 0]
  /\ unread = FALSE
  /\ mishaps = 0

Mishap == mishaps < MaxMishaps /\ mishaps' = mishaps + 1

------------------------------------------------------------------------------
(* The result handler: targets and store, all under targetsMutex.          *)

NextRecord(m, form) ==
  [n |-> IF latest[m] = NoRecord THEN 1 ELSE latest[m].n + 1, form |-> form]

Note(m, r) ==
  /\ up /\ writing = NoMiner
  /\ r.n <= MaxVersion
  /\ targets' = [targets EXCEPT ![m] = r]
  /\ latest' = [latest EXCEPT ![m] = r]

\* Without a store path store returns at once.
RecordInMemory(m, r) ==
  /\ ~storePath
  /\ Note(m, r)
  /\ UNCHANGED <<storePath, up, file, writing, missed, piecesVars, mishaps>>

\* Faulty: the file is opened without O_TRUNC and left as it was.
OpenKeeping(m, r) ==
  /\ storePath
  /\ Note(m, r)
  /\ writing' = m
  /\ missed' = [missed EXCEPT ![m] = 0]
  /\ UNCHANGED <<storePath, up, file, piecesVars, mishaps>>

OpenFile(m, r) ==
  /\ storePath
  /\ Note(m, r)
  /\ writing' = m
  /\ file' = [file EXCEPT ![m] = Torn]
  /\ missed' = [missed EXCEPT ![m] = 0]
  /\ UNCHANGED <<storePath, up, piecesVars, mishaps>>

\* The error is logged; the file keeps an older record.
OpenFails(m, r) ==
  /\ storePath
  /\ Note(m, r)
  /\ Mishap
  /\ missed' = [missed EXCEPT ![m] = @ + 1]
  /\ UNCHANGED <<storePath, up, file, writing, piecesVars>>

\* Faulty: all files are opened before the first is written.
EncodeLeavingOthers ==
  /\ up /\ writing # NoMiner
  /\ file' = [m \in Miners |-> IF m = writing THEN targets[m]
                               ELSE IF file[m] = Absent THEN Absent ELSE Torn]
  /\ writing' = NoMiner
  /\ UNCHANGED <<storePath, up, targets, latest, missed, piecesVars, mishaps>>

Encode ==
  /\ up /\ writing # NoMiner
  /\ file' = [file EXCEPT ![writing] = targets[writing]]
  /\ writing' = NoMiner
  /\ UNCHANGED <<storePath, up, targets, latest, missed, piecesVars, mishaps>>

\* The file stays torn until the next check of the miner.
EncodeFails ==
  /\ up /\ writing # NoMiner
  /\ Mishap
  /\ writing' = NoMiner
  /\ UNCHANGED <<storePath, up, targets, file, latest, missed, piecesVars>>

------------------------------------------------------------------------------
(* The deal statistics: storeRecentPieces at the end of a refresh.         *)

\* Without a store path the new pieces are dropped.
DropPieces ==
  /\ up /\ ~storePath
  /\ refreshes < MaxVersion
  /\ refreshes' = refreshes + 1
  /\ UNCHANGED <<storePath, up, handlerVars, recentPieces, piecesFile, storing, unread, mishaps>>

OpenPieces ==
  /\ up /\ storePath /\ storing = "no"
  /\ refreshes < MaxVersion
  /\ refreshes' = refreshes + 1
  /\ piecesFile' = Torn
  /\ storing' = "open"
  /\ UNCHANGED <<storePath, up, handlerVars, recentPieces, unread, mishaps>>

OpenPiecesFails ==
  /\ up /\ storePath /\ storing = "no"
  /\ refreshes < MaxVersion
  /\ Mishap
  /\ refreshes' = refreshes + 1
  /\ UNCHANGED <<storePath, up, handlerVars, recentPieces, piecesFile, storing, unread>>

EncodePieces ==
  /\ up /\ storing = "open"
  /\ piecesFile' = refreshes
  /\ storing' = "written"
  /\ UNCHANGED <<storePath, up, handlerVars, recentPieces, refreshes, unread, mishaps>>

\* Faulty: the error is only logged.
EncodePiecesLogged ==
  /\ up /\ storing = "open"
  /\ Mishap
  /\ storing' = "written"
  /\ UNCHANGED <<storePath, up, handlerVars, recentPieces, piecesFile, refreshes, unread>>

\* The API goes on to serve the pieces of an earlier refresh.
EncodePiecesFails ==
  /\ up /\ storing = "open"
  /\ Mishap
  /\ storing' = "no"
  /\ UNCHANGED <<storePath, up, handlerVars, recentPieces, piecesFile, refreshes, unread>>

\* The map in memory is replaced, under recentPiecesMutex, only after the file
\* was written.
ReplacePieces ==
  /\ up /\ storing = "written"
  /\ recentPieces' = refreshes
  /\ storing' = "no"
  /\ unread' = FALSE
  /\ UNCHANGED <<storePath, up, handlerVars, piecesFile, refreshes, mishaps>>

------------------------------------------------------------------------------
(* The process.                                                            *)

Exit ==
  /\ up
  /\ Mishap
  /\ up' = FALSE
  /\ targets' = [m \in Miners |-> NoRecord]
  /\ writing' = NoMiner
  /\ recentPieces' = NoRecord
  /\ storing' = "no"
  /\ unread' = FALSE
  /\ UNCHANGED <<storePath, file, piecesFile, refreshes, latest, missed>>

\* Faulty: a file that does not decode is loaded as an empty record.
loadTargetsLax(readable) ==
  [m \in Miners |-> IF m \notin readable \/ file[m] = Absent THEN NoRecord
                    ELSE IF file[m] = Torn THEN [n |-> 0, form |-> "plain"] ELSE file[m]]

\* A file that the walk fails at, that cannot be opened or does not decode is
\* logged and skipped.
loadTargets(readable) ==
  [m \in Miners |-> IF m \in readable /\ Decodable(file[m]) THEN file[m] ELSE NoRecord]

loadRecentPieces == IF piecesFile \in Nat THEN piecesFile ELSE NoRecord

Load(readable, opened) ==
  /\ ~up
  /\ up' = TRUE
  /\ targets' = IF storePath THEN loadTargets(readable) ELSE targets
  /\ recentPieces' = IF storePath /\ opened THEN loadRecentPieces ELSE recentPieces
  /\ unread' = (storePath /\ ~opened)
  /\ UNCHANGED <<storePath, file, writing, piecesFile, storing, refreshes, latest, missed>>

Start == Load(Miners, TRUE) /\ UNCHANGED mishaps

\* Some files cannot be read as the service starts: it starts without them.
StartUnread ==
  /\ Mishap
  /\ \E readable \in SUBSET Miners, opened \in BOOLEAN : Load(readable, opened)

Handler == \/ \E m \in Miners, form \in Forms :
                LET r == NextRecord(m, form)
                IN RecordInMemory(m, r) \/ OpenFile(m, r) \/ OpenFails(m, r)
           \/ Encode
           \/ EncodeFails

Refresher == DropPieces \/ OpenPieces \/ OpenPiecesFails
             \/ EncodePieces \/ EncodePiecesFails \/ ReplacePieces

Next == Handler \/ Refresher \/ Exit \/ Start \/ StartUnread

Spec == Init /\ [][Next]_vars

------------------------------------------------------------------------------
(* Properties.                                                             *)

\* Every variable has its type.
TypeOK ==
  /\ storePath \in BOOLEAN /\ up \in BOOLEAN /\ unread \in BOOLEAN
  /\ storing \in {"no", "open", "written"}
  /\ targets \in [Miners -> Records \cup {NoRecord}]
  /\ latest \in [Miners -> Records \cup {NoRecord}]
  /\ file \in [Miners -> Records \cup {Absent, Torn}]
  /\ writing \in Miners \cup {NoMiner}
  /\ recentPieces \in 1 .. MaxVersion \cup {NoRecord}
  /\ piecesFile \in 1 .. MaxVersion \cup {Absent, Torn}
  /\ refreshes \in 0 .. MaxVersion
  /\ missed \in [Miners -> Nat]
  /\ mishaps \in 0 .. MaxMishaps

\* A whole file is the last result of its miner that a file could be opened
\* for: it is behind by the results missed since, and by no other.
FileIsLatest ==
  \A m \in Miners : file[m] \in Records =>
    /\ file[m].n = latest[m].n - missed[m]
    /\ missed[m] = 0 => file[m] = latest[m]

\* What the API serves of a miner is its last result, before and after any
\* number of restarts; an older one only if it is what the file still has
\* because it could not be opened for the later ones.
ServedIsLatest ==
  \A m \in Miners : targets[m] # NoRecord =>
    \/ targets[m] = latest[m]
    \/ missed[m] > 0 /\ targets[m] = file[m]

\* Each end of the process and each failed write costs one miner its record
\* at most, besides the file that is open.
OneTornPerMishap ==
  Cardinality({m \in Miners \ {writing} : file[m] = Torn}) <= mishaps

\* Pieces are stored before they are served: those of the last refresh are
\* served only when the file has them whole.  The file is ahead of what is
\* served only until the map is replaced, or if it could not be opened when
\* the service started.
PiecesMatchFile ==
  /\ recentPieces = refreshes => piecesFile = refreshes
  /\ up /\ piecesFile \in Nat =>
       \/ recentPieces = piecesFile
       \/ storing = "written" /\ piecesFile = refreshes
       \/ unread /\ recentPieces = NoRecord

\* options.go: "The stored information is then used to reload the state on
\* service restart if it is present."
StoredIsReloaded ==
  [][~up /\ up' => \A m \in Miners : file[m] \in Records => targets'[m] = file[m]]_vars
==============================================================================
