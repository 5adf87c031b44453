-------------------------------- MODULE Upload --------------------------------
(* Bringing a past election in from a file of cast vote records: the page    *)
(* reads the rows, creates the election, turns each row into a ballot and    *)
(* posts the ballots in batches, smaller ones after every failure; the server*)
(* inserts a batch of a prior election in one statement.                     *)
(* A row is the sequence of its rank columns, or NoRow where the parser      *)
(* reports an error (the empty last line of most files is one).              *)
EXTENDS Integers, FiniteSets, SequencesExt, Arrays

CONSTANTS
  Files,          \* the files an administrator may pick
  NoRow,          \* a row with an error
  NoRank,         \* no rank
  FirstBatch,     \* batchSize at the start
  SmallestBatch   \* the upload gives up below it

(* Columns are counted from 1, so no rank of a candidate is NoRank.          *)
FilesAssumption ==
  /\ \A f \in Files :
       /\ f.rows \in Seq(Seq(STRING) \cup {NoRow})
       /\ f.index \in BOOLEAN
  /\ NoRank \notin Nat \ {0}
  /\ FirstBatch \in Nat
ASSUME UploadAssumption == FilesAssumption

VARIABLES
  file,     \* the file and what the page knows of it
  archive,  \* addToPublicArchive
  status,   \* upload_status of the file
  process,  \* where post_process is: "stopped" after a return or an error
  order,    \* the candidates of the created election
  next,     \* nextIndex
  batch,    \* batchSize
  kept,     \* the ballots stored for the election
  unheard   \* rows of batches whose answer never came (history)
uploadVars == <<file, archive, status, process, order, next, batch, kept, unheard>>

UploadInit ==
  /\ file \in Files /\ archive \in BOOLEAN
  /\ status = "Pending" /\ process = "picked"
  /\ order = <<>> /\ next = 0 /\ batch = FirstBatch
  /\ kept = <<>> /\ unheard = {}

ErrorRows == {i \in DOMAIN file.rows : file.rows[i] = NoRow}
GoodRows == Ascending(DOMAIN file.rows \ ErrorRows)
CandidateNames ==
  (UNION {Range(file.rows[i]) : i \in Range(GoodRows)}) \ {"skipped", "overvote"}
Stop(end) == process' = "stopped" /\ status' = end
-----------------------------------------------------------------------------
Submit ==
  /\ process = "picked"
  /\ IF file.inferred THEN process' = "creating" /\ status' = "In Progress" ELSE Stop("Error")
  /\ UNCHANGED <<file, archive, order, next, batch, kept, unheard>>

(* An election the archive already has is edited instead, in a request       *)
(* without the expected_update_date editElection insists on: it is refused.  *)
(* Whatever goes wrong here leaves the file "In Progress".                   *)
IsUpdate == file.known /\ archive
CreateElection ==
  /\ process = "creating" /\ ~IsUpdate
  /\ Cardinality(CandidateNames) >= 2
  /\ order' \in SetToSeqs(CandidateNames)
  /\ process' = "converting"
  /\ UNCHANGED <<file, archive, status, next, batch, kept, unheard>>
ElectionRefused ==
  /\ process = "creating"
  /\ IsUpdate \/ Cardinality(CandidateNames) < 2
  /\ Stop(status)
  /\ UNCHANGED <<file, archive, order, next, batch, kept, unheard>>
CreateFails ==
  /\ process = "creating"
  /\ Stop(status)
  /\ UNCHANGED <<file, archive, order, next, batch, kept, unheard>>

(* rankColumnCSV: the first column that names somebody is the rank. *)
FirstColumn(row, cell) ==
  IF cell \in Range(row) THEN Min({k \in DOMAIN row : row[k] = cell}) ELSE NoRank
NonSkipped(row) == {k \in DOMAIN row : row[k] # "skipped"}
HasDuplicate(row) ==
  Cardinality({row[k] : k \in NonSkipped(row)}) # Cardinality(NonSkipped(row))
Ordered(row) ==
  [j \in DOMAIN order |-> FirstColumn(row, order[j])]
    \o <<FirstColumn(row, "overvote"), HasDuplicate(row)>>
OrderedBallots == [k \in DOMAIN GoodRows |-> Ordered(file.rows[GoodRows[k]])]

(* The order of the candidates is taken from the first row's ballot: there is*)
(* none when that row has an error.                                          *)
Convert ==
  /\ process = "converting"
  /\ IF file.rows[1] = NoRow THEN Stop(status) ELSE process' = "uploading" /\ UNCHANGED status
  /\ UNCHANGED <<file, archive, order, next, batch, kept, unheard>>
-----------------------------------------------------------------------------
(* The loop counts rows, the slices are of the ballots of the good ones. *)
More == next + 1 < Len(file.rows)
SliceAsFirst ==  \* mutant: slices keep the first size
  {k \in DOMAIN GoodRows : k > next /\ k <= next + FirstBatch}
Slice == {k \in DOMAIN GoodRows : k > next /\ k <= next + batch}

Post ==
  /\ process = "uploading" /\ More
  /\ process' = "posted"
  /\ UNCHANGED <<file, archive, status, order, next, batch, kept, unheard>>

Done ==
  /\ process = "uploading" /\ ~More
  /\ Stop("Done")
  /\ UNCHANGED <<file, archive, order, next, batch, kept, unheard>>

(* The server expands the ballots and inserts them together; ballots of a    *)
(* file with an Index column keep it as their id, which is unique.           *)
Verbose(marks) ==
  [scores |-> {[id |-> order[j], score |-> marks[j]] : j \in DOMAIN order},
   overvote |-> marks[Len(marks) - 1], duplicate |-> marks[Len(marks)]]
Ballot(k) == [row |-> GoodRows[k], vote |-> Verbose(OrderedBallots[k])]
Insertable ==
  /\ Slice # {}  \* an insert of no rows is an SQL error
  /\ file.index => \A k \in Slice : \A b \in Range(kept) : b.row # GoodRows[k]
Insert == kept' = kept \o [i \in 1..Cardinality(Slice) |-> Ballot(next + i)]

Uploaded ==
  /\ process = "posted" /\ Insertable
  /\ Insert
  /\ next' = next + batch
  /\ process' = "uploading"
  /\ UNCHANGED <<file, archive, status, order, batch, unheard>>

(* A response that is not ok: the same place again with a smaller batch. *)
Retry ==
  LET smaller == (3 * batch + 2) \div 4  \* Math.round(batchSize * 0.75)
  IN /\ batch' = smaller
     /\ IF smaller < SmallestBatch THEN Stop("Error")
        ELSE process' = "posted" /\ UNCHANGED status
UploadFails ==
  /\ process = "posted"
  /\ Retry
  /\ UNCHANGED <<file, archive, order, next, kept, unheard>>
StoredButFailed ==
  /\ process = "posted" /\ Insertable
  /\ Insert
  /\ unheard' = unheard \cup {GoodRows[k] : k \in Slice}
  /\ Retry
  /\ UNCHANGED <<file, archive, order, next>>

(* fetch itself rejects: nothing catches it. *)
ConnectionLost ==
  /\ process = "posted"
  /\ Stop(status)
  /\ kept' = kept \/ (Insertable /\ Insert)
  /\ UNCHANGED <<file, archive, order, next, batch, unheard>>

Ended == process = "stopped" /\ UNCHANGED uploadVars

UploadNext ==
  \/ Submit \/ CreateElection \/ ElectionRefused \/ CreateFails \/ Convert
  \/ Post \/ Uploaded \/ UploadFails \/ StoredButFailed \/ ConnectionLost
  \/ Done \/ Ended
UploadSpec == UploadInit /\ [][UploadNext]_uploadVars
-----------------------------------------------------------------------------
(* Every stored ballot says what its row says: a candidate has the rank of   *)
(* the first column that names it and no other, an overvote and a repeated   *)
(* name are flagged (through the positional encoding both sides share).      *)
AsInFile(b) ==
  LET row == file.rows[b.row] IN
  /\ {s.id : s \in b.vote.scores} = CandidateNames
  /\ Cardinality(b.vote.scores) = Cardinality(CandidateNames)
  /\ \A s \in b.vote.scores :
       IF s.score = NoRank THEN s.id \notin Range(row)
       ELSE row[s.score] = s.id /\ \A k \in 1..(s.score - 1) : row[k] # s.id
  /\ (b.vote.overvote # NoRank) = ("overvote" \in Range(row))
  /\ b.vote.duplicate = \E j, k \in DOMAIN row : j < k /\ row[j] = row[k] /\ row[j] # "skipped"

(* A stored ballot says what its row says, and a file that is reported done  *)
(* has each of its rows stored once, with two exceptions: without any error  *)
(* row the last row is left behind when it is alone in the last batch, and a *)
(* batch whose answer was lost is stored again (unless the file has an Index *)
(* column).                                                                  *)
Copies(i) == Cardinality({p \in DOMAIN kept : kept[p].row = i})
RowsStoredOnce ==
  /\ \A b \in Range(kept) : AsInFile(b)
  /\ status = "Done" =>
       \A i \in Range(GoodRows) :
         \/ Copies(i) = 1
         \/ Copies(i) = 0 /\ ErrorRows = {} /\ i = Len(file.rows) /\ i = next + 1
         \/ Copies(i) > 1 /\ i \in unheard /\ ~file.index
=============================================================================
