------------------------------ MODULE WalFile ------------------------------
(***************************************************************************)
(* The file behind WalStorage: BinaryFileStorage and JsonFileStorage, with *)
(* what a dying process or a failing write leaves of it.                   *)
(*                                                                         *)
(* An append is one write_all: it writes everything, or a part and then    *)
(* returns an error or loses the process.  open() creates the file and     *)
(* writes the header in two steps; compact() writes another file record by *)
(* record, renames it over the log and reopens its handle, and can stop    *)
(* after each.                                                             *)
(*                                                                         *)
(* `log` is a history variable: the records in the file, those whose       *)
(* append returned Ok or that a compaction wrote.  What replay() should    *)
(* return is their fold (Expected).  `damage` records why it may not: a    *)
(* record was appended behind a torn one ("torn"), to a file without its   *)
(* header ("headless"), through a handle to the file that a compaction     *)
(* replaced ("orphan"); or the medium changed a cell ("corrupt").          *)
(* Neither variable enables or disables anything.                          *)
(***************************************************************************)
EXTENDS WalStorage, RecordCodec

CONSTANT Setups  \* the adapters and their surroundings, one of which it is

\* Which numbers a record can hold: a cell is a whole number, and JSON has none
\* for the NaN.
Numbers(format) == IF format = "binary" THEN Int ELSE Nat

\* What can be written to a log of the format.
StoredRecords(format, chars) ==
    Upserts(chars, Numbers(format)) \cup Deletes(Numbers(format))
    \cup IF format = "binary" THEN TxnMarkers(Numbers(format)) ELSE {}

ASSUME SetupsAssumption ==
    \A s \in Setups :
        /\ s.format \in {"binary", "json"}
        /\ s.records \subseteq StoredRecords(s.format, Ascii)
        /\ {s.maxRecords, s.maxFaults, s.maxCrashes, s.maxCompactions, s.maxCorruptions}
               \subseteq Nat

VARIABLES
    setup,      \* the adapter's format, the records the program may append,
                \* and bounds on the records in the log, on writes that stop
                \* half-way and failed reopens, on crashes, on compactions
                \* and on cells changed by the medium
    exists,     \* whether there is a file at `path`
    cells,      \* its contents
    tmp,        \* contents of the file with extension .tmp
    handle,     \* what `writer` appends to: "closed", "path" or "orphan"
    op,         \* the call in progress
    log, damage,
    torn,       \* the file ends in part of a record
    faults, crashes, compactions, corruptions

file == <<exists, cells, tmp, handle, op>>
bounds == <<faults, crashes, compactions, corruptions>>
vars == <<setup, file, log, damage, torn, bounds>>

Idle == [call |-> "idle", todo |-> {}, written |-> <<>>]

\* The first cells of a new file.
NewFile(format) == IF format = "binary" THEN Header ELSE <<>>

Encode(format, rec, order) ==
    IF format = "binary" THEN with_checksum(Payload(rec, order)) ELSE JsonLine(rec, order)

-----------------------------------------------------------------------------
(* replay().                                                               *)

\* apply_or_buffer() and the markers' arms.
Apply(d, rec) ==
    CASE rec.op = "UpsertNode" -> SaveNode(d, rec.id, rec.node)
      [] rec.op = "UpsertEdge" -> SaveEdge(d, rec.id, rec.edge)
      [] rec.op = "DeleteNode" -> DeleteNode(d, rec.id)
      [] rec.op = "DeleteEdge" -> DeleteEdge(d, rec.id)
      [] rec.op = "BeginTxn" -> BeginTxn(d, rec.id)
      [] rec.op = "CommitTxn" -> CommitTxn(d, rec.id)
      [] rec.op = "RollbackTxn" -> RollbackTxn(d)

Ok(d) == [ok |-> TRUE, disk |-> d]
Failed == [ok |-> FALSE, disk |-> EmptyDisk]

\* Mutant of Unfinished: a record without its checksum counts.
UnfinishedCounts(d, decoded) == IF decoded.ok THEN Apply(d, decoded.val) ELSE d

\* The file ends before the checksum: the record is dropped.
Unfinished(d, decoded) == d

\* Mutant of ChecksumAgrees: version 1 of the format, which has none.
NoChecksum(stored, covered) == TRUE

ChecksumAgrees(stored, covered) == stored = adler32(covered)

\* A record whose checksum disagrees is passed over, up to where its decoding
\* stopped; one that has a good checksum and no meaning ends the replay.
NextRecord(data, s) ==
    LET decoded == decode_record(data[s.pos], data, s.pos + 1)
        csum == read_bytes(data, decoded.pos, 2)
        Stop(d) == [s EXCEPT !.pos = Len(data) + 1, !.disk = d]
    IN  IF ~csum.ok THEN Stop(Unfinished(s.disk, decoded))
        ELSE IF ~ChecksumAgrees(csum.val, SubSeq(data, s.pos, decoded.pos - 1))
        THEN [s EXCEPT !.pos = csum.pos]
        ELSE IF decoded.ok THEN [s EXCEPT !.pos = csum.pos, !.disk = Apply(@, decoded.val)]
        ELSE Stop(s.disk)

LineEnd(data, pos) ==
    CHOOSE end \in pos .. Len(data) + 1 :
        /\ end =< Len(data) => data[end] = Newline
        /\ \A i \in pos .. end - 1 : data[i] # Newline

\* A line that does not parse fails the whole replay.
NextLine(data, s) ==
    LET end == LineEnd(data, s.pos)
        line == SubSeq(data, s.pos, end - 1)
        record == from_str(line)
    IN  IF line = <<>> THEN [s EXCEPT !.pos = end + 1]
        ELSE IF record.ok THEN [s EXCEPT !.pos = end + 1, !.disk = Apply(@, record.val)]
        ELSE [s EXCEPT !.ok = FALSE]

Scan == INSTANCE Loop WITH
    Start <- LAMBDA f : [ok |-> TRUE, pos |-> Len(NewFile(f.format)) + 1, disk |-> EmptyDisk],
    Turn <- LAMBDA f, i, s : IF ~s.ok \/ s.pos > Len(f.data) THEN s
                             ELSE IF f.format = "binary" THEN NextRecord(f.data, s)
                             ELSE NextLine(f.data, s)

\* Every turn reads a cell, so that there are no more turns than cells.
Scanned(format, data) == Scan!State([format |-> format, data |-> data])[Len(data)]

Replay(format, data) ==
    IF Len(data) < Len(NewFile(format)) THEN Ok(EmptyDisk)
    ELSE IF SubSeq(data, 1, Len(NewFile(format))) # NewFile(format) THEN Failed
    ELSE IF ~Scanned(format, data).ok THEN Failed
    ELSE Ok(Scanned(format, data).disk)

Fold == INSTANCE Loop WITH
    Start <- LAMBDA records : EmptyDisk,
    Turn <- LAMBDA records, i, d : Apply(d, records[i])

Expected(records) == Fold!State(records)[Len(records)]

Live(d) == <<d.nodes, d.edges>>

-----------------------------------------------------------------------------
Init ==
    /\ setup \in Setups
    /\ exists = FALSE
    /\ cells = <<>>
    /\ tmp = <<>>
    /\ handle = "closed"
    /\ op = Idle
    /\ log = <<>>
    /\ damage = {}
    /\ torn = FALSE
    /\ faults = 0 /\ crashes = 0 /\ compactions = 0 /\ corruptions = 0

\* open() of a file that is there: its contents are not looked at.
OpenExisting ==
    /\ handle = "closed" /\ exists
    /\ handle' = "path"
    /\ UNCHANGED <<setup, exists, cells, tmp, op, log, damage, torn, bounds>>

OpenCreates ==
    /\ handle = "closed" /\ ~exists
    /\ exists' = TRUE
    /\ handle' = "path"
    /\ op' = IF setup.format = "binary" THEN [Idle EXCEPT !.call = "header"] ELSE Idle
    /\ UNCHANGED <<setup, cells, tmp, log, damage, torn, bounds>>

OpenWritesHeader ==
    /\ op.call = "header"
    /\ cells' = NewFile(setup.format)
    /\ op' = Idle
    /\ UNCHANGED <<setup, exists, tmp, handle, log, damage, torn, bounds>>

\* The header is not written, or in part; open() returns the error.
OpenFails ==
    /\ op.call = "header" /\ faults < setup.maxFaults
    /\ \E k \in 0 .. Len(NewFile(setup.format)) - 1 : cells' = SubSeq(NewFile(setup.format), 1, k)
    /\ op' = Idle
    /\ handle' = "closed"
    /\ faults' = faults + 1
    /\ UNCHANGED <<setup, exists, tmp, log, damage, torn, crashes, compactions, corruptions>>

Ready == op = Idle /\ handle # "closed"

\* What is wrong with the place that an append through a good handle writes to.
BadEnd == (IF Len(cells) < Len(NewFile(setup.format)) THEN {"headless"} ELSE {})
          \cup (IF torn THEN {"torn"} ELSE {})

AppendRecord(rec, order) ==
    /\ Ready /\ Len(log) < setup.maxRecords
    /\ cells' = IF handle = "path" THEN cells \o Encode(setup.format, rec, order) ELSE cells
    /\ log' = Append(log, rec)
    /\ damage' = damage \cup BadEnd \cup (IF handle = "orphan" THEN {"orphan"} ELSE {})
    /\ UNCHANGED <<setup, exists, tmp, handle, op, torn, bounds>>

\* write_all() stops after k cells.  The process goes on, or dies next.
AppendStops(rec, order) ==
    /\ Ready /\ faults < setup.maxFaults /\ handle = "path" /\ Len(log) < setup.maxRecords
    /\ \E k \in 1 .. Len(Encode(setup.format, rec, order)) - 1 :
            cells' = cells \o SubSeq(Encode(setup.format, rec, order), 1, k)
    /\ torn' = TRUE
    /\ damage' = damage \cup BadEnd
    /\ faults' = faults + 1
    /\ UNCHANGED <<setup, exists, tmp, handle, op, log, crashes, compactions, corruptions>>

-----------------------------------------------------------------------------
(* compact().  It returns an error at once when the log cannot be read.    *)

LiveRecords(d) ==
    {[op |-> "UpsertNode", id |-> id, node |-> d.nodes[id]] : id \in LiveNodes(d)}
    \cup {[op |-> "UpsertEdge", id |-> id, edge |-> d.edges[id]] : id \in LiveEdges(d)}

CompactStart ==
    /\ Ready /\ compactions < setup.maxCompactions
    /\ Replay(setup.format, cells).ok
    /\ tmp' = NewFile(setup.format)
    /\ op' = [call |-> "write", todo |-> LiveRecords(Replay(setup.format, cells).disk), written |-> <<>>]
    /\ compactions' = compactions + 1
    /\ UNCHANGED <<setup, exists, cells, handle, log, damage, torn, faults, crashes, corruptions>>

\* Nodes before edges, each in the order of the HashMap.
CompactWrites(rec, order) ==
    /\ op.call = "write" /\ rec \in op.todo
    /\ rec.op = "UpsertEdge" => \A r \in op.todo : r.op = "UpsertEdge"
    /\ tmp' = tmp \o Encode(setup.format, rec, order)
    /\ op' = [op EXCEPT !.todo = @ \ {rec}, !.written = Append(@, rec)]
    /\ UNCHANGED <<setup, exists, cells, handle, log, damage, torn, bounds>>

\* Creating or writing the temporary file fails: it stays behind.
CompactWriteFails ==
    /\ op.call = "write" /\ faults < setup.maxFaults
    /\ op' = Idle
    /\ faults' = faults + 1
    /\ UNCHANGED <<setup, exists, cells, tmp, handle, log, damage, torn, crashes, compactions,
                   corruptions>>

\* Mutant of RenameReady: the rename does not wait for the last edge.
RenameEarly == op.call = "write" /\ Cardinality(op.todo) <= 1

RenameReady == op.call = "write" /\ op.todo = {}

CompactRenames ==
    /\ RenameReady
    /\ cells' = tmp
    /\ tmp' = <<>>
    /\ handle' = "orphan"
    /\ op' = [Idle EXCEPT !.call = "reopen"]
    /\ log' = op.written
    /\ torn' = FALSE
    /\ UNCHANGED <<setup, exists, damage, bounds>>

CompactReopens ==
    /\ op.call = "reopen"
    /\ handle' = "path"
    /\ op' = Idle
    /\ UNCHANGED <<setup, exists, cells, tmp, log, damage, torn, bounds>>

\* The old handle stays in `writer`, and compact() returns the error.
CompactReopenFails ==
    /\ op.call = "reopen" /\ faults < setup.maxFaults
    /\ op' = Idle
    /\ faults' = faults + 1
    /\ UNCHANGED <<setup, exists, cells, tmp, handle, log, damage, torn, crashes, compactions,
                   corruptions>>

-----------------------------------------------------------------------------
Crash ==
    /\ handle # "closed" /\ crashes < setup.maxCrashes
    /\ handle' = "closed"
    /\ op' = Idle
    /\ crashes' = crashes + 1
    /\ UNCHANGED <<setup, exists, cells, tmp, log, damage, torn, faults, compactions, corruptions>>

\* One cell of the file is no longer what was written.
Corrupt ==
    /\ Ready /\ corruptions < setup.maxCorruptions
    /\ \E i \in Len(NewFile(setup.format)) + 1 .. Len(cells), delta \in {-1, 1} :
            cells' = [cells EXCEPT ![i] = @ + delta]
    /\ damage' = damage \cup {"corrupt"}
    /\ corruptions' = corruptions + 1
    /\ UNCHANGED <<setup, exists, tmp, handle, op, log, torn, faults, crashes, compactions>>

CompactStep ==
    \/ \E rec \in op.todo : \E order \in Orders(rec) : CompactWrites(rec, order)
    \/ CompactRenames \/ CompactReopens

Next ==
    \/ OpenExisting \/ OpenCreates \/ OpenWritesHeader \/ OpenFails
    \/ \E rec \in setup.records : \E order \in Orders(rec) :
            AppendRecord(rec, order) \/ AppendStops(rec, order)
    \/ CompactStart \/ CompactStep \/ CompactWriteFails \/ CompactReopenFails
    \/ Crash \/ Corrupt

Spec == Init /\ [][Next]_vars

-----------------------------------------------------------------------------
(* Properties.                                                             *)

\* No text that is written holds a character which is the type of a record.
\* Where a text is cut, replay() reads on inside it and takes four of its bytes
\* for a checksum and the next for a type.
QuietTexts == setup.records \subseteq StoredRecords(setup.format, Silent)

\* Short of the damages, the file replays to the fold of the records in it,
\* through torn tails, compactions interrupted anywhere and restarts: the log
\* that WalStorage describes.  (A torn line of JSON stops every replay.)
ReplayIsLog ==
    (damage = {} /\ (torn => setup.format = "binary" /\ QuietTexts)) =>
        Replay(setup.format, cells) = Ok(Expected(log))

\* The size of a binary file that holds the first n of the records.
Sizes == INSTANCE Loop WITH
    Start <- LAMBDA records : Len(Header),
    Turn <- LAMBDA records, i, size :
        size + Len(Encode("binary", records[i], CHOOSE order \in Orders(records[i]) : TRUE))

\* Wherever the binary file is cut, what is left replays to the records that
\* are whole in it, and to nothing made of a half record.
CutReplaysToPrefix ==
    (setup.format = "binary" /\ damage = {} /\ ~torn /\ QuietTexts) =>
        LET Size(n) == Sizes!State(log)[n]
        IN  \A n \in 0 .. Len(log) :
                \A k \in Size(n) .. (IF n < Len(log) THEN Size(n + 1) - 1 ELSE Len(cells)) :
                    Replay("binary", SubSeq(cells, 1, k)) = Ok(Expected(SubSeq(log, 1, n)))

Graph(data) == Live(Replay(setup.format, data).disk)

\* A replay before the rename and one after it find the same graph, even when
\* the log that was compacted is damaged.
CompactionKeepsGraph == [][CompactRenames => Graph(cells') = Graph(cells)]_vars

-----------------------------------------------------------------------------
(* Statements of the documentation that do not hold.                       *)

\* docs/04: "every mutation appends a new record" so that no crash "leaves a
\* corrupt file".  But open() appends behind a record cut short.
AppendIsSafeAfterTear ==
    (setup.format = "binary" /\ damage \subseteq {"torn"}) =>
        Replay("binary", cells).disk = Expected(log)

\* docs/04: what insert_node returned Ok for is on disk.  But the file may have
\* been created by a process that died before it wrote the header.
AppendIsSafeAfterOpen ==
    (setup.format = "binary" /\ damage \subseteq {"headless"}) =>
        Replay("binary", cells) = Ok(Expected(log))

\* docs/04: compact() is "safe to call at any time".  But when it cannot reopen
\* the log its handle stays on the file that is no longer there.
AppendIsSafeAfterCompact ==
    (setup.format = "binary" /\ damage \subseteq {"orphan"}) => Graph(cells) = Live(Expected(log))

\* docs/17: a checksum mismatch "skips the record".  But a damaged length moves
\* the place where the next record is looked for.
MismatchSkipsTheRecord ==
    (damage = {"corrupt"} /\ ~torn) =>
        \E n \in DOMAIN log : Graph(cells) = Live(Expected(RemoveAt(log, n)))

\* docs/04: the graph is "recovered even if the power fails or the process
\* crashes".  But a JSON log cannot be read once a line of it was cut.
RecoveredAfterTear == damage = {} => Replay(setup.format, cells).ok

\* docs/04: after an UpsertEdge(E0, N0 -> N1) and then a DeleteNode(N0), replay
\* has E0 "deleted (no UpsertEdge visible after DeleteNode cleared N0)".  But the
\* tombstone of a node takes the node alone: delete_node writes one per edge.
DeletedNodeTakesItsEdges ==
    (damage = {} /\ ~torn) =>
        \A i, j \in DOMAIN log :
            /\ i < j /\ log[i].op = "UpsertEdge"
            /\ log[j].op = "DeleteNode" /\ log[j].id = log[i].edge.src
            /\ \A k \in i + 1 .. Len(log) : log[k].op \in {"UpsertNode", "DeleteNode"}
            => Replay(setup.format, cells).disk.edges[log[i].id] = Absent
=============================================================================
