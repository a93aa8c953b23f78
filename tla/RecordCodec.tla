---------------------------- MODULE RecordCodec ----------------------------
(***************************************************************************)
(* What the two log files look like inside: the binary record format and   *)
(* its decoder, and the lines of the JSON log.                             *)
(*                                                                         *)
(* A file is a sequence of cells.  A cell stands for one primitive that    *)
(* the codec reads or writes in one piece (u8, u32, u64, i64, f64) or for  *)
(* one byte of a string; the checksum takes two, its halves, so that the   *)
(* numbers stay inside TLC's.  A cell read as something else than what it  *)
(* was written as is read by its number, which is what becomes of a        *)
(* decoder that has lost the boundaries of the records; a number below 0   *)
(* stands for one that no file is as long as.  Whole cells are lost when a *)
(* write is cut short.                                                     *)
(*                                                                         *)
(* A record is [op, id] with, for the upserts, `node` or `edge`; for the   *)
(* markers id is the transaction's.  `fields`, the HashMap of properties,  *)
(* is a set of <<key, value>> with one value per key; a value is           *)
(* [tag, data], data being the characters of a Text, else one cell or none. *)
(***************************************************************************)
EXTENDS Integers, FiniteSets, SequencesExt

Magic == 65
Version == 2
Header == <<Magic, Version>>

Ops == <<"UpsertNode", "UpsertEdge", "DeleteNode", "DeleteEdge",
         "BeginTxn", "CommitTxn", "RollbackTxn">>

\* Numbers from here on cannot be a byte of UTF-8 text on their own.
NonAscii == 128

VNull == 0
VBoolean == 1
VInteger == 2
VFloat == 3
VText == 4

NaN == -5    \* the Float that JSON has no number for

-----------------------------------------------------------------------------
(* What a record can hold, over an alphabet and the numbers of a format.   *)

Ascii == 0 .. NonAscii - 1

\* No character is the type of a record.
Silent == Ascii \ (1 .. Len(Ops))

Values(chars, numbers) ==
    [tag : {VNull}, data : {<<>>}] \cup [tag : {VBoolean}, data : {<<0>>, <<1>>}]
    \cup [tag : {VInteger, VFloat}, data : [1 .. 1 -> numbers]]
    \cup [tag : {VText}, data : Seq(chars)]

FieldSets(chars, numbers) ==
    {fields \in SUBSET (Seq(chars) \X Values(chars, numbers)) :
        IsFiniteSet(fields) /\ \A f, g \in fields : f[1] = g[1] => f = g}

Nodes(chars, numbers) == [label : Seq(chars), fields : FieldSets(chars, numbers)]

Edges(chars, numbers) ==
    [src : numbers, tgt : numbers, label : Seq(chars), weight : numbers,
     fields : FieldSets(chars, numbers)]

Upserts(chars, numbers) ==
    [op : {"UpsertNode"}, id : numbers, node : Nodes(chars, numbers)]
    \cup [op : {"UpsertEdge"}, id : numbers, edge : Edges(chars, numbers)]

Deletes(numbers) == [op : {"DeleteNode", "DeleteEdge"}, id : numbers]
TxnMarkers(numbers) == [op : {"BeginTxn", "CommitTxn", "RollbackTxn"}, id : numbers]

-----------------------------------------------------------------------------
(* Writing.                                                                *)

AddCell(sum, cell) == LET a == (sum[1] + cell) % 65521 IN <<a, (sum[2] + a) % 65521>>

Adler == INSTANCE Loop WITH
    Start <- LAMBDA cells : <<1, 0>>,
    Turn <- LAMBDA cells, i, sum : AddCell(sum, cells[i])

adler32(cells) == LET sum == Adler!State(cells)[Len(cells)] IN <<sum[2], sum[1]>>

write_str(s) == <<Len(s)>> \o s

write_value(v) == <<v.tag>> \o (IF v.tag = VText THEN write_str(v.data) ELSE v.data)

write_pair(kv) == write_str(kv[1]) \o write_value(kv[2])

PairsWritten == INSTANCE Loop WITH
    Start <- LAMBDA order : <<Len(order)>>,
    Turn <- LAMBDA order, i, cells : cells \o write_pair(order[i])

write_properties(order) == PairsWritten!State(order)[Len(order)]

\* Everything of a record but its checksum; `order` is the order in which the
\* HashMap of its properties happens to be iterated.
Payload(rec, order) ==
    <<SelectInSeq(Ops, LAMBDA op : op = rec.op), rec.id>> \o
    CASE rec.op = "UpsertNode" -> write_str(rec.node.label) \o write_properties(order)
      [] rec.op = "UpsertEdge" ->
            <<rec.edge.src, rec.edge.tgt>> \o write_str(rec.edge.label)
                \o <<rec.edge.weight>> \o write_properties(order)
      [] OTHER -> <<>>

Orders(rec) ==
    CASE rec.op = "UpsertNode" -> SetToSeqs(rec.node.fields)
      [] rec.op = "UpsertEdge" -> SetToSeqs(rec.edge.fields)
      [] OTHER -> {<<>>}

with_checksum(cells) == cells \o adler32(cells)

-----------------------------------------------------------------------------
(* Reading.  A reader returns the position it stopped at whether or not it *)
(* succeeded: replay() goes on from there.  Reading past the end fails     *)
(* without moving.                                                         *)

Err(pos) == [ok |-> FALSE, pos |-> pos, val |-> <<>>]
Got(val, pos) == [ok |-> TRUE, pos |-> pos, val |-> val]
AndThen(r, Continue(_, _)) == IF r.ok THEN Continue(r.val, r.pos) ELSE r

read_cell(data, pos) == IF pos > Len(data) THEN Err(pos) ELSE Got(data[pos], pos + 1)

read_bytes(data, pos, n) ==
    IF n < 0 \/ pos + n - 1 > Len(data) THEN Err(pos) ELSE Got(SubSeq(data, pos, pos + n - 1), pos + n)

read_str(data, pos) ==
    AndThen(read_cell(data, pos), LAMBDA len, p :
    AndThen(read_bytes(data, p, len), LAMBDA s, q :
        IF \A i \in DOMAIN s : s[i] \in Ascii THEN Got(s, q) ELSE Err(q)))

read_value(data, pos) ==
    AndThen(read_cell(data, pos), LAMBDA tag, p :
        LET Value(chars, q) == Got([tag |-> tag, data |-> chars], q)
        IN  CASE tag = VNull -> Value(<<>>, p)
              [] tag = VBoolean ->
                    AndThen(read_cell(data, p), LAMBDA b, q : Value(<<IF b = 0 THEN 0 ELSE 1>>, q))
              [] tag \in {VInteger, VFloat} ->
                    AndThen(read_cell(data, p), LAMBDA n, q : Value(<<n>>, q))
              [] tag = VText -> AndThen(read_str(data, p), Value)
              [] OTHER -> Err(p))

PutField(fields, key, value) == {kv \in fields : kv[1] # key} \cup {<<key, value>>}

read_pair(data, fields, pos) ==
    AndThen(read_str(data, pos), LAMBDA key, p :
    AndThen(read_value(data, p), LAMBDA value, q : Got(PutField(fields, key, value), q)))

PairsRead == INSTANCE Loop WITH
    Start <- LAMBDA from : Got({}, from.pos),
    Turn <- LAMBDA from, i, r : AndThen(r, LAMBDA fields, p : read_pair(from.data, fields, p))

\* A pair takes cells, so that of more pairs than there are cells one fails.
read_properties(data, pos) ==
    AndThen(read_cell(data, pos), LAMBDA count, p :
        PairsRead!State([data |-> data, pos |-> p])
            [IF count \in 0 .. Len(data) THEN count ELSE Len(data) + 1])

decode_node(data, pos) ==
    AndThen(read_cell(data, pos), LAMBDA id, p :
    AndThen(read_str(data, p), LAMBDA label, q :
    AndThen(read_properties(data, q), LAMBDA fields, r :
        Got([op |-> "UpsertNode", id |-> id,
             node |-> [label |-> label, fields |-> fields]], r))))

\* Mutant of decode_edge: source and target in the wrong order.
decode_edge_swapped(data, pos) ==
    AndThen(read_bytes(data, pos, 3), LAMBDA ids, p :
    AndThen(read_str(data, p), LAMBDA label, q :
    AndThen(read_cell(data, q), LAMBDA weight, r :
    AndThen(read_properties(data, r), LAMBDA fields, s :
        Got([op |-> "UpsertEdge", id |-> ids[1],
             edge |-> [src |-> ids[3], tgt |-> ids[2], label |-> label,
                       weight |-> weight, fields |-> fields]], s)))))

decode_edge(data, pos) ==
    AndThen(read_cell(data, pos), LAMBDA id, p0 :
    AndThen(read_cell(data, p0), LAMBDA src, p1 :
    AndThen(read_cell(data, p1), LAMBDA tgt, p2 :
    AndThen(read_str(data, p2), LAMBDA label, p3 :
    AndThen(read_cell(data, p3), LAMBDA weight, p4 :
    AndThen(read_properties(data, p4), LAMBDA fields, p5 :
        Got([op |-> "UpsertEdge", id |-> id,
             edge |-> [src |-> src, tgt |-> tgt, label |-> label,
                       weight |-> weight, fields |-> fields]], p5)))))))

decode_record(type, data, pos) ==
    CASE type = 1 -> decode_node(data, pos)
      [] type = 2 -> decode_edge(data, pos)
      [] type \in 3 .. 7 ->
            AndThen(read_cell(data, pos), LAMBDA id, p : Got([op |-> Ops[type], id |-> id], p))
      [] OTHER -> Err(pos)

-----------------------------------------------------------------------------
(* A line of the JSON log: an object between braces, which is never a      *)
(* marker.  serde_json writes a NaN as null, and reads null as no number.  *)

Open == -1
Close == -2
Newline == -3
JsonNull == -4

JsonValue(v) == IF v = [tag |-> VFloat, data |-> <<NaN>>]
                THEN [tag |-> VFloat, data |-> <<JsonNull>>] ELSE v

JsonRecord(rec) ==
    IF rec.op = "UpsertEdge" /\ rec.edge.weight = NaN
    THEN [rec EXCEPT !.edge.weight = JsonNull] ELSE rec

JsonLine(rec, order) ==
    LET jsonOrder == [i \in DOMAIN order |-> <<order[i][1], JsonValue(order[i][2])>>]
    IN  <<Open>> \o Payload(JsonRecord(rec), jsonOrder) \o <<Close, Newline>>

\* serde_json::from_str, of a line without its newline.
from_str(line) ==
    LET n == Len(line)
        body == SubSeq(line, 2, n - 1)
        r == decode_record(body[1], body, 2)
    IN  IF n < 4 \/ line[1] # Open \/ line[n] # Close \/ body[1] \notin 1 .. 4
           \/ (\E i \in DOMAIN body : body[i] < 0)
        THEN Err(0)
        ELSE IF r.ok /\ r.pos = n - 1 THEN r ELSE Err(0)
=============================================================================
