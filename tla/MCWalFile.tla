----------------------------- MODULE MCWalFile -----------------------------
(***************************************************************************)
(* The setups of WalFile for TLC:                                          *)
(*                                                                         *)
(*   binary   any records and markers; a fault, a crash, a compaction      *)
(*   json     any records; a fault, a crash, two compactions               *)
(*   faulty   binary, a few records; a fault, a compaction and a corruption *)
(*   codec    binary, one record of every shape the format has             *)
(*                                                                         *)
(* Characters are numbers.  The contents are more than WalStorage's        *)
(* constants of the same purpose, which no definition here uses.           *)
(***************************************************************************)
EXTENDS WalFile

Label == <<65, 66>>
Key == <<98>>

Plain == [label |-> Label, fields |-> {}]
Rich == [label |-> <<>>, fields |-> {<<Key, [tag |-> VInteger, data |-> <<5>>]>>}]
Long == [label |-> <<10, 11, 12, 13, 65>>, fields |-> {}]

UpsertNode(id, node) == [op |-> "UpsertNode", id |-> id, node |-> node]
UpsertEdge(id, src, tgt) ==
    [op |-> "UpsertEdge", id |-> id,
     edge |-> [src |-> src, tgt |-> tgt, label |-> Label, weight |-> 1, fields |-> {}]]
Plainly(what, id) == [op |-> what, id |-> id]

MCRecords == {UpsertNode(0, Plain), UpsertNode(0, Rich), UpsertEdge(0, 0, 1),
              Plainly("DeleteNode", 0), Plainly("DeleteEdge", 0)}

MCMarkers == {Plainly("BeginTxn", 1), Plainly("CommitTxn", 1), Plainly("RollbackTxn", 1)}

\* Every kind of value, alone and in pairs under two keys.
MCValues == {[tag |-> VNull, data |-> <<>>], [tag |-> VBoolean, data |-> <<0>>],
             [tag |-> VBoolean, data |-> <<1>>], [tag |-> VInteger, data |-> <<4>>],
             [tag |-> VFloat, data |-> <<NaN>>], [tag |-> VText, data |-> <<>>],
             [tag |-> VText, data |-> <<10, 11, 12, 13, 65>>]}
MCFieldSets == {fields \in SUBSET ({Key, <<65, 0>>} \X MCValues) :
                    /\ Cardinality(fields) <= 2
                    /\ \A f, g \in fields : f[1] = g[1] => f = g}
MCRecordsCodec ==
    {UpsertNode(1, [label |-> label, fields |-> fields]) :
        label \in {<<>>, Label}, fields \in MCFieldSets}
    \cup {[op |-> "UpsertEdge", id |-> 0,
           edge |-> [src |-> 0, tgt |-> 1, label |-> label, weight |-> 2, fields |-> fields]] :
                label \in {<<>>, Label}, fields \in MCFieldSets}

MCSetup(format, records, maxRecords, maxFaults, maxCrashes, maxCompactions, maxCorruptions) ==
    [format |-> format, records |-> records, maxRecords |-> maxRecords,
     maxFaults |-> maxFaults, maxCrashes |-> maxCrashes,
     maxCompactions |-> maxCompactions, maxCorruptions |-> maxCorruptions]

MCSetups == {MCSetup("binary", MCRecords \cup MCMarkers, 3, 1, 1, 1, 0),
             MCSetup("binary", {UpsertNode(0, Long), Plainly("DeleteNode", 0)}, 2, 2, 1, 0, 0),
             MCSetup("json", MCRecords, 3, 1, 1, 2, 0),
             MCSetup("binary", {UpsertNode(0, Rich), Plainly("DeleteNode", 0)}, 3, 1, 0, 1, 1),
             MCSetup("binary", MCRecordsCodec, 1, 0, 1, 1, 0)}

-----------------------------------------------------------------------------
\* The elements of s at the positions in `kept`.
SelectInOrder(s, kept) == [i \in 1 .. Cardinality(kept) |-> s[SetToSortSeq(kept, <)[i]]]

\* Torn and corrupted records may cost others, but a replay is always the fold
\* of some of the records written: the checksum lets nothing else through.  This
\* is as likely as a checksum is good, and checked for the setup that corrupts.
NothingInvented ==
    (setup.maxCorruptions > 0 /\ damage \subseteq {"torn", "corrupt"}) =>
        \E kept \in SUBSET (DOMAIN log) :
            Replay(setup.format, cells).disk = Expected(SelectInOrder(log, kept))
=============================================================================
