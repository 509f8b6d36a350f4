---------------------------- MODULE MCLedgerOpen ----------------------------
(* Files of every schema version, as the fixtures of ledger-sqlite: a        *)
(* v1 file with a dispatched and a resumed operation, a v1 file with damaged *)
(* rows, v2, v3 and current files with data, a newer one and another         *)
(* application's; an empty one, and one whose creation was cut off.          *)
EXTENDS LedgerOpen, TLC

CONSTANTS op1, op2, r1, p1, p2, p3

MCProfile == [op \in Ops |-> [kind |-> "guarded", window |-> NoWindow, reconcile |-> FALSE]]

V1(state, rev, attempts, token, claim, resumeFrom) ==
    [schemaVersion |-> 1, state |-> state, rev |-> rev, attempts |-> attempts, token |-> token,
     claim |-> claim, resumeFrom |-> resumeFrom, authorization |-> "allow",
     uncertainty |-> FALSE, result |-> state = "succeeded", error |-> FALSE,
     reconciliation |-> "none"]

Held(token) == [owner |-> r1, token |-> token, expiresAt |-> 30]

Succeeded == V1("succeeded", 4, 1, 1, NoRow, "none")
Dispatched == V1("dispatched", 3, 1, 3, Held(3), "dispatched")
Resumed == [V1("claimed", 6, 1, 2, Held(2), "uncertain") EXCEPT !.uncertainty = TRUE]
Damaged == [Succeeded EXCEPT !.schemaVersion = 7]

FirstEvents(operations) == {<<op, operations[op]>> : op \in {o \in Ops : Exists(operations[o])}}

File(application, version, tables, layout, operations, revs) ==
    [EmptyFile EXCEPT !.application = application, !.version = version,
                      !.tables = tables, !.layout = layout,
                      !.operations = operations, !.events = FirstEvents(operations),
                      !.revisions = revs]

All(rec) == [op \in Ops |-> rec]
Unsettled == [op \in Ops |-> IF op = op1 THEN Dispatched ELSE Resumed]
Settled == All(TransformV1Record(Succeeded))
SomeRevisions == {<<1, 1>>, <<1, 2>>, <<2, 1>>}
SomeOrder == <<<<2, 1>>, <<1, 1>>, <<1, 2>>>>

MCOriginals ==
    {EmptyFile, [EmptyFile EXCEPT !.application = "ordarium", !.tables = {"operations"}],
     [EmptyFile EXCEPT !.application = "other", !.version = CurrentVersion],
     File("ordarium", 1, {"operations"}, "v1", Unsettled, {}),
     File("ordarium", 1, {"operations"}, "v1", All(Damaged), {}),
     File("ordarium", 2, {"operations"}, "current", Settled, {}),
     File("ordarium", 3, {"operations", "revisions"}, "current", Settled, SomeRevisions),
     File("ordarium", 3, {"operations", "revisions"}, "current", Settled, {}),
     [File("ordarium", CurrentVersion, AllTables, "current", Settled, SomeRevisions)
         EXCEPT !.changes = SomeOrder],
     File("ordarium", 5, AllTables, "current", Settled, {})}
=============================================================================
