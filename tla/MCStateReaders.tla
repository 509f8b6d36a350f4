--------------------------- MODULE MCStateReaders ---------------------------
(* The instance of MCStateStore, and a reader beside some of its writes.   *)
EXTENDS MCStateStore, StateReaders

CONSTANT MaxWritesWithReader

Read(kind, memory) ==
    [kind |-> kind, subject |-> gates, ref |-> OperationRef(op1), limit |-> 1, memory |-> memory]

MCReadRequests ==
    {Read("none", FALSE), Read("history", FALSE), Read("list", FALSE)} \cup
    {Read("referencing", memory) : memory \in BOOLEAN}

MCSubjectRank == plan :> 1 @@ gates :> 2

Started == {w \in Writes : writes[w].pc # "idle"}
Enough == readRequest.kind # "none" /\ Cardinality(Started) = MaxWritesWithReader

\* Beside a reader only some of the calls are made.
MCNext ==
    \/ ReadersNext /\ (Enough => \A w \in Writes \ Started : writes'[w].pc = "idle")
    \/ /\ Enough /\ \A w \in Started : writes[w].pc = "done"
       /\ UNCHANGED <<storeVars, readerVars>>

MCSpec == ReadersInit /\ [][MCNext]_<<storeVars, readerVars>>
=============================================================================
