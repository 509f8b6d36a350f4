-------------------------- MODULE StateStore_proofs --------------------------
(***************************************************************************)
(* What the state store keeps for every set of subjects, operations, calls *)
(* and requests and every bound on revisions.  Only a commit touches the   *)
(* chains and the change log (lemma StoreMoves), and it extends one chain  *)
(* and the log by one (lemma CommitEffect).                                *)
(***************************************************************************)
EXTENDS StateStore, TLAPS

\* Call w commits its draft.
Commits(w) ==
    /\ Checking(w)
    /\ writes[w].unchecked = {}
    /\ CasStateAccepts(RequestOf(w).subject, RequestOf(w).expected)
    /\ CompareAndSetState(RequestOf(w).subject, Draft(w))
    /\ Return(w, "written")
    /\ UNCHANGED <<operations, lifecycle>>

-----------------------------------------------------------------------------
(***************************************************************************)
(* Types.                                                                  *)
(***************************************************************************)

\* A call that has been made has a request.
LEMMA CheckingType ==
    ASSUME StoreTypeOK, NEW w \in Writes, writes[w].pc # "idle"
    PROVE  writes[w] \in WriteState
    BY DEF StoreTypeOK, NotStarted

LEMMA RequestType ==
    ASSUME StoreTypeOK, NEW w \in Writes, writes[w].pc # "idle"
    PROVE  /\ RequestOf(w) \in Requests
           /\ RequestOf(w) \in Request
           /\ RequestOf(w).subject \in Subjects
           /\ RequestOf(w).expected \in Nat
           /\ RequestOf(w).refs \subseteq StateRefs
           /\ writes[w].unchecked \subseteq StateRefs
<1>1. writes[w] \in WriteState
    BY CheckingType
<1>2. RequestOf(w) \in Requests /\ writes[w].unchecked \subseteq StateRefs
    BY <1>1 DEF WriteState, RequestOf
<1>3. RequestOf(w) \in Request
    BY <1>2, StateStoreAssumption
<1> QED BY <1>2, <1>3 DEF Request

LEMMA ReturnType ==
    ASSUME StoreTypeOK, NEW w \in Writes, writes[w].pc # "idle",
           NEW outcome \in Outcomes, Return(w, outcome)
    PROVE  /\ writes' \in [Writes -> WriteState \cup {NotStarted}]
           /\ writes'[w] = [writes[w] EXCEPT !.pc = "done", !.outcome = outcome]
           /\ writes'[w].pc = "done" /\ writes'[w].outcome = outcome
           /\ writes'[w].request = writes[w].request
           /\ \A v \in Writes \ {w} : writes'[v] = writes[v]
<1>1. writes[w] \in WriteState
    BY CheckingType
<1> DEFINE after == [writes[w] EXCEPT !.pc = "done", !.outcome = outcome]
<1>2. after \in WriteState /\ after.pc = "done" /\ after.outcome = outcome
      /\ after.request = writes[w].request
    BY <1>1 DEF WriteState
<1>3. writes' = [writes EXCEPT ![w] = after]
    BY DEF Return, StoreTypeOK
<1> HIDE DEF after
<1> QED BY <1>2, <1>3 DEF StoreTypeOK, after

LEMMA RefuseType ==
    ASSUME StoreTypeOK, NEW w \in Writes, Checking(w), Refuse(w)
    PROVE  /\ writes' \in [Writes -> WriteState \cup {NotStarted}]
           /\ writes'[w].pc = "refused" /\ writes'[w].outcome = writes[w].outcome
           /\ \A v \in Writes \ {w} : writes'[v] = writes[v]
<1>1. writes[w] \in WriteState
    BY CheckingType DEF Checking
<1> DEFINE after == [writes[w] EXCEPT !.pc = "refused"]
<1>2. after \in WriteState /\ after.pc = "refused" /\ after.outcome = writes[w].outcome
    BY <1>1 DEF WriteState
<1>3. writes' = [writes EXCEPT ![w] = after]
    BY DEF Refuse, StoreTypeOK
<1> HIDE DEF after
<1> QED BY <1>2, <1>3 DEF StoreTypeOK, after

\* Each action after the checks returns to the caller, or goes on to read the
\* subject again.
LEMMA Endings ==
    ASSUME NEW w \in Writes,
           \/ CommitState(w) \/ ReportConflict(w)
           \/ MeetClosedLedger(w) \/ InterruptWrite(w)
    PROVE  \/ Checking(w) /\ Refuse(w)
           \/ Commits(w)
           \/ Running(w) /\ \E outcome \in Outcomes \ {"written"} : Return(w, outcome)
    BY DEF CommitState, ReportConflict, MeetClosedLedger, InterruptWrite, Commits, Outcomes,
           Checking, Running

\* A commit extends the chain of its subject, whose length it expected, and
\* the change log by one, and leaves everything else as it was.
LEMMA CommitEffect ==
    ASSUME StoreTypeOK, NEW w \in Writes, Commits(w)
    PROVE  LET s == RequestOf(w).subject
               r == RequestOf(w).expected + 1 IN
           /\ s \in Subjects /\ r \in Nat \ {0} /\ Draft(w) \in StateRecord
           /\ Len(revisions[s]) = r - 1
           /\ revisions' \in [Subjects -> Seq(StateRecord)]
           /\ Len(revisions'[s]) = r
           /\ revisions'[s][r] = Draft(w)
           /\ \A i \in 1..Len(revisions[s]) : revisions'[s][i] = revisions[s][i]
           /\ \A t \in Subjects \ {s} : revisions'[t] = revisions[t]
           /\ changes' \in Seq(Subjects \X Nat)
           /\ Len(changes') = Len(changes) + 1
           /\ changes'[Len(changes) + 1] = <<s, r>>
           /\ \A i \in 1..Len(changes) : changes'[i] = changes[i]
<1> DEFINE s == RequestOf(w).subject
           r == RequestOf(w).expected + 1
<1>1. s \in Subjects /\ RequestOf(w).expected \in Nat /\ RequestOf(w).refs \subseteq StateRefs
    BY RequestType DEF Commits, Checking
<1>2. Draft(w) \in StateRecord /\ Draft(w).revision = r
    BY <1>1 DEF Draft, StateRecord
<1>3. Len(revisions[s]) = r - 1
    BY <1>1 DEF Commits, CasStateAccepts, CurrentRevision
<1>4. /\ revisions' = [revisions EXCEPT ![s] = Append(revisions[s], Draft(w))]
      /\ changes' = Append(changes, <<s, r>>)
    BY <1>2 DEF Commits, CompareAndSetState
<1>5. /\ revisions \in [Subjects -> Seq(StateRecord)] /\ revisions[s] \in Seq(StateRecord)
      /\ changes \in Seq(Subjects \X Nat) /\ <<s, r>> \in Subjects \X Nat
    BY <1>1 DEF StoreTypeOK
<1> HIDE DEF s
<1>6. /\ revisions' \in [Subjects -> Seq(StateRecord)]
      /\ revisions'[s] = Append(revisions[s], Draft(w))
      /\ \A t \in Subjects \ {s} : revisions'[t] = revisions[t]
    BY <1>1, <1>2, <1>4, <1>5
<1>7. /\ Len(revisions'[s]) = r
      /\ revisions'[s][r] = Draft(w)
      /\ \A i \in 1..Len(revisions[s]) : revisions'[s][i] = revisions[s][i]
    BY <1>1, <1>2, <1>3, <1>5, <1>6
<1>8. /\ changes' \in Seq(Subjects \X Nat)
      /\ Len(changes') = Len(changes) + 1
      /\ changes'[Len(changes) + 1] = <<s, r>>
      /\ \A i \in 1..Len(changes) : changes'[i] = changes[i]
    BY <1>4, <1>5
<1> QED BY <1>1, <1>2, <1>3, <1>6, <1>7, <1>8 DEF s

-----------------------------------------------------------------------------
(***************************************************************************)
(* The kinds of step.                                                      *)
(***************************************************************************)

\* A step commits for one call, or leaves the chains and the log alone.
LEMMA StoreMoves ==
    ASSUME [StoreNext]_storeVars
    PROVE  (\E w \in Writes : Commits(w)) \/ UNCHANGED durableVars
<1>1. CASE UNCHANGED storeVars
    BY <1>1 DEF storeVars, durableVars
<1>2. ASSUME NEW w \in Writes, WriteStep(w)
      PROVE  Commits(w) \/ UNCHANGED durableVars
  <2>1. CASE CommitState(w)
      BY <2>1 DEF CommitState, Commits, durableVars
  <2> QED BY <1>2, <2>1 DEF WriteStep, StartWrite, CheckRef, ReportConflict, MeetClosedLedger,
                            InterruptWrite, durableVars
<1>3. ASSUME NEW op \in Operations, CreateOperation(op) PROVE UNCHANGED durableVars
    BY <1>3 DEF CreateOperation, durableVars
<1>4. CASE AdvanceLifecycle
    BY <1>4 DEF AdvanceLifecycle, durableVars
<1>5. CASE AllWritten
    BY <1>5 DEF AllWritten, storeVars, durableVars
<1> QED BY <1>1, <1>2, <1>3, <1>4, <1>5 DEF StoreNext, StoreStep

\* Theorem: the types of the store's variables (the state a ledger keeps).
THEOREM StoreTypeCorrect == StoreSpec => []StoreTypeOK
<1>1. StoreInit => StoreTypeOK
    BY DEF StoreInit, StoreTypeOK
<1>2. StoreTypeOK /\ [StoreNext]_storeVars => StoreTypeOK'
  <2> SUFFICES ASSUME StoreTypeOK, [StoreNext]_storeVars PROVE StoreTypeOK'
      OBVIOUS
  <2>1. /\ revisions' \in [Subjects -> Seq(StateRecord)]
        /\ changes' \in Seq(Subjects \X Nat)
    <3>1. CASE UNCHANGED durableVars
        BY <3>1 DEF StoreTypeOK, durableVars
    <3>2. ASSUME NEW w \in Writes, Commits(w) PROVE <2>1!1 /\ <2>1!2
        BY <3>2, CommitEffect
    <3> QED BY <3>1, <3>2, StoreMoves
  <2>2. operations' \subseteq Operations
    <3>1. ASSUME NEW w \in Writes, WriteStep(w) PROVE operations' = operations
        BY <3>1 DEF WriteStep, StartWrite, CheckRef, CommitState, ReportConflict,
                  MeetClosedLedger, InterruptWrite
    <3> QED BY <3>1 DEF StoreNext, StoreStep, CreateOperation, AdvanceLifecycle, AllWritten,
                        storeVars, StoreTypeOK
  <2>3. lifecycle' \in {"accepting", "quiescing", "closed"}
    <3>1. ASSUME NEW w \in Writes, WriteStep(w) PROVE lifecycle' = lifecycle
        BY <3>1 DEF WriteStep, StartWrite, CheckRef, CommitState, ReportConflict,
                  MeetClosedLedger, InterruptWrite
    <3> QED BY <3>1 DEF StoreNext, StoreStep, CreateOperation, AdvanceLifecycle, AllWritten,
                        storeVars, StoreTypeOK
  <2>4. writes' \in [Writes -> WriteState \cup {NotStarted}]
    <3>1. ASSUME NEW w \in Writes, StartWrite(w) PROVE <2>4
      <4>1. PICK request \in Requests :
              writes' = [writes EXCEPT ![w] =
                [request |-> request, unchecked |-> request.refs,
                 pc |-> IF request.bound /\ lifecycle # "accepting" THEN "done" ELSE "checking",
                 outcome |-> IF request.bound /\ lifecycle # "accepting" THEN lifecycle ELSE "none"]]
          BY <3>1 DEF StartWrite
      <4>2. request.refs \subseteq StateRefs
          BY StateStoreAssumption DEF Request
      <4>3. (IF request.bound /\ lifecycle # "accepting" THEN lifecycle ELSE "none") \in Outcomes
          BY DEF Outcomes, StoreTypeOK
      <4>4. [request |-> request, unchecked |-> request.refs,
             pc |-> IF request.bound /\ lifecycle # "accepting" THEN "done" ELSE "checking",
             outcome |-> IF request.bound /\ lifecycle # "accepting" THEN lifecycle ELSE "none"]
                \in WriteState
          BY <4>2, <4>3 DEF WriteState
      <4> QED BY <4>1, <4>4 DEF StoreTypeOK
    <3>2. ASSUME NEW w \in Writes, CheckRef(w) PROVE <2>4
      <4>1. writes[w].pc # "idle" /\ writes[w] \in WriteState
          BY <3>2, CheckingType DEF CheckRef, Checking
      <4>2. CASE Return(w, "ref-not-found")
          BY <4>1, <4>2, ReturnType DEF Outcomes
      <4>3. ASSUME NEW ref, writes' = [writes EXCEPT ![w].unchecked = @ \ {ref}] PROVE <2>4
        <5>1. [writes[w] EXCEPT !.unchecked = @ \ {ref}] \in WriteState
            BY <4>1 DEF WriteState
        <5> QED BY <4>3, <5>1 DEF StoreTypeOK
      <4> QED BY <3>2, <4>2, <4>3 DEF CheckRef
    <3>3. ASSUME NEW w \in Writes, \/ CommitState(w) \/ ReportConflict(w)
                                   \/ MeetClosedLedger(w) \/ InterruptWrite(w)
          PROVE  <2>4
      <4>1. CASE Checking(w) /\ Refuse(w)
          BY <4>1, RefuseType
      <4>2. ASSUME NEW outcome \in Outcomes, Running(w), Return(w, outcome) PROVE <2>4
          BY <4>2, ReturnType DEF Running
      <4>3. CASE Commits(w)
          BY <4>2, <4>3 DEF Commits, Outcomes, Checking, Running
      <4> QED BY <3>3, <4>1, <4>2, <4>3, Endings
    <3>4. ASSUME UNCHANGED writes PROVE <2>4
        BY <3>4 DEF StoreTypeOK
    <3> QED BY <3>1, <3>2, <3>3, <3>4 DEF StoreNext, StoreStep, WriteStep, CreateOperation,
              AdvanceLifecycle, AllWritten, storeVars
  <2> QED BY <2>1, <2>2, <2>3, <2>4 DEF StoreTypeOK
<1> QED BY <1>1, <1>2, PTL DEF StoreSpec

-----------------------------------------------------------------------------
(***************************************************************************)
(* Chains and change log.                                                  *)
(***************************************************************************)

\* A step extends chains and log only at their ends.
LEMMA DurableGrows ==
    ASSUME StoreTypeOK, [StoreNext]_storeVars
    PROVE  /\ Len(changes) \in Nat /\ Len(changes') \in Nat /\ Len(changes') >= Len(changes)
           /\ \A i \in 1..Len(changes) : changes'[i] = changes[i]
           /\ \A s \in Subjects :
                /\ Len(revisions[s]) \in Nat /\ Len(revisions'[s]) \in Nat
                /\ Len(revisions'[s]) >= Len(revisions[s])
                /\ \A r \in 1..Len(revisions[s]) : revisions'[s][r] = revisions[s][r]
<1>1. CASE UNCHANGED durableVars
    BY <1>1 DEF StoreTypeOK, durableVars
<1>2. ASSUME NEW w \in Writes, Commits(w)
      PROVE  /\ Len(changes) \in Nat /\ Len(changes') \in Nat /\ Len(changes') >= Len(changes)
             /\ \A i \in 1..Len(changes) : changes'[i] = changes[i]
             /\ \A s \in Subjects :
                  /\ Len(revisions[s]) \in Nat /\ Len(revisions'[s]) \in Nat
                  /\ Len(revisions'[s]) >= Len(revisions[s])
                  /\ \A r \in 1..Len(revisions[s]) : revisions'[s][r] = revisions[s][r]
  <2> DEFINE t == RequestOf(w).subject
             n == RequestOf(w).expected + 1
  <2>1. /\ t \in Subjects
        /\ n \in Nat /\ Len(revisions[t]) = n - 1 /\ Len(revisions'[t]) = n
        /\ \A i \in 1..Len(revisions[t]) : revisions'[t][i] = revisions[t][i]
        /\ \A s \in Subjects \ {t} : revisions'[s] = revisions[s]
        /\ Len(changes') = Len(changes) + 1
        /\ \A i \in 1..Len(changes) : changes'[i] = changes[i]
      BY <1>2, CommitEffect
  <2> HIDE DEF t, n
  <2>2. Len(changes) \in Nat /\ \A s \in Subjects : Len(revisions[s]) \in Nat
      BY DEF StoreTypeOK
  <2>3. ASSUME NEW s \in Subjects
        PROVE  /\ Len(revisions[s]) \in Nat /\ Len(revisions'[s]) \in Nat
               /\ Len(revisions'[s]) >= Len(revisions[s])
               /\ \A r \in 1..Len(revisions[s]) : revisions'[s][r] = revisions[s][r]
    <3>1. CASE s = t
        BY <2>1, <2>2, <3>1
    <3>2. CASE s # t
        BY <2>1, <2>2, <3>2
    <3> QED BY <3>1, <3>2
  <2> QED BY <2>1, <2>2, <2>3
<1> QED BY <1>1, <1>2, StoreMoves

\* Theorem: every chain is 1, 2, 3, ... (compareAndSetState never skips or
\* repeats a revision).
THEOREM RevisionsStayGapless == StoreSpec => []RevisionsAreGapless
<1>1. StoreInit => RevisionsAreGapless
    BY DEF StoreInit, RevisionsAreGapless
<1>2. RevisionsAreGapless /\ StoreTypeOK /\ [StoreNext]_storeVars => RevisionsAreGapless'
  <2> SUFFICES ASSUME RevisionsAreGapless, StoreTypeOK, [StoreNext]_storeVars,
                      NEW t \in Subjects, NEW i \in 1..Len(revisions'[t])
               PROVE  revisions'[t][i].revision = i
      BY DEF RevisionsAreGapless
  <2>1. CASE UNCHANGED durableVars
      BY <2>1 DEF RevisionsAreGapless, durableVars
  <2>2. ASSUME NEW w \in Writes, Commits(w) PROVE revisions'[t][i].revision = i
    <3> DEFINE s == RequestOf(w).subject
               r == RequestOf(w).expected + 1
    <3>1. Draft(w).revision = r
        BY DEF Draft
    <3>2. /\ s \in Subjects /\ r \in Nat \ {0}
          /\ Len(revisions[s]) = r - 1
          /\ Len(revisions'[s]) = r
          /\ revisions'[s][r] = Draft(w)
          /\ \A j \in 1..Len(revisions[s]) : revisions'[s][j] = revisions[s][j]
          /\ \A u \in Subjects \ {s} : revisions'[u] = revisions[u]
        BY <2>2, CommitEffect
    <3> HIDE DEF s, r
    <3>3. CASE t # s
        BY <3>2, <3>3 DEF RevisionsAreGapless
    <3>4. CASE t = s /\ i = r
        BY <3>1, <3>2, <3>4
    <3>5. CASE t = s /\ i # r
      <4>1. i \in 1..Len(revisions[s])
          BY <3>2, <3>5
      <4>2. revisions[s][i].revision = i
          BY <3>2, <4>1 DEF RevisionsAreGapless
      <4>3. revisions'[s][i] = revisions[s][i]
          BY <3>2, <4>1
      <4> QED BY <3>5, <4>2, <4>3
    <3> QED BY <3>3, <3>4, <3>5
  <2> QED BY <2>1, <2>2, StoreMoves
<1> QED BY <1>1, <1>2, StoreTypeCorrect, PTL DEF StoreSpec

\* The first of the three parts of ChangeLogMatchesRevisions, used alone.
ChangesAreCommitted ==
    \A i \in 1..Len(changes) :
        /\ changes[i][1] \in Subjects
        /\ changes[i][2] \in 1..Len(revisions[changes[i][1]])

\* Theorem: the change log names every committed revision once, in the order
\* of each chain (the log row is written in the transaction of the revision).
THEOREM ChangeLogStaysComplete == StoreSpec => []ChangeLogMatchesRevisions
<1>1. StoreInit => ChangeLogMatchesRevisions
    BY DEF StoreInit, ChangeLogMatchesRevisions, CurrentRevision
<1>2. ChangeLogMatchesRevisions /\ StoreTypeOK /\ [StoreNext]_storeVars
        => ChangeLogMatchesRevisions'
  <2> SUFFICES ASSUME ChangeLogMatchesRevisions, StoreTypeOK, [StoreNext]_storeVars
               PROVE  ChangeLogMatchesRevisions'
      OBVIOUS
  <2>1. CASE UNCHANGED durableVars
      BY <2>1 DEF ChangeLogMatchesRevisions, CurrentRevision, durableVars
  <2>2. ASSUME NEW w \in Writes, Commits(w) PROVE ChangeLogMatchesRevisions'
    <3> DEFINE s == RequestOf(w).subject
               r == RequestOf(w).expected + 1
               n == Len(changes)
    <3>1. /\ s \in Subjects /\ r \in Nat \ {0}
          /\ Len(revisions[s]) = r - 1
          /\ Len(revisions'[s]) = r
          /\ \A t \in Subjects \ {s} : revisions'[t] = revisions[t]
          /\ Len(changes') = n + 1
          /\ changes'[n + 1] = <<s, r>>
          /\ \A i \in 1..n : changes'[i] = changes[i]
        BY <2>2, CommitEffect
    <3>2. n \in Nat
          /\ (\A i \in 1..n : changes[i] \in Subjects \X Nat)
          /\ (\A t \in Subjects : Len(revisions[t]) \in Nat)
        BY DEF StoreTypeOK
    <3>3. /\ \A i \in 1..n : changes[i][2] \in 1..Len(revisions[changes[i][1]])
          /\ \A t \in Subjects : \A q \in 1..Len(revisions[t]) :
                \E i \in 1..n : changes[i] = <<t, q>>
          /\ \A i, j \in 1..n :
                i < j /\ changes[i][1] = changes[j][1] => changes[i][2] < changes[j][2]
        BY DEF ChangeLogMatchesRevisions, CurrentRevision
    <3> HIDE DEF s, r, n
    <3>4. ASSUME NEW i \in 1..(n + 1)
          PROVE  changes'[i][2] \in 1..Len(revisions'[changes'[i][1]])
      <4>1. CASE i = n + 1
          BY <3>1, <4>1
      <4>2. CASE i \in 1..n
        <5>1. changes'[i] = changes[i] /\ changes[i][1] \in Subjects /\ changes[i][2] \in Nat
            BY <3>1, <3>2, <4>2
        <5>2. Len(revisions'[changes[i][1]]) >= Len(revisions[changes[i][1]])
            BY <3>1, <3>2, <5>1
        <5>3. Len(revisions[changes[i][1]]) \in Nat /\ Len(revisions'[changes[i][1]]) \in Nat
            BY <3>1, <3>2, <5>1
        <5> QED BY <3>3, <4>2, <5>1, <5>2, <5>3
      <4> QED BY <3>2, <4>1, <4>2
    <3>5. ASSUME NEW t \in Subjects, NEW q \in 1..Len(revisions'[t])
          PROVE  \E i \in 1..(n + 1) : changes'[i] = <<t, q>>
      <4>1. CASE t = s /\ q = r
          BY <3>1, <3>2, <4>1
      <4>2. CASE ~ (t = s /\ q = r)
        <5>1. q \in 1..Len(revisions[t])
            BY <3>1, <3>2, <4>2
        <5>2. PICK i \in 1..n : changes[i] = <<t, q>>
            BY <3>3, <5>1
        <5>3. i \in 1..(n + 1) /\ changes'[i] = <<t, q>>
            BY <3>1, <3>2, <5>2
        <5> QED BY <5>3
      <4> QED BY <4>1, <4>2
    <3>6. ASSUME NEW i \in 1..(n + 1), NEW j \in 1..(n + 1),
                 i < j, changes'[i][1] = changes'[j][1]
          PROVE  changes'[i][2] < changes'[j][2]
      <4>1. i \in 1..n /\ changes'[i] = changes[i]
          BY <3>1, <3>2, <3>6
      <4>2. CASE j \in 1..n
          BY <3>1, <3>3, <3>6, <4>1, <4>2
      <4>3. CASE j = n + 1
        <5>1. changes[i][1] = s /\ changes'[j][2] = r
            BY <3>1, <3>6, <4>1, <4>3
        <5>2. changes[i][2] \in 1..Len(revisions[s])
            BY <3>3, <4>1, <5>1
        <5>3. changes[i][2] < r
            BY <3>1, <5>2
        <5> QED BY <4>1, <5>1, <5>3
      <4> QED BY <3>2, <4>2, <4>3
    <3> QED BY <3>1, <3>4, <3>5, <3>6 DEF ChangeLogMatchesRevisions, CurrentRevision
  <2> QED BY <2>1, <2>2, StoreMoves
<1> QED BY <1>1, <1>2, StoreTypeCorrect, PTL DEF StoreSpec

LEMMA LogNamesRevisions ==
    ASSUME StoreTypeOK, ChangeLogMatchesRevisions
    PROVE  ChangesAreCommitted
    BY DEF StoreTypeOK, ChangeLogMatchesRevisions, ChangesAreCommitted, CurrentRevision

\* Theorem: committed history never changes, neither a position of the log nor
\* the record it names (the state tables are only ever inserted into).
THEOREM CommittedStaysImmutable == StoreSpec => CommittedIsImmutable
<1>1. StoreTypeOK /\ ChangeLogMatchesRevisions /\ [StoreNext]_storeVars =>
        [/\ Len(changes') >= Len(changes)
         /\ \A i \in 1..Len(changes) :
              /\ changes'[i] = changes[i]
              /\ revisions'[changes[i][1]][changes[i][2]]
                    = revisions[changes[i][1]][changes[i][2]]]_storeVars
    BY DurableGrows, LogNamesRevisions DEF ChangesAreCommitted
<1> QED BY <1>1, StoreTypeCorrect, ChangeLogStaysComplete, PTL
        DEF StoreSpec, CommittedIsImmutable

-----------------------------------------------------------------------------
(***************************************************************************)
(* References: what a call has checked stays true until it commits.        *)
(***************************************************************************)

\* The target of a reference exists, a revision within the first n changes.
Settled(ref, n) ==
    IF ref.kind = "operation" THEN ref.id \in operations
    ELSE \E j \in 1..n : changes[j] = ref.id

CheckedRefsExist ==
    \A w \in Writes : Checking(w) =>
        \A ref \in RequestOf(w).refs \ writes[w].unchecked : Settled(ref, Len(changes))

\* A reference that resolves names a change of the log.
LEMMA ResolvedIsSettled ==
    ASSUME StoreTypeOK, ChangeLogMatchesRevisions, NEW ref \in StateRefs, Resolves(ref)
    PROVE  Settled(ref, Len(changes))
<1>1. CASE ref.kind = "operation"
    BY <1>1 DEF Resolves, Settled
<1>2. CASE ref.kind # "operation"
  <2>1. PICK s \in Subjects, r \in 1..MaxRevision : ref = StateRef(s, r)
      BY <1>2 DEF StateRefs, OperationRef
  <2>2. ref.id = <<s, r>> /\ ref.id[1] = s /\ ref.id[2] = r
      BY <2>1 DEF StateRef
  <2>3. r \in 1..CurrentRevision(s)
      BY <1>2, <2>2, StateStoreAssumption DEF Resolves, CurrentRevision, StoreTypeOK
  <2> QED BY <1>2, <2>2, <2>3 DEF Settled, ChangeLogMatchesRevisions
<1> QED BY <1>1, <1>2

\* Operations and changes do not go away.
LEMMA SettledStays ==
    ASSUME StoreTypeOK, [StoreNext]_storeVars,
           NEW ref, NEW n \in Nat, n <= Len(changes), Settled(ref, n)
    PROVE  Settled(ref, n)'
<1>1. operations \subseteq operations'
  <2>1. ASSUME NEW w \in Writes, WriteStep(w) PROVE operations' = operations
      BY <2>1 DEF WriteStep, StartWrite, CheckRef, CommitState, ReportConflict,
                MeetClosedLedger, InterruptWrite
  <2> QED BY <2>1 DEF StoreNext, StoreStep, CreateOperation, AdvanceLifecycle, AllWritten, storeVars
<1>2. \A j \in 1..n : changes'[j] = changes[j]
    BY DurableGrows
<1> QED BY <1>1, <1>2 DEF Settled

\* How a step leaves a call that is, afterwards, still checking.
LEMMA CheckingMoves ==
    ASSUME StoreTypeOK, [StoreNext]_storeVars, NEW w \in Writes, Checking(w)'
    PROVE  \/ writes'[w] = writes[w]
           \/ writes'[w].unchecked = writes'[w].request.refs
           \/ /\ Checking(w)
              /\ writes'[w].request = writes[w].request
              /\ \E ref \in writes[w].unchecked :
                    Resolves(ref) /\ writes'[w].unchecked = writes[w].unchecked \ {ref}
<1> DEFINE Claimed == \/ writes'[w] = writes[w]
                      \/ writes'[w].unchecked = writes'[w].request.refs
                      \/ /\ Checking(w)
                         /\ writes'[w].request = writes[w].request
                         /\ \E ref \in writes[w].unchecked :
                               Resolves(ref) /\ writes'[w].unchecked = writes[w].unchecked \ {ref}
<1>1. CASE UNCHANGED writes
    BY <1>1
<1>2. ASSUME NEW v \in Writes, StartWrite(v) PROVE Claimed
  <2>1. PICK request \in Requests :
          writes' = [writes EXCEPT ![v] =
            [request |-> request, unchecked |-> request.refs,
             pc |-> IF request.bound /\ lifecycle # "accepting" THEN "done" ELSE "checking",
             outcome |-> IF request.bound /\ lifecycle # "accepting" THEN lifecycle ELSE "none"]]
      BY <1>2 DEF StartWrite
  <2> QED BY <2>1 DEF StoreTypeOK
<1>3. ASSUME NEW v \in Writes, NEW outcome \in Outcomes, Running(v), Return(v, outcome)
      PROVE  Claimed
  <2>1. writes[v].pc # "idle"
      BY <1>3 DEF Running
  <2>2. writes'[v].pc = "done" /\ \A u \in Writes \ {v} : writes'[u] = writes[u]
      BY <1>3, <2>1, ReturnType
  <2> QED BY <2>2 DEF Checking
<1>4. ASSUME NEW v \in Writes, CheckRef(v) PROVE Claimed
  <2>1. PICK ref \in writes[v].unchecked :
            IF Resolves(ref) THEN writes' = [writes EXCEPT ![v].unchecked = @ \ {ref}]
                             ELSE Return(v, "ref-not-found")
      BY <1>4 DEF CheckRef
  <2>2. CASE ~ Resolves(ref)
      BY <1>3, <1>4, <2>1, <2>2 DEF CheckRef, Outcomes, Checking, Running
  <2>3. CASE Resolves(ref)
    <3>1. writes[v] \in WriteState
        BY <1>4, CheckingType DEF CheckRef, Checking
    <3>2. writes' = [writes EXCEPT ![v] = [writes[v] EXCEPT !.unchecked = @ \ {ref}]]
        BY <2>1, <2>3
    <3>3. CASE v = w
        BY <1>4, <2>3, <3>1, <3>2, <3>3 DEF CheckRef, WriteState, StoreTypeOK
    <3>4. CASE v # w
        BY <3>2, <3>4 DEF StoreTypeOK
    <3> QED BY <3>3, <3>4
  <2> QED BY <2>2, <2>3
<1>5. ASSUME NEW v \in Writes, \/ CommitState(v) \/ ReportConflict(v)
                               \/ MeetClosedLedger(v) \/ InterruptWrite(v)
      PROVE  Claimed
  <2>1. CASE Checking(v) /\ Refuse(v)
      BY <2>1, RefuseType DEF Checking
  <2>2. CASE Commits(v)
      BY <1>3, <2>2 DEF Commits, Outcomes, Checking, Running
  <2> QED BY <1>3, <1>5, <2>1, <2>2, Endings
<1>6. UNCHANGED writes \/ \E v \in Writes : WriteStep(v)
    BY DEF StoreNext, StoreStep, CreateOperation, AdvanceLifecycle, AllWritten, storeVars
<1>7. ASSUME NEW v \in Writes, WriteStep(v) PROVE Claimed
    BY <1>2, <1>4, <1>5, <1>7 DEF WriteStep
<1> QED BY <1>1, <1>6, <1>7

\* What a call has checked exists, however long it waits with its commit.
LEMMA CheckedRefsStay == StoreSpec => []CheckedRefsExist
<1>1. StoreInit => CheckedRefsExist
    BY DEF StoreInit, CheckedRefsExist, Checking, NotStarted
<1>2. CheckedRefsExist /\ StoreTypeOK /\ ChangeLogMatchesRevisions /\ StoreTypeOK'
        /\ [StoreNext]_storeVars => CheckedRefsExist'
  <2> SUFFICES ASSUME CheckedRefsExist, StoreTypeOK, ChangeLogMatchesRevisions, StoreTypeOK',
                      [StoreNext]_storeVars,
                      NEW w \in Writes, Checking(w)',
                      NEW ref \in writes'[w].request.refs \ writes'[w].unchecked
               PROVE  Settled(ref, Len(changes))'
      BY DEF CheckedRefsExist, RequestOf
  <2>1. Settled(ref, Len(changes))
    <3>1. CASE writes'[w] = writes[w]
        BY <3>1 DEF CheckedRefsExist, RequestOf, Checking
    <3>2. CASE writes'[w].unchecked = writes'[w].request.refs
        BY <3>2
    <3>3. ASSUME Checking(w), writes'[w].request = writes[w].request,
                 NEW checked \in writes[w].unchecked, Resolves(checked),
                 writes'[w].unchecked = writes[w].unchecked \ {checked}
          PROVE  Settled(ref, Len(changes))
      <4>1. checked \in StateRefs
          BY <3>3, RequestType DEF Checking
      <4>2. CASE ref = checked
          BY <3>3, <4>1, <4>2, ResolvedIsSettled
      <4>3. CASE ref # checked
          BY <3>3, <4>3 DEF CheckedRefsExist, RequestOf
      <4> QED BY <4>2, <4>3
    <3> QED BY <3>1, <3>2, <3>3, CheckingMoves
  <2>2. Len(changes) \in Nat /\ Len(changes') \in Nat /\ Len(changes) <= Len(changes')
      BY DurableGrows
  <2>3. ASSUME NEW n \in Nat, n = Len(changes) PROVE Settled(ref, n)'
      BY <2>1, <2>2, <2>3, SettledStays
  <2> QED BY <2>2, <2>3 DEF Settled
<1> QED BY <1>1, <1>2, StoreTypeCorrect, ChangeLogStaysComplete, PTL DEF StoreSpec

\* Theorem: references are never dangling and never circular (write() checks
\* them before, not inside, the commit).
THEOREM ReferencesAlwaysPointBack == StoreSpec => []ReferencesPointBack
<1> DEFINE Inv == StoreTypeOK /\ ChangeLogMatchesRevisions /\ CheckedRefsExist
<1>1. StoreInit => ReferencesPointBack
    BY DEF StoreInit, ReferencesPointBack
<1>2. ReferencesPointBack /\ Inv /\ [StoreNext]_storeVars => ReferencesPointBack'
  <2> SUFFICES ASSUME ReferencesPointBack, Inv, [StoreNext]_storeVars,
                      NEW i \in 1..Len(changes'),
                      NEW ref \in revisions'[changes'[i][1]][changes'[i][2]].refs
               PROVE  Settled(ref, i - 1)'
      BY DEF ReferencesPointBack, Settled
  <2>1. /\ Len(changes) \in Nat /\ Len(changes') \in Nat /\ Len(changes') >= Len(changes)
        /\ ChangesAreCommitted
      BY DurableGrows, LogNamesRevisions
  <2>2. Settled(ref, i - 1) /\ i - 1 <= Len(changes)
    <3>1. CASE i \in 1..Len(changes)
      <4>1. revisions'[changes'[i][1]][changes'[i][2]] = revisions[changes[i][1]][changes[i][2]]
          BY <2>1, <3>1, DurableGrows DEF ChangesAreCommitted
      <4> QED BY <2>1, <3>1, <4>1 DEF ReferencesPointBack, Settled
    <3>2. CASE i \notin 1..Len(changes)
      <4>1. ~ UNCHANGED durableVars
          BY <3>2 DEF durableVars
      <4>2. PICK w \in Writes : Commits(w)
          BY <4>1, StoreMoves
      <4> DEFINE s == RequestOf(w).subject
                 r == RequestOf(w).expected + 1
      <4>3. /\ revisions'[s][r] = Draft(w)
            /\ Len(changes') = Len(changes) + 1
            /\ changes'[Len(changes) + 1] = <<s, r>>
          BY <4>2, CommitEffect
      <4>4. i = Len(changes) + 1
          BY <2>1, <3>2, <4>3
      <4>5. Draft(w).refs = RequestOf(w).refs /\ changes'[i][1] = s /\ changes'[i][2] = r
          BY <4>3, <4>4 DEF Draft
      <4>6. ref \in RequestOf(w).refs \ writes[w].unchecked
          BY <4>2, <4>3, <4>5 DEF Commits
      <4>7. Settled(ref, Len(changes))
          BY <4>2, <4>6 DEF CheckedRefsExist, Commits
      <4> QED BY <2>1, <4>4, <4>7 DEF Settled
    <3> QED BY <3>1, <3>2
  <2>3. i - 1 \in Nat
      BY <2>1
  <2> QED BY <2>2, <2>3, SettledStays DEF Settled
<1> QED BY <1>1, <1>2, StoreTypeCorrect, ChangeLogStaysComplete, CheckedRefsStay, PTL
        DEF StoreSpec

-----------------------------------------------------------------------------
(***************************************************************************)
(* What a write() tells its caller.                                        *)
(***************************************************************************)

\* A call has no outcome before it returns.
SilentWhileRunning == \A w \in Writes : writes[w].pc # "done" => writes[w].outcome = "none"

LEMMA RunningIsSilent == StoreSpec => []SilentWhileRunning
<1>1. StoreInit => SilentWhileRunning
    BY DEF StoreInit, SilentWhileRunning, NotStarted
<1>2. SilentWhileRunning /\ StoreTypeOK /\ [StoreNext]_storeVars => SilentWhileRunning'
  <2> SUFFICES ASSUME SilentWhileRunning, StoreTypeOK, [StoreNext]_storeVars
               PROVE  SilentWhileRunning'
      OBVIOUS
  <2>1. CASE UNCHANGED writes
      BY <2>1 DEF SilentWhileRunning
  <2>2. ASSUME NEW v \in Writes, StartWrite(v) PROVE SilentWhileRunning'
      BY <2>2 DEF StartWrite, SilentWhileRunning, StoreTypeOK
  <2>3. ASSUME NEW v \in Writes, NEW outcome \in Outcomes, Running(v), Return(v, outcome)
        PROVE  SilentWhileRunning'
    <3>1. writes[v].pc # "idle"
        BY <2>3 DEF Running
    <3>2. writes'[v].pc = "done" /\ \A u \in Writes \ {v} : writes'[u] = writes[u]
        BY <2>3, <3>1, ReturnType
    <3> QED BY <3>2 DEF SilentWhileRunning
  <2>4. ASSUME NEW v \in Writes, CheckRef(v) PROVE SilentWhileRunning'
    <3>1. writes[v] \in WriteState
        BY <2>4, CheckingType DEF CheckRef, Checking
    <3>2. ASSUME NEW ref, writes' = [writes EXCEPT ![v].unchecked = @ \ {ref}]
          PROVE  SilentWhileRunning'
        BY <3>1, <3>2 DEF SilentWhileRunning, StoreTypeOK, WriteState
    <3> QED BY <2>3, <2>4, <3>2 DEF CheckRef, Outcomes, Checking, Running
  <2>5. ASSUME NEW v \in Writes, \/ CommitState(v) \/ ReportConflict(v)
                                 \/ MeetClosedLedger(v) \/ InterruptWrite(v)
        PROVE  SilentWhileRunning'
    <3>1. CASE Checking(v) /\ Refuse(v)
      <4>1. writes[v].outcome = "none"
          BY <3>1 DEF SilentWhileRunning, Checking
      <4>2. writes'[v].outcome = "none" /\ \A u \in Writes \ {v} : writes'[u] = writes[u]
          BY <3>1, <4>1, RefuseType
      <4> QED BY <4>2 DEF SilentWhileRunning
    <3>2. CASE Commits(v)
        BY <2>3, <3>2 DEF Commits, Outcomes, Checking, Running
    <3> QED BY <2>3, <2>5, <3>1, <3>2, Endings
  <2>6. UNCHANGED writes \/ \E v \in Writes : WriteStep(v)
      BY DEF StoreNext, StoreStep, CreateOperation, AdvanceLifecycle, AllWritten, storeVars
  <2>7. ASSUME NEW v \in Writes, WriteStep(v) PROVE SilentWhileRunning'
      BY <2>2, <2>4, <2>5, <2>7 DEF WriteStep
  <2> QED BY <2>1, <2>6, <2>7
<1> QED BY <1>1, <1>2, StoreTypeCorrect, PTL DEF StoreSpec

\* Only a commit makes a call report "written"; a report is final.
Reported(w) == writes[w].outcome = "written"

LEMMA ReportsMove ==
    ASSUME StoreTypeOK, SilentWhileRunning, [StoreNext]_storeVars, NEW w \in Writes
    PROVE  \/ Commits(w)
           \/ /\ Reported(w)' <=> Reported(w)
              /\ Reported(w) => writes'[w] = writes[w]
<1> DEFINE Kept == (Reported(w)' <=> Reported(w)) /\ (Reported(w) => writes'[w] = writes[w])
<1>1. CASE UNCHANGED writes
    BY <1>1 DEF Reported
<1>2. ASSUME NEW v \in Writes, StartWrite(v) PROVE Kept
  <2>1. writes[v].outcome = "none"
      BY <1>2 DEF StartWrite, SilentWhileRunning
  <2>2. PICK request \in Requests :
          writes' = [writes EXCEPT ![v] =
            [request |-> request, unchecked |-> request.refs,
             pc |-> IF request.bound /\ lifecycle # "accepting" THEN "done" ELSE "checking",
             outcome |-> IF request.bound /\ lifecycle # "accepting" THEN lifecycle ELSE "none"]]
      BY <1>2 DEF StartWrite
  <2>3. writes'[v].outcome # "written" /\ \A u \in Writes \ {v} : writes'[u] = writes[u]
      BY <2>2 DEF StoreTypeOK
  <2> QED BY <2>1, <2>3 DEF Reported
<1>3. ASSUME NEW v \in Writes, NEW outcome \in Outcomes \ {"written"},
             Running(v), Return(v, outcome)
      PROVE  Kept
  <2>1. /\ writes'[v].outcome = outcome /\ outcome # "written"
        /\ \A u \in Writes \ {v} : writes'[u] = writes[u]
      BY <1>3, ReturnType DEF Running
  <2>2. writes[v].outcome = "none"
      BY <1>3 DEF Running, SilentWhileRunning
  <2> QED BY <2>1, <2>2 DEF Reported
<1>4. ASSUME NEW v \in Writes, CheckRef(v) PROVE Kept
  <2>1. writes[v] \in WriteState
      BY <1>4, CheckingType DEF CheckRef, Checking
  <2>2. writes[v].outcome = "none"
      BY <1>4 DEF CheckRef, Checking, SilentWhileRunning
  <2>3. ASSUME NEW ref, writes' = [writes EXCEPT ![v].unchecked = @ \ {ref}] PROVE Kept
      BY <2>1, <2>2, <2>3 DEF Reported, StoreTypeOK, WriteState
  <2> QED BY <1>3, <1>4, <2>3 DEF CheckRef, Outcomes, Checking, Running
<1>5. ASSUME NEW v \in Writes, Commits(v) PROVE Commits(w) \/ Kept
  <2>1. \A u \in Writes \ {v} : writes'[u] = writes[u]
      BY <1>5, ReturnType DEF Commits, Checking, Outcomes
  <2> QED BY <1>5, <2>1 DEF Reported
<1>6. ASSUME NEW v \in Writes, Checking(v), Refuse(v) PROVE Kept
  <2>1. writes[v].outcome = "none"
      BY <1>6 DEF Checking, SilentWhileRunning
  <2>2. writes'[v].outcome = "none" /\ \A u \in Writes \ {v} : writes'[u] = writes[u]
      BY <1>6, <2>1, RefuseType
  <2> QED BY <2>1, <2>2 DEF Reported
<1>7. UNCHANGED writes \/ \E v \in Writes : WriteStep(v)
    BY DEF StoreNext, StoreStep, CreateOperation, AdvanceLifecycle, AllWritten, storeVars
<1>8. ASSUME NEW v \in Writes, WriteStep(v) PROVE Commits(w) \/ Kept
    BY <1>2, <1>3, <1>4, <1>5, <1>6, <1>8, Endings DEF WriteStep
<1> QED BY <1>1, <1>7, <1>8

\* Call w wrote revision r of s.
Wrote(w, s, r) == r \in 1..Len(revisions[s]) /\ revisions[s][r].identity = w

\* Theorem: a caller that was told "written" has its record in the chain, and
\* any other caller has none (write() reports what compareAndSetState did).
THEOREM WritersAreAlwaysToldTheTruth == StoreSpec => []WritersAreToldTheTruth
<1> DEFINE Truth == \A w \in Writes :
                      /\ Reported(w) => Wrote(w, RequestOf(w).subject, RequestOf(w).expected + 1)
                      /\ ~ Reported(w) => \A s \in Subjects : \A r \in Nat : ~ Wrote(w, s, r)
           Typed == StoreTypeOK /\ SilentWhileRunning
<1>1. StoreInit => Truth
    BY DEF StoreInit, Reported, NotStarted, Wrote
<1>2. Truth /\ Typed /\ [StoreNext]_storeVars => Truth'
  <2> SUFFICES ASSUME Truth, Typed, [StoreNext]_storeVars, NEW w \in Writes
               PROVE  /\ Reported(w)' => Wrote(w, RequestOf(w).subject, RequestOf(w).expected + 1)'
                      /\ Reported(w)' \/ \A s \in Subjects : \A r \in Nat : ~ Wrote(w, s, r)'
      OBVIOUS
  <2>1. CASE Commits(w)
    <3> DEFINE s == RequestOf(w).subject
               r == RequestOf(w).expected + 1
    <3>1. /\ s \in Subjects /\ r \in Nat \ {0} /\ Len(revisions'[s]) = r
          /\ revisions'[s][r] = Draft(w)
        BY <2>1, CommitEffect
    <3>2. writes'[w].outcome = "written" /\ writes'[w].request = writes[w].request
        BY <2>1, ReturnType DEF Commits, Checking, Outcomes
    <3>3. Draft(w).identity = w
        BY DEF Draft
    <3>4. RequestOf(w)' = RequestOf(w)
        BY <3>2 DEF RequestOf
    <3>5. r \in 1..Len(revisions'[s]) /\ revisions'[s][r].identity = w
        BY <3>1, <3>3
    <3>6. Wrote(w, RequestOf(w).subject, RequestOf(w).expected + 1)'
        BY <3>4, <3>5 DEF Wrote
    <3> QED BY <3>2, <3>6 DEF Reported
  <2>2. CASE ~ Commits(w)
    <3>1. /\ Reported(w)' <=> Reported(w)
          /\ Reported(w) => RequestOf(w)' = RequestOf(w) /\ writes[w].pc # "idle"
        BY <2>2, ReportsMove DEF RequestOf, Reported, SilentWhileRunning
    <3>2. ASSUME NEW s \in Subjects, NEW r \in Nat PROVE Wrote(w, s, r)' <=> Wrote(w, s, r)
      <4>1. CASE UNCHANGED durableVars
          BY <4>1 DEF durableVars, Wrote
      <4>2. ASSUME NEW v \in Writes, Commits(v) PROVE Wrote(w, s, r)' <=> Wrote(w, s, r)
        <5> DEFINE t == RequestOf(v).subject
                   q == RequestOf(v).expected + 1
        <5>1. /\ t \in Subjects /\ q \in Nat \ {0}
              /\ Len(revisions[t]) = q - 1 /\ Len(revisions'[t]) = q
              /\ revisions'[t][q] = Draft(v)
              /\ \A i \in 1..Len(revisions[t]) : revisions'[t][i] = revisions[t][i]
              /\ \A u \in Subjects \ {t} : revisions'[u] = revisions[u]
            BY <4>2, CommitEffect
        <5>2. Draft(v).identity # w
            BY <2>2, <4>2 DEF Draft
        <5> HIDE DEF t, q
        <5>3. CASE s # t
            BY <5>1, <5>3 DEF Wrote
        <5>4. CASE s = t /\ r = q
            BY <5>1, <5>2, <5>4 DEF Wrote
        <5>5. CASE s = t /\ r # q
          <6>1. r \in 1..Len(revisions'[t]) <=> r \in 1..Len(revisions[t])
              BY <5>1, <5>5
          <6>2. r \in 1..Len(revisions[t]) => revisions'[t][r] = revisions[t][r]
              BY <5>1
          <6> QED BY <5>5, <6>1, <6>2 DEF Wrote
        <5> QED BY <5>3, <5>4, <5>5
      <4> QED BY <4>1, <4>2, StoreMoves
    <3>3. CASE Reported(w)
      <4>1. RequestOf(w).subject \in Subjects /\ RequestOf(w).expected + 1 \in Nat
          BY <3>1, <3>3, RequestType
      <4> QED BY <3>1, <3>2, <3>3, <4>1
    <3>4. CASE ~ Reported(w)
        BY <3>1, <3>2, <3>4
    <3> QED BY <3>3, <3>4
  <2> QED BY <2>1, <2>2
<1>3. Truth /\ Typed => WritersAreToldTheTruth
  <2> SUFFICES ASSUME Truth, Typed, NEW w \in Writes
               PROVE  LET Holds(s, r) == r <= CurrentRevision(s) /\ revisions[s][r].identity = w IN
                      /\ writes[w].outcome = "written" =>
                            Holds(RequestOf(w).subject, RequestOf(w).expected + 1)
                      /\ writes[w].outcome # "written" =>
                            \A s \in Subjects : \A r \in 1..CurrentRevision(s) : ~ Holds(s, r)
      BY DEF WritersAreToldTheTruth
  <2>1. Reported(w) => Wrote(w, RequestOf(w).subject, RequestOf(w).expected + 1)
      OBVIOUS
  <2>2. ~ Reported(w) => \A s \in Subjects : \A r \in Nat : ~ Wrote(w, s, r)
      OBVIOUS
  <2>3. \A s \in Subjects : Len(revisions[s]) \in Nat
      BY DEF StoreTypeOK
  <2>4. CASE Reported(w)
    <3>1. RequestOf(w).subject \in Subjects /\ RequestOf(w).expected + 1 \in Nat
        BY <2>4, RequestType DEF Reported, SilentWhileRunning
    <3> QED BY <2>1, <2>3, <2>4, <3>1 DEF Reported, Wrote, CurrentRevision
  <2>5. CASE ~ Reported(w)
      BY <2>2, <2>3, <2>5 DEF Reported, Wrote, CurrentRevision
  <2> QED BY <2>4, <2>5
<1>4. StoreSpec => []Truth
    BY <1>1, <1>2, StoreTypeCorrect, RunningIsSilent, PTL DEF StoreSpec
<1> QED BY <1>3, <1>4, StoreTypeCorrect, RunningIsSilent, PTL
=============================================================================
