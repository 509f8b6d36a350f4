------------------------- MODULE MCRuntimeLifecycle -------------------------
(* Small instances of RuntimeLifecycle: runtime r1 is disposed of while a    *)
(* call of its own is under way, beside a call of its own or of r2.          *)
EXTENDS MCOperationRuntime, RuntimeLifecycle

CONSTANTS d1, d2

OneRuntime == [d \in Disposals |-> r1]

Disposed(op, other) ==
    [c \in Calls |-> IF c = c1 THEN Call(op, r1, "normal", "allow", Nobody, FALSE) ELSE other]

\* The other call may take the operation over in another runtime, or recover
\* it in the same one, where nothing drains it.
DisposedWorkloads ==
    {Disposed(guarded, Call(guarded, r2, "normal", "allow", Nobody, FALSE)),
     Disposed(queryable, Call(queryable, r1, "reconcile-only", "none", Nobody, FALSE))}
=============================================================================
