----------------------------- MODULE StorageSpec ----------------------------
(***************************************************************************)
(* What the storage service promises its client: a log of operations to    *)
(* which each operation is added at most once, and answers a caller may    *)
(* rely on.  "durable" is only said of an operation in the log.            *)
(* "conflict" does not say that the operation was not added.  It says that *)
(* it is not added from now on, and that it is not the last in the log: it *)
(* was refused, or it was added and overtaken before the service could     *)
(* prove it readable.  Every other answer ("unknown") leaves all possible, *)
(* and the operation may still be added after the answer.                  *)
(***************************************************************************)
EXTENDS Sequences, SequencesExt

CONSTANT Operations

VARIABLES log, answer

vars == <<log, answer>>

Init ==
    /\ log = <<>>
    /\ answer = [o \in Operations |-> "none"]

Apply(o) ==
    /\ o \notin ToSet(log)
    /\ answer[o] # "conflict"
    /\ log' = Append(log, o)
    /\ UNCHANGED answer

Reply(o, a) ==
    /\ answer[o] = "none"
    /\ a = "durable" => o \in ToSet(log)
    /\ a = "conflict" => o \notin ToSet(log) \/ Last(log) # o
    /\ answer' = [answer EXCEPT ![o] = a]
    /\ UNCHANGED log

Next ==
    \E o \in Operations :
        \/ Apply(o)
        \/ \E a \in {"durable", "conflict", "unknown"} : Reply(o, a)

Spec == Init /\ [][Next]_vars
=============================================================================
