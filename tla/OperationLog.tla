---------------------------- MODULE OperationLog ----------------------------
(***************************************************************************)
(* What the session protocol promises to the clients of a container: the   *)
(* published database is a log of executed operations that only grows, an  *)
(* operation is executed in it at most once while the server remembers its *)
(* session, and an operation is reported as complete only when it is there.*)
(***************************************************************************)
CONSTANT Ops        \* operation IDs of the protocol

VARIABLES log,      \* published executions: operation ID and number
          done,     \* operations a client was told are complete
          lapsed    \* operations whose session the server has forgotten

vars == <<log, done, lapsed>>

OpOf(e) == e[1]
Logged(o) == \E e \in log : OpOf(e) = o

Init == log = {} /\ done = {} /\ lapsed = {}

(* One atomic publication: a session's new executions together, none of an *)
(* operation that the log contains, and no operation twice.                *)
Publish ==
    /\ log \subseteq log'
    /\ \A e \in log' \ log :
          OpOf(e) \in Ops \ lapsed =>
              /\ ~Logged(OpOf(e))
              /\ \A f \in log' \ log : OpOf(f) = OpOf(e) => f = e
    /\ UNCHANGED <<done, lapsed>>

Complete(o) ==
    /\ Logged(o) \/ o \in lapsed
    /\ done' = done \cup {o}
    /\ UNCHANGED <<log, lapsed>>

Forget ==
    /\ lapsed \subseteq lapsed' /\ lapsed' \subseteq Ops
    /\ UNCHANGED <<log, done>>

Next == Publish \/ Forget \/ \E o \in Ops : Complete(o)

Spec == Init /\ [][Next]_vars

=============================================================================
