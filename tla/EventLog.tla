------------------------------ MODULE EventLog ------------------------------
(***************************************************************************)
(* What the outbox promises each of its readers: a log of the committed    *)
(* events, served in the order of their sequence within a stream, with two *)
(* exceptions a reader has to live with: an event that committed after a   *)
(* later one, and one that was refused and is tried again.  Serving it     *)
(* again changes nothing.  What a reader leaves behind it will not read    *)
(* again.  It may know that by row, and then everything behind was served; *)
(* or by position, and then a late event may be behind without having been *)
(* served.  Batches, workers, transactions and crashes are the readers'.   *)
(***************************************************************************)
EXTENDS Naturals

CONSTANTS
  Events,
  Wanted,       \* the events the reader has something to do for
  StreamOf,     \* what must be served in order: everything, or each tenant's
  ByPosition    \* whether what is behind is known by a position in the log

VARIABLES
  committed,
  late,         \* events that committed after one of a higher sequence
  refused,
  served,
  behind        \* what will not be read again

vars == <<committed, late, refused, served, behind>>

Init ==
  /\ committed = {} /\ late = {} /\ refused = {} /\ served = {} /\ behind = {}

Commit(e) ==
  /\ e \notin committed
  /\ committed' = committed \union {e}
  /\ late' = IF \E f \in committed : f > e THEN late \union {e} ELSE late
  /\ UNCHANGED <<refused, served, behind>>

Refuse(e) ==
  /\ e \in committed
  /\ refused' = refused \union {e}
  /\ UNCHANGED <<committed, late, served, behind>>

\* One or more events of one stream, after all of that stream that come before.
Serve(S) ==
  /\ S \subseteq committed \intersect Wanted
  /\ \A e, f \in S : StreamOf[e] = StreamOf[f]
  /\ \A e \in S, f \in committed \intersect Wanted :
       f < e /\ StreamOf[f] = StreamOf[e] => f \in served \union S \union late \union refused
  /\ served' = served \union S
  /\ UNCHANGED <<committed, late, refused, behind>>

LeaveRows(S) ==
  /\ ~ByPosition
  /\ S \subseteq served
  /\ behind' = behind \union S
  /\ UNCHANGED <<committed, late, refused, served>>

\* Backwards as well, when an older reader is the last to say where it is.
LeaveUpTo(n) ==
  /\ ByPosition
  /\ n \in committed
  /\ behind' = {e \in Events : e <= n}
  /\ (behind' \intersect committed \intersect Wanted) \ late \subseteq served
  /\ UNCHANGED <<committed, late, refused, served>>

Next ==
  \/ \E e \in Events : Commit(e) \/ Refuse(e) \/ LeaveUpTo(e)
  \/ \E S \in SUBSET Events : Serve(S) \/ LeaveRows(S)

Spec == Init /\ [][Next]_vars

(***************************************************************************)
(* Within a stream a reader has served everything before what it has       *)
(* served, late and refused events excepted.                               *)
(***************************************************************************)
InOrder ==
  \A e \in served, f \in committed \intersect Wanted :
    f < e /\ StreamOf[f] = StreamOf[e] => f \in served \union late \union refused
=============================================================================
