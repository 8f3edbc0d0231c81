---------------------------- MODULE RegisterList ----------------------------
(***************************************************************************)
(* The list of a meter's registers, meter.current_meter, and the walks     *)
(* that meter_generic_tick and meter_eastron_tick make over it: one over   *)
(* the fast registers, one over the others.  Positions count from 1.       *)
(***************************************************************************)
EXTENDS Integers, Sequences, FiniteSetsExt

CONSTANT FastRead   \* definition[i].fast_read of the meter's register list

\* Every list of the meters (meter_*_def.inc) begins with a register that is
\* not fast, and a walk ends, which the do-while loops take for granted.
ASSUME ListAssumption ==
  /\ FastRead \in Seq(BOOLEAN)
  /\ \E i \in DOMAIN FastRead : FastRead[i]
  /\ 1 \in DOMAIN FastRead /\ ~FastRead[1]

\* The registers that a walk over the list stops at.
Wanted(fast) == {i \in DOMAIN FastRead : FastRead[i] = fast}

\* Bug: the walk does not stop at the end marker.
NextPosNoEnd(pos, fast) == pos + 1

\* The do-while loops over the list: the next register of the wanted kind.
NextPos(pos, fast) ==
  LET later == {i \in Wanted(fast) : i > pos}
  IN Min(IF later # {} THEN later ELSE Wanted(fast))

\* Did that walk pass the end marker?
Wraps(pos, fast) == NextPos(pos, fast) <= pos
=============================================================================
