--------------------------- MODULE MC_LinearScan ---------------------------
(***************************************************************************)
(* LinearScan on every list of live intervals that a straight line of       *)
(* instructions up to index LastIndex can produce.                         *)
(***************************************************************************)
EXTENDS LinearScan

CONSTANT LastIndex

(* Value i is defined by instruction i - 1 and last used at any later       *)
(* index; it crosses a call when one of `calls` is strictly inside.         *)
MCInterval(i) == [start : {i - 1}, end : i - 1 .. LastIndex, crosses_call : BOOLEAN]
MCCallsAt(list, calls) ==
    \A i \in DOMAIN list :
        list[i].crosses_call <=> \E c \in calls : list[i].start < c /\ c < list[i].end

MCFour == MCInterval(1) \X MCInterval(2) \X MCInterval(3) \X MCInterval(4)

(* Four values, any instructions being calls. *)
MCAnyCalls == {l \in MCFour : \E calls \in SUBSET (1 .. LastIndex - 1) : MCCallsAt(l, calls)}
=============================================================================
