---------------------------- MODULE MC_RegAlloc ----------------------------
(***************************************************************************)
(* RegAlloc on every list of live intervals that a straight line of         *)
(* instructions up to index LastIndex can produce.                         *)
(***************************************************************************)
EXTENDS RegAlloc

CONSTANT LastIndex

(* Value i is defined by instruction i - 1 and last used at any later       *)
(* index; it crosses a call when one of `calls` is strictly inside.         *)
MCInterval(i) == [start : {i - 1}, end : i - 1 .. LastIndex, crosses_call : BOOLEAN]
MCCallsAt(list, calls) ==
    \A i \in DOMAIN list :
        list[i].crosses_call <=> \E c \in calls : list[i].start < c /\ c < list[i].end

MCFour == MCInterval(1) \X MCInterval(2) \X MCInterval(3) \X MCInterval(4)
MCFive == MCInterval(1) \X MCInterval(2) \X MCInterval(3) \X MCInterval(4) \X MCInterval(5)

(* Five values, at most one instruction being a call. *)
MCOneCall ==
    {l \in MCFive : MCCallsAt(l, {}) \/ \E c \in 1 .. LastIndex - 1 : MCCallsAt(l, {c})}
(* Four values, no calls. *)
MCNoCalls == {l \in MCFour : MCCallsAt(l, {})}

MCOneCaller == <<0>>
MCOneCallee == <<1>>
MCNone == << >>
=============================================================================
