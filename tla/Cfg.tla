-------------------------------- MODULE Cfg --------------------------------
(***************************************************************************)
(* The control flow graph of one function (src/src/ir/block.rs,            *)
(* src/src/ir/instr.rs) as far as register liveness is concerned, and what *)
(* liveness means on it.                                                   *)
(***************************************************************************)
EXTENDS Integers, Sequences

(***************************************************************************)
(* A function is a sequence of blocks.  Virtual registers are 1, 2, ...;   *)
(* `def` is 0 for an instruction that has no result.  A terminator reads   *)
(* `uses` (its condition, and the arguments it hands its successors).      *)
(***************************************************************************)
Read(block, k) == block.instrs[k].uses
Wrote(block, k) == block.instrs[k].def
Positions(block) == DOMAIN block.instrs

(* A parameter is written at the top of its block. *)
Written(block) == block.params \cup ({Wrote(block, k) : k \in Positions(block)} \ {0})

(* Registers read in the block before anything in it has written them. *)
UpwardExposed(block) ==
    (block.uses \ Written(block)) \cup
    UNION {{v \in Read(block, k) : /\ v \notin block.params
                                   /\ \A j \in 1 .. k - 1 : Wrote(block, j) # v} :
              k \in Positions(block)}

(* A function is a list of blocks, which jump to one another. *)
IsGraph(f) ==
    /\ Len(f) \in Nat
    /\ DOMAIN f = 1 .. Len(f)
    /\ \A c \in DOMAIN f : f[c].succ \subseteq DOMAIN f

VRegs(f) == UNION {Written(f[c]) \cup UpwardExposed(f[c]) : c \in DOMAIN f}

-----------------------------------------------------------------------------
(* What liveness means: some way through the function reads v before it is  *)
(* written again.  A path that visits a block twice can be cut short, so     *)
(* those that do not are enough.                                            *)
IsPath(f, p, n) ==
    /\ \A k \in 1 .. n - 1 : p[k + 1] \in f[p[k]].succ
    /\ \A j, k \in 1 .. n : p[j] = p[k] => j = k
Paths(f) == UNION {{p \in [1 .. n -> DOMAIN f] : IsPath(f, p, n)} : n \in 1 .. Len(f)}
ReadsFirst(f, p, v) ==
    /\ v \in UpwardExposed(f[p[Len(p)]])
    /\ \A k \in 1 .. Len(p) - 1 : v \notin Written(f[p[k]])
LiveIn(f) ==
    LET paths == Paths(f)
    IN  [c \in DOMAIN f |->
            {v \in VRegs(f) : \E p \in paths : p[1] = c /\ ReadsFirst(f, p, v)}]
LiveOut(f) ==
    LET in == LiveIn(f) IN [c \in DOMAIN f |-> UNION {in[s] : s \in f[c].succ}]
=============================================================================
