----------------------------- MODULE ValueStore -----------------------------
(***************************************************************************)
(* One key whose value is a data structure that commands update in place:   *)
(* pair_vfactory.h, getPairPtrWithSize of ilist.h and updateinplace.h.       *)
(*                                                                         *)
(* A value is a sequence of cells.  The size the parameters of a command     *)
(* call for decides whether the stored value is used: a value of any other   *)
(* size is taken for absent and replaced by an empty one.                    *)
(***************************************************************************)
EXTENDS Integers, Sequences, SequencesExt

VARIABLES
  kind,      \* the commands that are used on the key
  val,       \* its live value, <<>> if there is none
  mem,       \* the newest pair is in the memory list
  truth,     \* what the clients have put in since the value was empty: counts
  log,       \* ... or a sequence
  clipped,   \* some cell could not hold its count
  answer     \* the answer to the last command

vars == <<kind, val, mem, truth, log, clipped, answer>>

None     == [is |-> "none"]
Reserved == [is |-> "reserved"]

ClearTruth == [k \in DOMAIN truth |-> 0]

zeros(n, z) == [i \in 1 .. n |-> z]

(* getPairPtrWithSize: the pair is OK and its value has just this size.      *)
Found(n) == val # <<>> /\ Len(val) = n

(* What IFactoryAction::copyPair_ gives the action to work on.               *)
copyPair(n, z) == IF Found(n) THEN val ELSE zeros(n, z)

TruthOf(n) == IF Found(n) THEN truth ELSE ClearTruth
LogOf(n)   == IF Found(n) THEN log ELSE <<>>
ClipOf(n)  == IF Found(n) THEN clipped ELSE FALSE

(* insertHintVFactory                                                        *)
insertHintVFactory(new) == val' = new /\ mem' = TRUE /\ UNCHANGED kind

(* PairFactory::Reserve inserted without a hint.  The list finds the pair it *)
(* has and lets createHint rewrite it: a live pair of the same size keeps    *)
(* its bytes.  A pair on disk is not seen, the new one is empty.             *)
Reserve(n, z) ==
  LET keeps == mem /\ Found(n)
  IN  /\ val' = IF keeps THEN val ELSE zeros(n, z)
      /\ truth' = IF keeps THEN truth ELSE ClearTruth
      /\ log' = IF keeps THEN log ELSE <<>>
      /\ clipped' = (keeps /\ clipped)
      /\ mem' = TRUE
      /\ answer' = Reserved
      /\ UNCHANGED kind

Rejects == answer' = None /\ UNCHANGED <<kind, val, mem, truth, log, clipped>>

(* The memory list is written to a disk table and cleared.                   *)
Flush ==
  /\ mem
  /\ mem' = FALSE
  /\ answer' = None
  /\ UNCHANGED <<kind, val, truth, log, clipped>>

(* The pair expires or is erased.                                            *)
Vanish ==
  /\ val # <<>>
  /\ val' = <<>> /\ truth' = ClearTruth /\ log' = <<>> /\ clipped' = FALSE
  /\ answer' = None
  /\ mem' \in BOOLEAN
  /\ UNCHANGED kind
=============================================================================
