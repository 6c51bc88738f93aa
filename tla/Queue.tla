-------------------------------- MODULE Queue --------------------------------
(***************************************************************************)
(* Queues: cmd_queue.h.  An element is a pair under "name~id", the id being  *)
(* the clock when it was added, so elements are found in the order they      *)
(* came.  Popped and expired elements stay in the lists as dead pairs; the   *)
(* control key "name~" says where the search starts, once many dead pairs    *)
(* have been stepped over.                                                   *)
(***************************************************************************)
EXTENDS Integers, FiniteSets, FiniteSetsExt

CONSTANTS
  MaxId,                 \* bound on the clock
  ITERATIONS_IDLE,       \* dead pairs after which the control key is moved
  ITERATIONS_LOOPS_MAX,  \* dead pairs after which SPOP gives up
  MaxMishaps             \* bound on crashes, lost control keys and clocks set back

ASSUME QueueAssumption ==
  {MaxId, ITERATIONS_IDLE, ITERATIONS_LOOPS_MAX, MaxMishaps} \subseteq Nat

VARIABLES
  clock,     \* the clock, in microseconds
  item,      \* the pair under "name~id": none, live or dead
  control,   \* the value of the control key, NoControl if it has none that counts
  pending,   \* the element that a SPOP has answered and not yet erased
  given,     \* how often an element was answered
  torn,      \* elements whose SPOP was cut between its two writes
  behind,    \* the clock went back to before the control key
  mishaps    \* what went wrong so far, to bound it

qvars == <<clock, item, control, pending, given, torn, behind, mishaps>>

Ids       == 1 .. MaxId
NoControl == 0
Nothing   == 0

QueueInit ==
  /\ clock = 1
  /\ item = [i \in Ids |-> "none"]
  /\ control = NoControl /\ pending = Nothing
  /\ given = [i \in Ids |-> 0]
  /\ torn = {} /\ behind = FALSE /\ mishaps = 0

Idle == pending = Nothing

Mishap == mishaps < MaxMishaps /\ mishaps' = mishaps + 1

(* Two additions in one microsecond have the same key: the later one wins.   *)
SADD ==
  /\ Idle /\ clock <= MaxId
  /\ item' = [item EXCEPT ![clock] = "live"]
  /\ given' = [given EXCEPT ![clock] = 0]
  /\ torn' = torn \ {clock}
  /\ behind' = (behind \/ clock < control)
  /\ UNCHANGED <<clock, control, pending, mishaps>>

-----------------------------------------------------------------------------

(* Mutant: the search starts behind the control key.                         *)
SearchFromAfter == {i \in Ids : i > control /\ item[i] # "none"}

(* db->find of the control key and what follows it, or of the next key.      *)
SearchFrom == {i \in Ids : i >= control /\ item[i] # "none"}

Live == {i \in SearchFrom : item[i] = "live"}
FirstLive == Min(Live)

(* The dead pairs collect_ steps over before it comes to i.                  *)
iterations(i) == Cardinality({j \in SearchFrom : j < i})

GivesUp == IF Live = {} THEN TRUE ELSE iterations(FirstLive) > ITERATIONS_LOOPS_MAX

(* finalizeEnd_                                                              *)
finalizeEnd ==
  /\ Idle
  /\ Live = {} /\ Cardinality(SearchFrom) <= ITERATIONS_LOOPS_MAX
  /\ UNCHANGED qvars

(* The pair at which ++iterations passes the limit.                          *)
LastSeen == CHOOSE i \in SearchFrom : iterations(i) = ITERATIONS_LOOPS_MAX

(* Mutant: the control key is not written when the search is given up.       *)
finalizeTryAgainForgets ==
  /\ Idle
  /\ GivesUp /\ Cardinality(SearchFrom) > ITERATIONS_LOOPS_MAX
  /\ UNCHANGED qvars

(* finalizeTryAgain_                                                         *)
finalizeTryAgain ==
  /\ Idle
  /\ GivesUp /\ Cardinality(SearchFrom) > ITERATIONS_LOOPS_MAX
  /\ control' = LastSeen
  /\ UNCHANGED <<clock, item, pending, given, torn, behind, mishaps>>

Erased(i) == item' = [item EXCEPT ![i] = "dead"]

(* finalizeOK_, with nothing or with the control key written first.          *)
finalizeOK ==
  /\ Idle
  /\ ~ GivesUp
  /\ given' = [given EXCEPT ![FirstLive] = @ + 1]
  /\ IF iterations(FirstLive) > ITERATIONS_IDLE
     THEN /\ control' = FirstLive /\ pending' = FirstLive
          /\ UNCHANGED item
     ELSE /\ Erased(FirstLive)
          /\ UNCHANGED <<control, pending>>
  /\ UNCHANGED <<clock, torn, behind, mishaps>>

(* ... and then the element is erased.                                       *)
EraseAfterControl ==
  /\ ~ Idle
  /\ Erased(pending)
  /\ pending' = Nothing
  /\ UNCHANGED <<clock, control, given, torn, behind, mishaps>>

(* The process dies after the first write; or that write flushed, and the    *)
(* name of the element is a view into a list that was cleared or a table     *)
(* that is gone: what it reads there, some other key, is erased.             *)
CutAfterControl ==
  /\ ~ Idle /\ Mishap
  /\ \/ UNCHANGED item
     \/ \E other \in Ids \ {pending} : Erased(other)
  /\ pending' = Nothing
  /\ torn' = torn \cup {pending}
  /\ UNCHANGED <<clock, control, given, behind>>

SPOP ==
  finalizeEnd \/ finalizeTryAgain \/ finalizeOK \/ EraseAfterControl

-----------------------------------------------------------------------------

Tick ==
  /\ Idle /\ clock < MaxId
  /\ clock' = clock + 1
  /\ UNCHANGED <<item, control, pending, given, torn, behind, mishaps>>

(* The clock of the computer is set back.                                    *)
SetBack ==
  /\ Idle /\ clock > 1 /\ Mishap
  /\ clock' = clock - 1
  /\ UNCHANGED <<item, control, pending, given, torn, behind>>

(* An element expires.                                                       *)
ItemExpires(i) ==
  /\ Idle /\ item[i] = "live"
  /\ Erased(i)
  /\ UNCHANGED <<clock, control, pending, given, torn, behind, mishaps>>

(* A dead pair leaves the lists in a compaction.                             *)
ItemCompacted(i) ==
  /\ Idle /\ item[i] = "dead"
  /\ item' = [item EXCEPT ![i] = "none"]
  /\ UNCHANGED <<clock, control, pending, given, torn, behind, mishaps>>

(* The control key is erased, or given a value SPOP does not take.           *)
ControlLost ==
  /\ Idle /\ control # NoControl /\ Mishap
  /\ control' = NoControl
  /\ UNCHANGED <<clock, item, pending, given, torn, behind>>

QueueNext ==
  \/ SADD \/ SPOP \/ CutAfterControl
  \/ Tick \/ SetBack \/ ControlLost
  \/ \E i \in Ids : ItemExpires(i) \/ ItemCompacted(i)
==============================================================================
