------------------------------- MODULE FileStore -------------------------------
(***************************************************************************)
(* What Balsamo may expect of the SD card: a log that lines are appended   *)
(* to, and a configuration that is replaced as a whole.  stored is what    *)
(* the card holds and a power cut leaves; cached is what the running       *)
(* program reads.  An operation that succeeds is on the card when it       *)
(* returns.  One that fails may leave its effect, or the beginning of it,  *)
(* in the cache, from where it may reach the card at any later time.       *)
(***************************************************************************)
EXTENDS Sequences, SequencesExt

CONSTANTS
  Lines,   \* what may be appended to the log
  Books    \* what the configuration may be replaced by

VARIABLES stored, cached, done

vars == <<stored, cached, done>>

Init == cached = stored /\ done = FALSE

\* The log on the card goes on towards the one in the cache.
LogReaches == IsPrefix(stored.log, stored'.log) /\ IsPrefix(stored'.log, cached'.log)

Log ==
  \E line \in Lines : \E p \in Prefixes(line) :
    /\ cached' = [cached EXCEPT !.log = @ \o p]
    /\ LogReaches
    /\ stored'.cfg \in {stored.cfg, cached.cfg}
    /\ done' => p = line /\ stored'.log = cached'.log

\* A save cuts the configuration to nothing before it writes the new one.
Save ==
  \E new \in Books : \E c \in {cached.cfg} \cup Prefixes(new) :
    /\ cached' = [cached EXCEPT !.cfg = c]
    /\ LogReaches
    /\ stored'.cfg \in {stored.cfg, cached.cfg, <<>>, c}
    /\ done' => c = new /\ stored'.cfg = new

\* Anything else only writes back.
WriteBack ==
  /\ cached' = cached
  /\ LogReaches
  /\ stored'.cfg \in {stored.cfg, cached.cfg}
  /\ done' = FALSE

Cut == cached' = stored /\ stored' = stored /\ done' = FALSE

Next == Log \/ Save \/ WriteBack \/ Cut

Spec == Init /\ [][Next]_vars

================================================================================
