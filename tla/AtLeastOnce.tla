---------------------------- MODULE AtLeastOnce ----------------------------
(***************************************************************************)
(* What a sidecar that acts and then leaves a marker can promise: a step   *)
(* with an effect outside the container (coins sent, a channel opened) is  *)
(* marked only once its effect is there, takes effect at most once per     *)
(* attempt, and never again after it is marked.  An attempt that is        *)
(* interrupted between the effect and the marker is made again, and so is  *)
(* one whose effect was taken for an error.                                *)
(* Provisioning.tla implements this specification.                         *)
(***************************************************************************)
EXTENDS Integers

CONSTANT Steps       \* the steps that have an effect

VARIABLES effects,   \* effects[s]: how often step s has taken effect
          marked,    \* the steps whose marker is there
          ready,     \* the steps the attempt at hand may still take
          faults     \* the interruptions and mistaken errors so far

vars == <<effects, marked, ready, faults>>

Init ==
  /\ effects = [s \in Steps |-> 0]
  /\ marked = {}
  /\ ready = Steps
  /\ faults = 0

Perform(s) ==
  /\ s \in ready
  /\ effects' = [effects EXCEPT ![s] = @ + 1]
  /\ ready' = ready \ {s}
  /\ UNCHANGED <<marked, faults>>

PerformUnheard(s) ==
  /\ s \in ready
  /\ effects' = [effects EXCEPT ![s] = @ + 1]
  /\ faults' = faults + 1
  /\ UNCHANGED <<marked, ready>>

Mark(s) ==
  /\ s \in Steps \ (ready \cup marked)
  /\ marked' = marked \cup {s}
  /\ UNCHANGED <<effects, ready, faults>>

Interrupt(lost) ==
  /\ ready' = ready \cup (lost \ marked)
  /\ faults' = faults + 1
  /\ UNCHANGED <<effects, marked>>

Next ==
  \/ \E s \in Steps : Perform(s) \/ PerformUnheard(s) \/ Mark(s)
  \/ \E lost \in SUBSET Steps : Interrupt(lost)

Spec == Init /\ [][Next]_vars
=============================================================================
