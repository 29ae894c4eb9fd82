----------------------------- MODULE TriggerRuntime -----------------------------
(***************************************************************************)
(* The deterministic evaluation of a registered trigger: its predicate is  *)
(* instant >= threshold, and one of four policies decides whether the      *)
(* evaluation fires an activation.  Translated from internal/csf/trigger.  *)
(***************************************************************************)
EXTENDS Integers

Policy == {"rising", "falling", "once", "repeat"}

\* initial is FireOnInitialTrue; every is the cadence, 0 unless repeating.
TriggerDefinition ==
    {d \in [policy : Policy, threshold : Int, initial : BOOLEAN, every : Nat] :
        (d.policy = "repeat") = (d.every > 0)}

Runtime ==
    [armed : BOOLEAN, hasLast : BOOLEAN, last : BOOLEAN, count : Nat,
     exhausted : BOOLEAN, hasNext : BOOLEAN, next : Int, through : Nat]

\* The runtime handed to the first evaluation.
Unevaluated ==
    [armed |-> TRUE, hasLast |-> FALSE, last |-> FALSE, count |-> 0,
     exhausted |-> FALSE, hasNext |-> FALSE, next |-> 0, through |-> 0]

Predicate(d, now) == now >= d.threshold

\* revision <= EvaluatedThrough is refused once there is a last value.
Evaluable(r, revision) == ~r.hasLast \/ revision > r.through

Fires(d, r, now) ==
    \/ /\ d.policy = "rising"
       /\ Predicate(d, now)
       /\ IF r.hasLast THEN ~r.last ELSE d.initial
    \/ /\ d.policy = "falling"
       /\ r.hasLast /\ r.last /\ ~Predicate(d, now)
    \/ /\ d.policy = "once"
       /\ Predicate(d, now) /\ ~r.exhausted
    \/ /\ d.policy = "repeat"
       /\ Predicate(d, now)
       /\ ~r.hasLast \/ ~r.last \/ ~r.hasNext \/ now >= r.next

ArmedAfter(d, r, now) ==
    CASE d.policy = "rising"  -> ~Predicate(d, now)
      [] d.policy = "falling" -> Predicate(d, now)
      [] d.policy = "once"    -> ~(r.exhausted \/ Fires(d, r, now))
      [] OTHER                -> r.armed \/ ~Predicate(d, now)

Beats(d, r, now) == d.policy = "repeat" /\ Fires(d, r, now)

Evaluate(d, r, now, revision) ==
    [armed     |-> ArmedAfter(d, r, now),
     hasLast   |-> TRUE,
     last      |-> Predicate(d, now),
     count     |-> IF Fires(d, r, now) THEN r.count + 1 ELSE r.count,
     exhausted |-> r.exhausted \/ (d.policy = "once" /\ Fires(d, r, now)),
     hasNext   |-> \/ Beats(d, r, now)
                   \/ r.hasNext /\ (d.policy = "repeat" => Predicate(d, now)),
     next      |-> IF Beats(d, r, now) THEN now + d.every ELSE r.next,
     through   |-> revision]

\* A cadence that takes part in the choice of the next cycle.
CadencePending(r) == r.hasNext /\ r.last

================================================================================
