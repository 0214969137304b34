------------------------- MODULE MCKdenliveControl -------------------------
(* KdenliveControl for TLC, in two parts that differ in what the users do:   *)
(* "turns" has two bindings and a navigation, and nobody seeks; "limit" has  *)
(* one binding, the trim, whose steps are counted, or the nudge, which is of *)
(* a frame, a jog and seeks; its navigation knob is only turned under the    *)
(* first epoch, its jog in no second epoch that also sought.                 *)
EXTENDS KdenliveControl

CONSTANTS nudge, trim, track, jog

VARIABLE part

Untouched(ks) == \A k \in ks : client.slots[k] = NoSlot
Within ==
  /\ part = "turns" => Untouched(Jogs) /\ host.pos = 0
  /\ part = "limit" =>
       /\ host.epoch = 1 \/ Untouched(Navs)
       /\ host.epoch = 1 \/ host.pos = 0 \/ Untouched(Jogs)
       /\ \A g, f \in 1..Len(client.gestures) : client.gestures[g].binding = client.gestures[f].binding

(* No step of a fair action leaves a part: none gives a key its first slot.  *)
ControlSpec ==
  /\ part \in {"turns", "limit"} /\ Init
  /\ [][Next /\ UNCHANGED part /\ Within']_<<vars, part>>
  /\ \A k \in Keys : WF_vars(Elapse(k)) /\ WF_vars(FlushTimer(k))
=============================================================================
