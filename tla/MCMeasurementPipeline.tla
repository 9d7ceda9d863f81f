----------------------- MODULE MCMeasurementPipeline -----------------------
(* Instances of MeasurementPipeline for TLC.                               *)
EXTENDS MeasurementPipeline, TLC

MCBases == {1, 2}

(* An honest confirmation, one with other content under the same key, and  *)
(* one under another key.                                                  *)
Honest == [key |-> "k1", tenant |-> "t", experiment |-> "x", hash |-> "x", matches |-> TRUE,
           aware |-> TRUE, artifact |-> TRUE, target |-> TRUE, trusted |-> TRUE, at |-> 0]
MCClaim == [first |-> Honest, altered |-> [Honest EXCEPT !.at = 1],
            second |-> [Honest EXCEPT !.key = "k2", !.trusted = FALSE],
            third |-> [Honest EXCEPT !.key = "k2"]]
MCRegistration == [x |-> [tenant |-> "t", created |-> 0, approved |-> 0]]

(* Cells of two repeats; a lifted signal gains only in its treatment arm.  *)
Repeat(n, day, v) == [id |-> n, at |-> day, value |-> v, finite |-> TRUE]
Cell(day, v) == <<Repeat(1, day, v), Repeat(2, day, v)>>
Series(l, b, day, v) ==
  [layer |-> l, basis |-> b,
   cells |-> [baseline_treatment |-> Cell(0, 1), post_treatment |-> Cell(day, v),
              baseline_control |-> Cell(0, 1), post_control |-> Cell(day, 2)]]

(* Layer 1 rests on both bases and layer 2 on the first: two independent   *)
(* layers, but only when layer 1 gives up the basis it got first.          *)
Crossed == <<Series(1, 1, 2, 4), Series(1, 2, 2, 3), Series(2, 1, 2, 3)>>
(* Two layers share the only basis they gained on: in the other basis the  *)
(* control gained as much.  Then repeats after the end of the window, and  *)
(* one repeat sent twice.                                                  *)
Shared == <<Series(1, 1, 2, 4), Series(2, 1, 2, 3), Series(2, 2, 2, 2)>>
TooLate == <<Series(1, 1, 2, 4), Series(2, 2, 4, 4)>>
Resent == <<Series(1, 1, 2, 4),
            [Series(2, 2, 2, 4) EXCEPT !.cells["post_treatment"] =
               <<Repeat(1, 2, 4), Repeat(1, 2, 4)>>]>>

Granted == [bundle |-> TRUE,
            threshold |-> [min_grs |-> 1, min_independent_layers |-> 2, max_open_incidents |-> 0],
            observed |-> [min_grs |-> 1, min_independent_layers |-> 2, max_open_incidents |-> 0]]

Plain ==
  [tenant |-> "t", experiment |-> "x", run |-> "r1",
   confirmation |-> "first", prior |-> None, received |-> 0, prior_received |-> 0, at |-> 3,
   submission |-> [found |-> TRUE, content |-> TRUE, intact |-> TRUE, metrics |-> TRUE,
                   cells |-> TRUE, observations |-> "clean"],
   grs |-> Granted, signals |-> Crossed, evidence |-> [g \in EvidenceGroups |-> MCBases]]

MCInput ==
  [plain |-> Plain,
   other_run |-> [Plain EXCEPT !.run = "r2"],
   early |-> [Plain EXCEPT !.at = 2],
   altered |-> [Plain EXCEPT !.confirmation = "altered", !.run = "r2"],
   reanchored |-> [Plain EXCEPT !.confirmation = "third", !.received = 1, !.run = "r2"],
   replayed |-> [Plain EXCEPT !.prior = "first", !.received = 2, !.run = "r2"],
   contradicted |-> [Plain EXCEPT !.prior = "altered"],
   untrusted |-> [Plain EXCEPT !.confirmation = "second", !.run = "r2"],
   late |-> [Plain EXCEPT !.received = 2],
   denied |-> [Plain EXCEPT !.grs.observed["max_open_incidents"] = 1],
   foreign |-> [Plain EXCEPT !.submission.observations = "other_asset"],
   sparse |-> [Plain EXCEPT !.evidence = [g \in EvidenceGroups |->
                 IF g = "baseline_observation" THEN {1} ELSE {}]],
   shared |-> [Plain EXCEPT !.signals = Shared],
   too_late |-> [Plain EXCEPT !.signals = TooLate],
   resent |-> [Plain EXCEPT !.signals = Resent]]

(* The two calls are interchangeable.                                      *)
CallerSymmetry == Permutations(Callers)
=============================================================================
