------------------------------- MODULE MCIo ---------------------------------
(* Instances of Io for TLC: the environment is busy in one part at a time. *)
EXTENDS Io

MCOUTS == <<"LOCK", "SIREN">>

Quiet == [main |-> {3}, batt |-> {0}, level |-> {{}}, siren |-> FALSE,
          lock |-> FALSE, maps |-> {Default}]

MCCases ==
    { [Quiet EXCEPT !.main = {0, 3, 5}, !.batt = {0, 2, 4, 6}],
      [Quiet EXCEPT !.main = {1, 2, 3}, !.batt = {2, 4}],
      [Quiet EXCEPT !.main = {3, 4, 5}, !.batt = {4, 5, 6}],
      [Quiet EXCEPT !.main = {0, 3}, !.batt = {4}, !.level = {{}, {"KEY"}}],
      [Quiet EXCEPT !.level = {{}, {"SHOCK"}}, !.siren = TRUE],
      [Quiet EXCEPT !.level = {{}, {"UNLOCK"}}, !.lock = TRUE],
      [Quiet EXCEPT !.level = {{}, {"LOCK"}}, !.lock = TRUE],
      [Quiet EXCEPT !.lock = TRUE, !.siren = TRUE],
      [Quiet EXCEPT !.level = {{}, {"KEY"}},
                    !.maps = {[Default EXCEPT !["LOCK"] = "KEY"]}] }
=============================================================================
