------------------------------- MODULE MCStartup -------------------------------
(* Values for TLC.                                                         *)
EXTENDS Startup

Unset == [env |-> [DEMO_MODE |-> "unset", DEMO_RESET |-> "unset", SEED_DEMO_ONLY |-> "unset"],
          file |-> [demo_mode |-> "unset", demo_reset |-> "unset"],
          flags |-> {}, static |-> {}]

(* A file asks for resets and the environment overrides it, with an account  *)
(* configured; demo by a flag; the file alone; the one-shot seeder.          *)
MCSettings ==
  {[Unset EXCEPT !.static = {"alice"},
                 !.file["demo_reset"] = "true", !.env["DEMO_RESET"] = "false"],
   [Unset EXCEPT !.flags = {"demo"}],
   [Unset EXCEPT !.file["demo_reset"] = "true"],
   [Unset EXCEPT !.env["SEED_DEMO_ONLY"] = "true"]}

MCReopened == [t \in Legacy |-> IF t = CHOOSE u \in Legacy : TRUE THEN 1 ELSE 0]

=============================================================================
