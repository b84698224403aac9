---------------------------- MODULE MCInstaller -----------------------------
(* Instances of Installer. *)
EXTENDS Installer

\* A plain run, and the arguments that later runs change.
Plain == [key |-> <<"key1">>, telegram |-> Blank, memory |-> TRUE, windmill |-> TRUE,
          headroom |-> FALSE, forced |-> FALSE, overrides |-> {}, password |-> Blank]

SomeArguments ==
  {Plain,
   [Plain EXCEPT !.forced = TRUE, !.overrides = {"gpu"}, !.memory = FALSE, !.telegram = <<"bot">>],
   [Plain EXCEPT !.key = <<"key2">>, !.headroom = TRUE, !.windmill = FALSE, !.overrides = {"baserow"}],
   [Plain EXCEPT !.password = Weak, !.key = Blank, !.windmill = FALSE]}
=============================================================================
