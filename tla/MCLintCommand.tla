--------------------------- MODULE MCLintCommand ---------------------------
(* Instances of LintCommand for TLC.                                         *)
EXTENDS LintCommand

CONSTANTS lint, other

Does(command, n) == [command |-> command, rulesets |-> n]

\* Two runs of `lint`, one with two rulesets; and one beside another command.
TwoRuns == {(lint :> Does("lint", 2)) @@ (other :> Does("lint", 1)),
            (lint :> Does("lint", 2)) @@ (other :> Does("clear", 1)),
            (lint :> Does("lint", 1)) @@ (other :> Does("config", 1)),
            (lint :> Does("config", 1)) @@ (other :> Does("config", 1))}
============================================================================
