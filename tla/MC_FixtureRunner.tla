-------------------------- MODULE MC_FixtureRunner --------------------------
EXTENDS FixtureRunner, TLC

CONSTANTS t1, t2, t3, t4, t5, t6

Entry(kind, loads, tests) == [kind |-> kind, loads |-> loads, tests |-> tests]

(* The root directory, a README, a target fixture with a test of a known   *)
(* and one of an unknown network, another .json fixture, a second target   *)
(* fixture, a target that does not parse, a directory Walk may fail to read,  *)
(* and a target fixture after it.                                          *)
MCEntries ==
  << Entry("dir", FALSE, {}),
     Entry("other", FALSE, {}),
     Entry("target", TRUE, {t1, t2}),
     Entry("json", TRUE, {t3}),
     Entry("target", TRUE, {t4}),
     Entry("target", FALSE, {t5}),
     Entry("dir", FALSE, {}),
     Entry("target", TRUE, {t6}) >>

\* the unreadable directory
MCMayFail == {7}

MCTests == {t1, t2, t3, t4, t5, t6}
MCNetwork == [t \in MCTests |-> IF t = t2 THEN "Unknown" ELSE "Cancun"]
MCBlocks == [t \in MCTests |-> IF t = t1 THEN 2 ELSE 1]
MCRuleset == {"Shanghai", "Cancun"}
=============================================================================
