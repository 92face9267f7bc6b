---------------------------- MODULE FixtureRunner ----------------------------
(***************************************************************************)
(* The pyspec fixture runner of pyspec/runner.go: loadFixtureTests walks   *)
(* the fixture tree, loads the matching fixture files and hands every test *)
(* whose network is in the ruleset to the workers; run prepares a test's   *)
(* artefacts on disk, starts the client and asks it for the payload        *)
(* bodies of the fixture's blocks.                                         *)
(*                                                                         *)
(* The tree is the sequence Entries in filepath.Walk's lexical order.  An  *)
(* entry is a record: kind is "dir", "other" (not .json), "json" (another  *)
(* .json file) or "target" (withdrawals_balance_within_block.json); loads *)
(* says its JSON parses, tests the tests it holds.  Walk hands the walk    *)
(* function an error for the entries in walkErrs, a subset of the entries  *)
(* MayFail that Init chooses.  Tests are model values with their    *)
(* network in Network and their block count in Blocks.  The file system   *)
(* and the client may fail at any call.                                    *)
(***************************************************************************)
EXTENDS Integers, Sequences, FiniteSets

CONSTANTS Entries, MayFail, Tests, Network, Blocks, Ruleset

ASSUME /\ \A i \in 1 .. Len(Entries) : Entries[i].tests \subseteq Tests
       /\ \A i, j \in 1 .. Len(Entries) : i # j => Entries[i].tests \cap Entries[j].tests = {}

VARIABLES walkErrs, pos, walking, inFile, mapLeft, status, disk

vars == <<walkErrs, pos, walking, inFile, mapLeft, status, disk>>

\* what of a test is on disk: its block directory, genesis.json and how many
\* block files, written in order
NoFiles == [blockDir |-> FALSE, genesis |-> FALSE, blocks |-> 0]
DiskFiles(t) == [blockDir |-> TRUE, genesis |-> TRUE, blocks |-> Blocks[t]]

Init ==
  /\ walkErrs \in SUBSET MayFail
  /\ pos = 1
  /\ walking = TRUE
  /\ inFile = FALSE
  /\ mapLeft = {}
  /\ status = [t \in Tests |-> "unseen"]
  /\ disk = [t \in Tests |-> NoFiles]

\* testcase.validate: the fixture's network must be a ruleset key
Validate(t) == Network[t] \in Ruleset

(* loadFixtureTests's walk function on the next entry: a walk error ends   *)
(* the whole walk (loadFixtureTests drops Walk's result), directories,     *)
(* other files and fixtures of another name are skipped, a file that does  *)
(* not parse is logged and skipped, a parsed file starts the loop over its *)
(* map of tests.                                                           *)
VisitEntry ==
  /\ walking /\ ~inFile /\ pos <= Len(Entries)
  /\ LET e == Entries[pos] IN
       \/ /\ pos \in walkErrs
          /\ walking' = FALSE
          /\ UNCHANGED <<pos, inFile, mapLeft>>
       \/ /\ pos \notin walkErrs /\ (e.kind # "target" \/ ~e.loads)
          /\ pos' = pos + 1
          /\ UNCHANGED <<walking, inFile, mapLeft>>
       \/ /\ pos \notin walkErrs /\ e.kind = "target" /\ e.loads
          /\ inFile' = TRUE
          /\ mapLeft' = e.tests
          /\ UNCHANGED <<pos, walking>>
  /\ UNCHANGED <<walkErrs, status, disk>>

(* One iteration of the range over the fixture map, in Go's unspecified    *)
(* map order: a test that fails validate is reported with t.Errorf and     *)
(* skipped, any other is handed to fn.                                     *)
NextTest ==
  /\ inFile
  /\ \E t \in mapLeft :
       /\ mapLeft' = mapLeft \ {t}
       /\ status' = [status EXCEPT ![t] = IF Validate(t) THEN "yielded" ELSE "reported"]
  /\ UNCHANGED <<walkErrs, pos, walking, inFile, disk>>

\* Mutant of EndFile: the walk function returns before the map is exhausted.
EndFileEarly ==
  /\ inFile
  /\ inFile' = FALSE
  /\ pos' = pos + 1
  /\ UNCHANGED <<walkErrs, walking, mapLeft, status, disk>>

\* the map is exhausted: the walk function returns nil and Walk goes on
EndFile ==
  /\ inFile /\ mapLeft = {}
  /\ inFile' = FALSE
  /\ pos' = pos + 1
  /\ UNCHANGED <<walkErrs, walking, mapLeft, status, disk>>

\* filepath.Walk has visited every entry
EndWalk ==
  /\ walking /\ ~inFile /\ pos > Len(Entries)
  /\ walking' = FALSE
  /\ UNCHANGED <<walkErrs, pos, inFile, mapLeft, status, disk>>

(* createArtefacts, failing at one of its writes (block k) or at none: MkdirAll of   *)
(* the block directory, genesis.json, then the block files in order; each  *)
(* write that succeeded stays on disk.                                     *)
ArtefactOutcomes == {"mkdir", "genesis", "block", "none"}
Written(t, failAt, k) ==
  CASE failAt = "mkdir"   -> NoFiles
    [] failAt = "genesis" -> [NoFiles EXCEPT !.blockDir = TRUE]
    [] failAt = "none"    -> DiskFiles(t)
    [] failAt = "block"   -> [DiskFiles(t) EXCEPT !.blocks = k - 1]

\* run's first call: createArtefacts, whose error is a t.Fatal
PrepareArtefacts(t) ==
  /\ status[t] = "yielded"
  /\ \E failAt \in ArtefactOutcomes, k \in 1 .. Blocks[t] :
       /\ disk' = [disk EXCEPT ![t] = Written(t, failAt, k)]
       /\ status' = [status EXCEPT ![t] = IF failAt = "none" THEN "prepared" ELSE "fatal"]
  /\ UNCHANGED <<walkErrs, pos, walking, inFile, mapLeft>>

(* The rest of run: updateEnv and getGenesis, StartClient (whose error is  *)
(* a t.Fatal), the block hashes and GetPayloadBodiesByHashV1, whose result *)
(* and error are dropped; run then returns and the test passes.  No block  *)
(* is fed to the client: the import and the checks are commented out.     *)
RunClient(t) ==
  /\ status[t] = "prepared"
  /\ \E started \in BOOLEAN :
       status' = [status EXCEPT ![t] = IF started THEN "passed" ELSE "fatal"]
  /\ UNCHANGED <<walkErrs, pos, walking, inFile, mapLeft, disk>>

Next ==
  \/ VisitEntry \/ NextTest \/ EndFile \/ EndWalk
  \/ \E t \in Tests : PrepareArtefacts(t) \/ RunClient(t)

Spec == Init /\ [][Next]_vars

\* the tests of the loadable target files that come before the first walk error
Reachable ==
  LET stop == IF walkErrs = {} THEN Len(Entries) + 1
              ELSE CHOOSE i \in walkErrs : \A j \in walkErrs : i <= j
  IN UNION {Entries[i].tests : i \in {k \in 1 .. stop - 1 :
                                     Entries[k].kind = "target" /\ Entries[k].loads}}

(* Once loadFixtureTests returns, every test of a target fixture the walk  *)
(* reached went through validate exactly once: those of a ruleset network  *)
(* were handed to the workers and the others were reported as errors,     *)
(* whatever order the map was ranged in.                                   *)
WalkAccountsForEveryTest ==
  ~walking =>
    \A t \in Reachable : /\ status[t] # "unseen"
                         /\ (status[t] = "reported") <=> ~Validate(t)

=============================================================================
