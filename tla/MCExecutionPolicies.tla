---------------------------- MODULE MCExecutionPolicies ----------------------------
EXTENDS ExecutionPolicies, TLC

CONSTANTS a, b, w1, w2

Symmetry == Permutations(Assets) \cup Permutations(Workers)

(* Finite history.  Growth: two assets that come and go, three executions one    *)
(* after the other, blocks of three sessions.  Overlap: one asset, two           *)
(* executions side by side, and a restatement or a retirement.                   *)
MCGrowth == [observations |-> 2, canonicalSessions |-> 3, maxAssets |-> 2, maxSessions |-> 4,
             maxRestatements |-> 0, maxWorkers |-> 1, maxStarts |-> 3, maxReleases |-> 0]
MCRestated == [observations |-> 1, canonicalSessions |-> 2, maxAssets |-> 1, maxSessions |-> 3,
               maxRestatements |-> 1, maxWorkers |-> 2, maxStarts |-> 2, maxReleases |-> 0]
MCRetired == [MCRestated EXCEPT !.maxRestatements = 0, !.maxReleases = 1]
MCFinite == {MCGrowth, MCRestated, MCRetired}

(* Checkpoints.  Histories: every short history of a streak and a moment, cut     *)
(* everywhere.  Protocol: restatements, renamed parents, damage, legacy results   *)
(* and interruptions.  Training: labels that are restated after they were used.   *)
Row(value, trace) == [value |-> value, trace |-> trace]
MCEstimator == [window |-> 2, fit_every |-> 2, min_samples |-> 1, max_samples |-> 1,
                label_maturity |-> 1, anchor_offset |-> 0, priority |-> <<2, 4, 1, 3>>]
MCHistories == [operations |-> {"reset", "hold", "ewm"}, maxSessions |-> 4, maxRecords |-> 6,
    maxVersions |-> 0, interrupts |-> FALSE, damages |-> FALSE, legacy |-> FALSE,
    cells |-> {Absent, Row(Null, 2), Row(1, 1), Row(2, 2), Row(3, 1)}]
MCProtocol == [operations |-> {"reset"}, maxSessions |-> 3, maxRecords |-> 3,
    maxVersions |-> 1, interrupts |-> TRUE, damages |-> TRUE, legacy |-> TRUE,
    cells |-> {Absent, Row(1, 1), Row(2, 2)}]
MCTraining == [operations |-> {"train"}, maxSessions |-> 4, maxRecords |-> 4,
    maxVersions |-> 1, interrupts |-> FALSE, damages |-> FALSE, legacy |-> FALSE,
    cells |-> {Absent, Row(1, Null), Row(1, 1), Row(2, 2)}, training |-> MCEstimator]
MCCheckpoint == {MCHistories, MCProtocol, MCTraining}

(* Periods: a window of two that may be broken, and a short one with faults.      *)
Cell(feature, target, delay) == [feature |-> feature, target |-> target, delay |-> delay]
MCWindow == [window |-> 2, maxDays |-> 5, maxVersions |-> 1, maxResults |-> 2, interrupts |-> FALSE,
    cells |-> {Cell(None, None, 1), Cell(1, 1, 1), Cell(1, 2, 3)}]
MCRetry == [window |-> 1, maxDays |-> 3, maxVersions |-> 1, maxResults |-> 3, interrupts |-> TRUE,
    cells |-> {Cell(1, 1, 1), Cell(2, 1, 2)}]
MCPeriod == {MCWindow, MCRetry}

(* Regions: a chain that is joined whole or cut, one whose first node is not      *)
(* eligible and whose source is restated back and forth, and a diamond.           *)
Request(requested, persist) == [requested |-> requested, persist |-> persist]
MCChain == [parents |-> <<{0}, {1}, {2}>>, operator |-> <<"parity", "sum", "sum">>,
    eligible |-> {1, 2, 3}, canonicalSessions |-> 2, maxSessions |-> 3, maxPlans |-> 2,
    maxRestatements |-> 1, numbers |-> {1, 3}, upgrades |-> {2},
    requests |-> {Request({3}, {}), Request({3}, {1})}]
MCReturn == [parents |-> <<{0}, {1}, {2}>>, operator |-> <<"sum", "parity", "sum">>,
    eligible |-> {2, 3}, canonicalSessions |-> 1, maxSessions |-> 2, maxPlans |-> 3,
    maxRestatements |-> 2, numbers |-> {1, 2}, upgrades |-> {},
    requests |-> {Request({3}, {}), Request({3}, {2})}]
MCDiamond == [parents |-> <<{0}, {1}, {1}, {2, 3}>>, operator |-> <<"parity", "sum", "sum", "sum">>,
    eligible |-> {1, 2, 3, 4}, canonicalSessions |-> 2, maxSessions |-> 2, maxPlans |-> 3,
    maxRestatements |-> 0, numbers |-> {1, 2}, upgrades |-> {2},
    requests |-> {Request({4}, {}), Request({4}, {2}), Request({2}, {})}]
MCRegion == {MCChain, MCReturn, MCDiamond}

(* Versions: two plans over late versions of five sessions, or faults, with        *)
(* histories that grow along the nodes or differ by one.  Mixed: branch updates    *)
(* between global ones of nodes that read far and not at all, so that the buffer   *)
(* loses what it needs at its start or between.  Trimmed: without late versions.   *)
MCReplay == [history |-> <<0, 1, 1>>, parent |-> <<None, None, 2>>, sessions |-> 2,
    ends |-> {2, 3, 5}, maxVersions |-> 2, maxPlans |-> 2, roots |-> {{1, 2, 3}, {1}},
    failures |-> FALSE]
MCFailures == [MCReplay EXCEPT !.ends = {3, 4}, !.maxVersions = 1, !.roots = {{1, 2, 3}},
    !.failures = TRUE]
MCMixed == [history |-> <<2, 0>>, parent |-> <<None, None>>, sessions |-> 3, ends |-> {5, 6, 7},
    maxVersions |-> 1, maxPlans |-> 3, roots |-> {{1, 2}, {1}}, failures |-> FALSE]
MCEven == [MCMixed EXCEPT !.history = <<1, 0>>]
MCRepeated == [MCMixed EXCEPT !.ends = {5, 7}, !.maxVersions = 0, !.roots = {{1, 2}, {1}, {2}},
    !.failures = TRUE]
MCCausal == {MCReplay, MCFailures, MCMixed, MCEven, MCRepeated}
MCTrimmed == {[MCMixed EXCEPT !.maxVersions = 0]}

(* Maintenance: two plans one on the other over three sessions, or among two runs *)
(* over two, or one plan over a source that grows, with retirements.              *)
MCChained == [observations |-> 1, canonicalSessions |-> 2, maxAssets |-> 1, maxSessions |-> 3,
    maxRestatements |-> 1, maxRuns |-> 1, maxPlans |-> 2, releases |-> FALSE, grows |-> FALSE]
MCAmongRuns == [MCChained EXCEPT !.maxSessions = 2, !.maxRuns = 2]
MCReleased == [MCChained EXCEPT !.maxSessions = 2, !.maxPlans = 1, !.releases = TRUE, !.grows = TRUE]
MCMaintenance == {MCChained, MCAmongRuns, MCReleased}
MCNone == {}
=============================================================================
