------------------------------ MODULE MCPipeline ------------------------------
(* Model values and symmetry for the runs of Pipeline.                        *)
EXTENDS Pipeline, FiniteSets, TLC

CONSTANTS h1, h2

TwoHandlers == {h1, h2}
OneHandler  == {h1}
AllKinds    == {"VIDEO", "OTHER"}
Video       == {"VIDEO"}
SceneFaults == {"detector", "indexer"}
MediaFaults == {"media"}
AllFaults   == Jobs \union {"rpc", "publish"}

HandlerSymmetry == Permutations(Handlers)

\* Bound: at most one delivery is interrupted or one service crashes, not both.
OneMishap == interrupts + crashes <= 1

\* Bound: a second run overlaps the first in a calm world, where nothing is
\* interrupted or crashes, with one queued report and one delivery at a time; that
\* of a video also meets no failure. The first run alone meets every fault.
CalmSecondRun ==
  run = 2 =>
    /\ interrupts = 0 /\ crashes = 0
    /\ Len(queue) + Cardinality({h \in Handlers : handler[h].pc # "idle"}) <= 1
    /\ kind = "VIDEO" =>
         \A j \in Jobs, r \in Runs : job[j][r] \notin {"failed", "lost"}
===============================================================================
