-------------------------- MODULE MCSessionManager --------------------------
(* Small instances of SessionManager. *)
EXTENDS SessionManager, FiniteSets, TLC

CONSTANTS c1, c2, c3, v1, v2

\* A viewer for each call.
OwnViewer == [c \in Call |-> c]

\* v1 presents its token on two connections.
SharedViewer == [c \in Call |-> IF c = c3 THEN v2 ELSE v1]

\* Explore no further once the host is shutting down.
Running == ~stopped

\* The timers, the operator and the watchers, between two critical sections.
LateCalls ==
    {e \in Entry : idleCall[e]} \cup ({<<"kick", kick>>, <<"tick", tick>>}
                                       \ {<<"kick", NoEntry>>, <<"tick", NoEntry>>})

\* At most one of them at a time; nothing follows c3, which is refused or
\* comes too late to matter.
OneLateCall == Cardinality(LateCalls) <= 1 /\ pc[c3] = "new"

\* ... nor inside a watcher's tick, which changes nothing while it runs. One gate
\* goroutine at a time has a command in its hands: they share nothing but the manager.
RunningBetweenTicks ==
    Running /\ tick = NoEntry /\ Cardinality({c \in Call : gate[c] \in {"check", "push"}}) <= 1

\* c1 comes first (the calls are interchangeable).
FirstComesFirst == pc[c1] = "new" => pc[c2] = "new"

Symmetry == Permutations(Call)
SharedSymmetry == Permutations({c1, c2})
=============================================================================
