-------------------------- MODULE MCPluginRegistry --------------------------
(* Small instances of PluginRegistry for TLC.                              *)
EXTENDS PluginRegistry, TLC

CONSTANTS t1, t2, managed, passive

MCThreads == {t1, t2}
MCPlugins == {managed, passive}
MCManaged == {managed}

\* Threads are interchangeable.
ThreadSymmetry == Permutations(Threads)
=============================================================================
