-------------------------- MODULE MCParallelCompile --------------------------
EXTENDS ParallelCompile

\* No parallelism, fewer jobs than tasks, and as many.
SomeJobs == {1, 2, Cardinality(Tasks)}

==============================================================================
