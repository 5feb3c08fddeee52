------------------------ MODULE MCConcurrentClient ------------------------
EXTENDS ConcurrentClient

(* Numbers run from 2 over the largest, 3, to the smallest, -4, and no      *)
(* number comes back within the calls of a run.                             *)
MCMinSeq == -4

WithOneway == {Ping, Zip}
=============================================================================
