------------------------------- MODULE Parts -------------------------------
(***************************************************************************)
(* The parts of a node that are plain data structures or algorithms, each  *)
(* used by one thread at a time: the containers, the block code and its    *)
(* duplicate mask, the echo listener's cache, the distributor and the      *)
(* statistics of the echo client.  They share no state, so that a          *)
(* behaviour of any of them is one in which the others stay as they are:   *)
(* part names the one that runs.                                           *)
(***************************************************************************)
EXTENDS Containers, Rs, Bitmap256, EchoListener, Distributor,
        Metric

VARIABLE part

partsVars == <<part, heapVars, queueVars, lruMapVars, hashMapVars, rsVars, bitmapVars, echoVars,
               distributorVars, metricVars>>

Part == {"heap", "queue", "lrumap", "hashmap", "rs", "bitmap256", "echo", "distributor", "metric"}

Init ==
  /\ part \in Part
  /\ HeapInit /\ QueueInit /\ LruMapInit /\ HashMapInit
  /\ RsInit /\ BitmapInit /\ EchoInit /\ DistributorInit /\ MetricInit

Next ==
  \/ /\ part = "heap" /\ HeapNext
     /\ UNCHANGED <<part, queueVars, lruMapVars, hashMapVars, rsVars, bitmapVars, echoVars, distributorVars, metricVars>>
  \/ /\ part = "queue" /\ QueueNext
     /\ UNCHANGED <<part, heapVars, lruMapVars, hashMapVars, rsVars, bitmapVars, echoVars, distributorVars, metricVars>>
  \/ /\ part = "lrumap" /\ LruMapNext
     /\ UNCHANGED <<part, heapVars, queueVars, hashMapVars, rsVars, bitmapVars, echoVars, distributorVars, metricVars>>
  \/ /\ part = "hashmap" /\ HashMapNext
     /\ UNCHANGED <<part, heapVars, queueVars, lruMapVars, rsVars, bitmapVars, echoVars, distributorVars, metricVars>>
  \/ /\ part = "rs" /\ RsNext
     /\ UNCHANGED <<part, heapVars, queueVars, lruMapVars, hashMapVars, bitmapVars, echoVars, distributorVars, metricVars>>
  \/ /\ part = "bitmap256" /\ BitmapNext
     /\ UNCHANGED <<part, heapVars, queueVars, lruMapVars, hashMapVars, rsVars, echoVars, distributorVars, metricVars>>
  \/ /\ part = "echo" /\ EchoNext
     /\ UNCHANGED <<part, heapVars, queueVars, lruMapVars, hashMapVars, rsVars, bitmapVars, distributorVars, metricVars>>
  \/ /\ part = "distributor" /\ DistributorNext
     /\ UNCHANGED <<part, heapVars, queueVars, lruMapVars, hashMapVars, rsVars, bitmapVars, echoVars, metricVars>>
  \/ /\ part = "metric" /\ MetricNext
     /\ UNCHANGED <<part, heapVars, queueVars, lruMapVars, hashMapVars, rsVars, bitmapVars, echoVars, distributorVars>>

Spec == Init /\ [][Next]_partsVars
=============================================================================
