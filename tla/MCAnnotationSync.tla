-------------------------- MODULE MCAnnotationSync --------------------------
(***************************************************************************)
(* Small instances of AnnotationSync.  The server's clock starts at 0 and  *)
(* takes times up to MaxFutureSkew as they are.                            *)
(***************************************************************************)
EXTENDS AnnotationSync, TLC

CONSTANTS phone, tablet, p1, t1, t2

OneBook == 1 :> 1
TwoIds == 1 :> 1 @@ 2 :> 1

\* Two devices, one thread each: swapping them with their threads changes
\* nothing.
OneEach == p1 :> phone @@ t1 :> tablet
SwapDevices ==
  {f \in Permutations({phone, tablet, p1, t1}) :
     \A e \in {p1, t1} : f[e] \in {p1, t1} /\ OneEach[f[e]] = f[OneEach[e]]}

\* One device, two threads.
TwoJobs == t1 :> tablet @@ t2 :> tablet
SwapThreads == Permutations({t1, t2})

=============================================================================
