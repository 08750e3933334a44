--------------------------- MODULE MCProgressSync ---------------------------
(***************************************************************************)
(* Small instances of ProgressSync.  The server's clock stands at 0 and    *)
(* accepts times up to MaxFutureClockSkew.                                 *)
(***************************************************************************)
EXTENDS ProgressSync, TLC

CONSTANTS phone, tablet, p1, p2, t1, nobody

At(s) == [sec |-> s, frac |-> 0]

Progress(i, b, ed, t, p) ==
  [id |-> i, book |-> b, edition |-> ed, at |-> At(t), place |-> p, form |-> "good"]

SeqsUpTo(S, n) == UNION {[1 .. k -> S] : k \in 0 .. n}

Distinct(S, n) ==
  {s \in SeqsUpTo(S, n) : \A i, j \in 1 .. Len(s) : s[i] = s[j] => i = j}

\* Two devices, one thread each, two reads of one book and one of another, so
\* that a page can end between the books.  Swapping the devices with their
\* threads changes nothing.
Phones == p1 :> phone @@ t1 :> tablet
SwapDevices ==
  {f \in Permutations({phone, tablet, p1, t1}) :
     \A e \in {p1, t1} : f[e] \in {p1, t1} /\ Phones[f[e]] = f[Phones[e]]}
OneEach == 1 :> 1 @@ 2 :> 2
ThreeReads == {Progress(1, 1, 1, 1, "a"), Progress(2, 2, 2, 2, "b"), Progress(3, 1, 1, 3, "c")}
ThreeBatches == Distinct(ThreeReads, 2)
ASSUME ThreeReadsAreCalm == Changes = ThreeReads => Calm

\* One device with two threads; book 1 has an uploaded edition 1 and a watched
\* edition 2, book 2 only edition 3.  Event 2 may lose its edition, event 3 the
\* server refuses.
TwoThreads == p1 :> phone @@ p2 :> phone
SwapThreads == Permutations({p1, p2})
TwoBooks == 1 :> 1 @@ 2 :> 1 @@ 3 :> 2
HardReads ==
  { Progress(1, 1, 1, 1, "a"), Progress(2, 1, 2, 2, "b"),
    [Progress(3, 2, 3, 3, "c") EXCEPT !.form = "malformed"] }
HardBatches == Distinct(HardReads, 2)
ASSUME HardReadsAreSettled == Changes = HardReads => Settled

\* One thread; event 2 is ahead of the server's clock until it ticks.
OneThread == p1 :> phone
EarlyReads == {Progress(1, 1, 1, 1, "a"), Progress(2, 1, 2, 6, "b")}
EarlyBatches == Distinct(EarlyReads, 2)

=============================================================================
