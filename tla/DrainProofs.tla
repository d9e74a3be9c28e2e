---------------------------- MODULE DrainProofs ----------------------------
(***************************************************************************)
(* A consequence of the tally invariant of ContractProofs, for every       *)
(* width and decoy list: the drain loop of register never waits on a       *)
(* channel nothing can arrive on.                                          *)
(***************************************************************************)
EXTENDS ContractProofs

\* A goroutine that has not posted, once spawned, is at a step before its
\* send, so it is still running and will send.
LEMMA PendingStillToSend ==
    ASSUME ChannelInv
    PROVE  PendingSenders \subseteq StillToSend
BY DEF ChannelInv, PendingSenders, StillToSend, PreSendPcs

\* While the loop drains, the W results are tallied, buffered or still to
\* be posted, and fewer than W have been tallied: one is buffered or to come.
LEMMA DrainSupply ==
    ASSUME ContractInv, mainPc = "drain", ch = << >>
    PROVE  PendingSenders # {}
<1>1. /\ unreachableCount + Len(ch) + Cardinality(PendingSenders) = Width
      /\ unreachableCount < Width
      /\ unreachableCount \in Nat
    BY DEF ContractInv, TallyInv, BlockInv, TypeInv, DrainBound, TypeOK,
           TaskTypeOK
<1>2. Cardinality(PendingSenders) # 0
    BY <1>1, PendingFinite
<1>. QED
    BY <1>2, FS_EmptySet

\* The drain loop of register never waits on dialErrors with nothing
\* buffered and no send goroutine left to report, for every width and
\* decoy list: the safety half of DialReturns.
THEOREM DrainNeverStarves == Spec => []DrainHasSender
<1>1. ContractInv => DrainHasSender
    <2> SUFFICES ASSUME ContractInv, mainPc = "drain", ch = << >>
                 PROVE  StillToSend # {}
        BY DEF DrainHasSender
    <2>1. PendingSenders # {}
        BY DrainSupply
    <2>2. PendingSenders \subseteq StillToSend
        BY PendingStillToSend DEF ContractInv, BlockInv
    <2>. QED
        BY <2>1, <2>2
<1>. QED
    BY <1>1, ContractInduction, PTL DEF Spec
=============================================================================
