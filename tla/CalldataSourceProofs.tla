------------------------ MODULE CalldataSourceProofs ------------------------
(***************************************************************************)
(* Proofs about the calldata source of CalldataSource.tla, for every set   *)
(* of blocks and every bound on failed loads.                              *)
(*                                                                         *)
(* FramesExactlyOnce compares what next() returned with Frames(block), the *)
(* filter of the specification, while the code fills its deque with       *)
(* BatcherCalldata(block), the filter of load_calldata.  That the two      *)
(* filters select the same transactions of a block is a fact about        *)
(* SelectSeq over the whole block, i.e. an induction over the block, and   *)
(* stays with TLC.  What is proved here is everything else: the retry and  *)
(* drain protocol of next() returns BatcherCalldata(block) exactly once    *)
(* and in order, whatever loads fail.  Loaded is the inductive invariant: *)
(* before the load nothing was returned, after it the data returned and    *)
(* the deque left make up the loaded calldata, and Eof comes only from an  *)
(* empty deque.                                                            *)
(***************************************************************************)
EXTENDS CalldataSource, SequenceTheorems, TLAPS

(* The calldata the source loads from its block, and the data it holds.    *)
Loaded(bc) ==
    /\ ~open => returned = <<>> /\ calldata = <<>>
    /\ open => returned \o calldata = bc
    /\ result = "Eof" => open /\ calldata = <<>>

(* The retry and drain part of FramesExactlyOnce, for the calldata frames: *)
(* what next() returned is a prefix of frames, and all of it after Eof.    *)
DrainsOnce(frames) ==
    /\ \E k \in 0..Len(frames) : returned = SubSeq(frames, 1, k)
    /\ result = "Eof" => returned = frames

(* The items a block's batcher calldata is made of.                        *)
Items(bc) == {bc[i] : i \in 1..Len(bc)}

IInv ==
    LET bc == BatcherCalldata(block)
    IN  /\ block \in Blocks
        /\ returned \in Seq(Items(bc))
        /\ calldata \in Seq(Items(bc))
        /\ Loaded(bc)

-----------------------------------------------------------------------------
(* The batcher calldata of any block is a sequence of its items.           *)
LEMMA CalldataIsSeq ==
    ASSUME NEW txs
    PROVE  BatcherCalldata(txs) \in Seq(Items(BatcherCalldata(txs)))
<1> DEFINE bc == BatcherCalldata(txs)
<1>1. bc = [i \in 1..Len(bc) |-> bc[i]] /\ Len(bc) \in Nat
  BY DEF BatcherCalldata
<1>. QED  BY <1>1 DEF Items

(* Popping the front of the deque onto the returned data keeps their      *)
(* concatenation.                                                          *)
LEMMA PopFront ==
    ASSUME NEW S, NEW s \in Seq(S), NEW t \in Seq(S), t # <<>>
    PROVE  /\ Append(s, Head(t)) \in Seq(S)
           /\ Tail(t) \in Seq(S)
           /\ Append(s, Head(t)) \o Tail(t) = s \o t
<1>1. Head(t) \in S /\ Tail(t) \in Seq(S) /\ Len(t) \in Nat \ {0}
  BY HeadTailProperties, EmptySeq
<1>2. Append(s, Head(t)) = s \o <<Head(t)>> /\ Append(s, Head(t)) \in Seq(S)
  BY <1>1, AppendIsConcat, AppendProperties
<1>3. <<Head(t)>> \o Tail(t) = t
  <2>1. Tail(t) = SubSeq(t, 2, Len(t))
    BY TailIsSubSeq
  <2>2. SubSeq(t, 1, Len(t)) = <<t[1]>> \o SubSeq(t, 2, Len(t))
    BY <1>1, SubSeqRecursiveFirst
  <2>3. SubSeq(t, 1, Len(t)) = t
    BY SubSeqFull
  <2>. QED  BY <2>1, <2>2, <2>3
<1>4. (s \o <<Head(t)>>) \o Tail(t) = s \o (<<Head(t)>> \o Tail(t))
  <2>1. <<Head(t)>> \in Seq(S)
    BY <1>1, AppendProperties, EmptySeq
  <2>. QED  BY <1>1, <2>1, ConcatAssociative
<1>. QED  BY <1>1, <1>2, <1>3, <1>4

(* The first part of a concatenation is its prefix of that length.         *)
LEMMA PrefixOfConcat ==
    ASSUME NEW S, NEW s \in Seq(S), NEW t \in Seq(S)
    PROVE  /\ Len(s) \in 0..Len(s \o t)
           /\ s = SubSeq(s \o t, 1, Len(s))
<1>1. Len(s) \in Nat /\ Len(t) \in Nat /\ Len(s \o t) = Len(s) + Len(t)
      /\ s \o t \in Seq(S)
  BY LenProperties, ConcatProperties
<1>2. CASE s = <<>>
  <2>1. Len(s) = 0
    BY <1>2, EmptySeq
  <2>. QED  BY <1>1, <1>2, <2>1, SubSeqEmpty
<1>3. CASE s # <<>>
  <2>1. Len(s) \in 1..Len(s)
    BY <1>3, EmptySeq
  <2>2. SubSeq(s \o t, 1, Len(s)) = SubSeq(s, 1, Len(s))
    BY <2>1, SubSeqOfConcat1
  <2>. QED  BY <1>1, <2>2, SubSeqFull
<1>. QED  BY <1>2, <1>3

-----------------------------------------------------------------------------
LEMMA InitIInv == Init => IInv
<1> SUFFICES ASSUME Init PROVE IInv
  OBVIOUS
<1>. QED  BY EmptySeq DEF Init, IInv, Loaded

LEMMA NextIInv == IInv /\ [Next]_vars => IInv'
<1> SUFFICES ASSUME IInv, [Next]_vars PROVE IInv'
  OBVIOUS
<1> DEFINE bc == BatcherCalldata(block)
           S == Items(bc)
<1>0. bc \in Seq(S) /\ returned \in Seq(S) /\ calldata \in Seq(S)
  BY CalldataIsSeq DEF IInv
<1>1. CASE NextReturns
  <2> DEFINE loaded == IF open THEN calldata ELSE bc
  <2>1. /\ UNCHANGED block /\ open'
        /\ IF loaded = <<>>
           THEN result' = "Eof" /\ calldata' = loaded /\ UNCHANGED returned
           ELSE /\ result' = "Data"
                /\ returned' = Append(returned, Head(loaded))
                /\ calldata' = Tail(loaded)
    BY <1>1 DEF NextReturns
  <2>2. loaded \in Seq(S) /\ returned \o loaded = bc
    <3>1. CASE open
      BY <3>1 DEF IInv, Loaded
    <3>2. CASE ~open
      BY <1>0, <3>2, ConcatEmptySeq DEF IInv, Loaded
    <3>. QED  BY <1>0, <3>1, <3>2
  <2>3. CASE loaded = <<>>
    <3>1. /\ returned' = returned /\ calldata' = <<>> /\ result' = "Eof"
          /\ returned \o calldata' = bc
      BY <2>1, <2>2, <2>3
    <3>2. calldata' \in Seq(S)
      BY <3>1, EmptySeq
    <3>. QED  BY <1>0, <2>1, <3>1, <3>2 DEF IInv, Loaded
  <2>4. CASE loaded # <<>>
    <3>1. /\ Append(returned, Head(loaded)) \in Seq(S)
          /\ Tail(loaded) \in Seq(S)
          /\ Append(returned, Head(loaded)) \o Tail(loaded) = returned \o loaded
      <4>1. loaded \in Seq(S) /\ loaded # <<>> /\ returned \in Seq(S)
        BY <1>0, <2>2, <2>4
      <4>. QED  BY <4>1, PopFront
    <3>. QED  BY <2>1, <2>2, <2>4, <3>1 DEF IInv, Loaded
  <2>. QED  BY <2>3, <2>4
<1>2. CASE NextLoadFails
  BY <1>2 DEF NextLoadFails, IInv, Loaded
<1>3. CASE UNCHANGED vars
  BY <1>3 DEF vars, IInv, Loaded
<1>. QED  BY <1>1, <1>2, <1>3 DEF Next

(* The invariant gives the drain property for the loaded calldata.         *)
LEMMA IInvDrains == IInv => DrainsOnce(BatcherCalldata(block))
<1> SUFFICES ASSUME IInv PROVE DrainsOnce(BatcherCalldata(block))
  OBVIOUS
<1> DEFINE bc == BatcherCalldata(block)
           S == Items(bc)
<1>0. bc \in Seq(S) /\ returned \in Seq(S) /\ calldata \in Seq(S)
  BY CalldataIsSeq DEF IInv
<1>1. CASE ~open
  <2>1. returned = <<>> /\ result # "Eof"
    BY <1>1 DEF IInv, Loaded
  <2>2. returned = SubSeq(bc, 1, 0) /\ 0 \in 0..Len(bc)
    BY <1>0, <2>1, SubSeqEmpty, LenProperties
  <2>. QED  BY <2>1, <2>2 DEF DrainsOnce
<1>2. CASE open
  <2>1. returned \o calldata = bc
    BY <1>2 DEF IInv, Loaded
  <2>2. Len(returned) \in 0..Len(bc) /\ returned = SubSeq(bc, 1, Len(returned))
    BY <1>0, <2>1, PrefixOfConcat
  <2>3. result = "Eof" => returned = bc
    BY <1>0, <2>1, ConcatEmptySeq DEF IInv, Loaded
  <2>. QED  BY <2>2, <2>3 DEF DrainsOnce
<1>. QED  BY <1>1, <1>2

(* calldata.rs next(): whatever loads of the block fail and are retried,   *)
(* the source returns the batcher calldata load_calldata selects exactly   *)
(* once, front to back, and says Eof only after all of it.                 *)
THEOREM CalldataReturnedOnce == Spec => []DrainsOnce(BatcherCalldata(block))
BY InitIInv, NextIInv, IInvDrains, PTL DEF Spec

(* Hence FramesExactlyOnce holds in every state in which the block's       *)
(* frames, as the specification filters them, are the calldata the code   *)
(* selects; TLC checks that they are, for every block of its instance.     *)
THEOREM FramesExactlyOnceIfFiltersAgree ==
    Spec => [](Frames(block) = BatcherCalldata(block) => FramesExactlyOnce)
<1>1. DrainsOnce(BatcherCalldata(block)) =>
        (Frames(block) = BatcherCalldata(block) => FramesExactlyOnce)
  BY DEF DrainsOnce, FramesExactlyOnce
<1>. QED  BY <1>1, CalldataReturnedOnce, PTL

-----------------------------------------------------------------------------
(***************************************************************************)
(* The refinement of FrameStream.  A step that returns data appends the   *)
(* front of the deque, which Loaded makes the item of the loaded calldata *)
(* after the ones returned; Eof is returned with an empty deque, when     *)
(* Loaded makes the returned data all of it; a failed load returns        *)
(* nothing and leaves the result short of Eof.                            *)
(***************************************************************************)

(* The item after a prefix of a concatenation is the first of the rest.    *)
LEMMA NextItem ==
    ASSUME NEW S, NEW s \in Seq(S), NEW t \in Seq(S), t # <<>>
    PROVE  /\ Len(s) < Len(s \o t)
           /\ (s \o t)[Len(s) + 1] = Head(t)
<1>1. Len(s) \in Nat /\ Len(t) \in Nat \ {0}
  BY EmptySeq, LenProperties
<1>. QED  BY <1>1, ConcatProperties

LEMMA InitStream == Init => Stream!Init
BY DEF Init, Stream!Init

LEMMA NextStream ==
    IInv /\ [Next]_vars => [Stream!Emit \/ Stream!Finish]_Stream!vars
<1> SUFFICES ASSUME IInv, [Next]_vars
             PROVE  [Stream!Emit \/ Stream!Finish]_Stream!vars
  OBVIOUS
<1> DEFINE bc == BatcherCalldata(block)
           S == Items(bc)
<1>0. bc \in Seq(S) /\ returned \in Seq(S) /\ calldata \in Seq(S)
  BY CalldataIsSeq DEF IInv
<1>1. CASE NextReturns
  <2> DEFINE loaded == IF open THEN calldata ELSE bc
  <2>1. /\ UNCHANGED block
        /\ IF loaded = <<>>
           THEN result' = "Eof" /\ UNCHANGED returned
           ELSE /\ result' = "Data"
                /\ returned' = Append(returned, Head(loaded))
    BY <1>1 DEF NextReturns
  <2>2. loaded \in Seq(S) /\ returned \o loaded = bc
    <3>1. CASE open
      BY <3>1 DEF IInv, Loaded
    <3>2. CASE ~open
      BY <1>0, <3>2, ConcatEmptySeq DEF IInv, Loaded
    <3>. QED  BY <1>0, <3>1, <3>2
  <2>3. CASE loaded = <<>>
    <3>1. returned = bc
      BY <1>0, <2>2, <2>3, ConcatEmptySeq
    <3>. QED  BY <2>1, <2>3, <3>1 DEF Stream!Finish
  <2>4. CASE loaded # <<>>
    <3>1. Len(returned) < Len(bc) /\ bc[Len(returned) + 1] = Head(loaded)
      BY <1>0, <2>2, <2>4, NextItem
    <3>2. result # "Eof"
      <4>1. result = "Eof" => open /\ calldata = <<>>
        BY DEF IInv, Loaded
      <4>. QED  BY <2>4, <4>1
    <3>. QED  BY <2>1, <2>4, <3>1, <3>2 DEF Stream!Emit
  <2>. QED  BY <2>3, <2>4
<1>2. CASE NextLoadFails
  <2>1. result # "Eof"
    BY <1>2 DEF NextLoadFails, IInv, Loaded
  <2>. QED  BY <1>2, <2>1 DEF NextLoadFails, Stream!vars
<1>3. CASE UNCHANGED vars
  BY <1>3 DEF vars, Stream!vars
<1>. QED  BY <1>1, <1>2, <1>3 DEF Next

(* calldata.rs next() implements the data source of spec 5: whatever      *)
(* loads fail and are retried, every call hands out the next item of the  *)
(* calldata load_calldata selects or nothing, and Eof comes after all of  *)
(* it and stays.                                                           *)
THEOREM ImplementsFrameStream == Spec => StreamSpec
<1>1. Spec => []IInv
  BY InitIInv, NextIInv, PTL DEF Spec
<1>. QED  BY <1>1, InitStream, NextStream, PTL DEF Spec, StreamSpec, Stream!Spec

=============================================================================
