--------------------------- MODULE SerializeProofs ---------------------------
(* Proofs about Serialize: the compression stays inside its buffer, and what *)
(* is returned is the whole stream, for all lengths and chunk sizes.         *)
EXTENDS Serialize, TLAPS

\* What the phases before and after the compression leave of its variables.
Progress ==
    /\ phase \in {"prepare", "table", "encode", "compress"} => written = 0
    /\ phase \notin {"done", "returned", "raised"} => buflen_out = Unset
    /\ phase \in {"done", "returned"} /\ retval = 0 /\ buflen_out = Unset =>
          interrupt
    /\ phase = "returned" => retval = 0

IInv == TypeOK /\ RoomForOutput /\ WholeStream /\ Progress

LEMMA InitIInv == Lengths /\ Init => IInv
<1> SUFFICES ASSUME Lengths, Init PROVE IInv
  OBVIOUS
<1> USE DEF Lengths, Init
<1>1. TypeOK
  <2>1. interrupt \in BOOLEAN
    OBVIOUS
  <2>2. avail_out \in 0 .. out_chunk_size /\ written \in 0 .. stream
    OBVIOUS
  <2>3. QED
    BY <2>1, <2>2 DEF TypeOK, Phase
<1>2. RoomForOutput /\ WholeStream
  BY DEF RoomForOutput, WholeStream
<1>3. Progress
  BY DEF Progress
<1>4. QED
  BY <1>1, <1>2, <1>3 DEF IInv

\* Each step keeps the invariant.  Only Deflate, FinishMore and Finish do
\* arithmetic on the buffer.
LEMMA IInvStep == Lengths /\ IInv /\ [Next]_vars => IInv'
<1> SUFFICES ASSUME Lengths, IInv, [Next]_vars PROVE IInv'
  OBVIOUS
<1> USE DEF Lengths, IInv, TypeOK, RoomForOutput, WholeStream, Progress, Phase
<1>1. CASE UNCHANGED vars
  BY <1>1 DEF vars, zstream, outcome
<1>2. ASSUME NEW why \in {"trap", "raise"}, Unblock(why) PROVE IInv'
  BY <1>2 DEF Unblock, Serializing, zstream, outcome
<1>3. CASE Serialize
  BY <1>3 DEF Serialize, zstream, outcome
<1>4. CASE WriteStringTable
  BY <1>4 DEF WriteStringTable, zstream, outcome
<1>5. ASSUME NEW length \in Payloads, Encode(length) PROVE IInv'
  BY <1>5 DEF Encode, outcome
<1>6. ASSUME NEW length \in Streams, StartStream(length) PROVE IInv'
  BY <1>6 DEF StartStream, outcome
<1>7. CASE StreamError
  BY <1>7 DEF StreamError, Return, zstream
<1>8. CASE InterruptedDeflate
  BY <1>8 DEF InterruptedDeflate, Return, zstream
<1>9. ASSUME NEW rest \in 0 .. avail_in, NEW bytes \in 0 .. avail_out,
             Deflate(rest, bytes)
      PROVE IInv'
  BY <1>9 DEF Deflate, Finishing, Room, Allocated, outcome
<1>10. CASE FinishMore
  BY <1>10 DEF FinishMore, Finishing, Room, Allocated, outcome
<1>11. CASE Finish
  BY <1>11 DEF Finish, Finishing, OutputLength
<1>12. CASE Interrupted
  BY <1>12 DEF Interrupted, Return, zstream
<1>13. CASE Raise
  BY <1>13 DEF Raise, zstream, outcome
<1>14. CASE ReturnProfile
  BY <1>14 DEF ReturnProfile, zstream, outcome
<1>15. CASE Done
  BY <1>15 DEF Done, vars, zstream, outcome
<1>16. QED
  BY <1>1, <1>2, <1>3, <1>4, <1>5, <1>6, <1>7, <1>8, <1>9, <1>10, <1>11,
     <1>12, <1>13, <1>14, <1>15 DEF Next, Step, Compress

\* The variables keep their types.
THEOREM SerializeTypeCorrect == ASSUME Lengths PROVE Spec => []TypeOK
<1>1. Init => IInv
  BY InitIInv
<1>2. IInv /\ [Next]_vars => IInv'
  BY IInvStep
<1>3. IInv => TypeOK
  BY DEF IInv
<1>4. QED
  BY <1>1, <1>2, <1>3, PTL DEF Spec

\* deflate is always called with room for output that ends where the
\* allocation ends, whatever the chunk size and the length of the stream.
THEOREM DeflateHasRoom == ASSUME Lengths PROVE Spec => []RoomForOutput
<1>1. Init => IInv
  BY InitIInv
<1>2. IInv /\ [Next]_vars => IInv'
  BY IInvStep
<1>3. IInv => RoomForOutput
  BY DEF IInv
<1>4. QED
  BY <1>1, <1>2, <1>3, PTL DEF Spec

\* A length that is returned is that of the whole stream, and none is only
\* returned after an interrupt.
THEOREM StreamIsWhole == ASSUME Lengths PROVE Spec => []WholeStream
<1>1. Init => IInv
  BY InitIInv
<1>2. IInv /\ [Next]_vars => IInv'
  BY IInvStep
<1>3. IInv => WholeStream
  BY DEF IInv
<1>4. QED
  BY <1>1, <1>2, <1>3, PTL DEF Spec

=============================================================================
