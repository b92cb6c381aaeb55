------------------------------ MODULE Serialize ------------------------------
(***************************************************************************)
(* mpp_pprof_serctx_serialize of pprof_out.c and what flush_protected does *)
(* with its outcome.  The protobuf is encoded and then compressed into a   *)
(* buffer that grows by chunks.  With yield_gvl all this runs without the  *)
(* GVL, and the VM calls flush_nogvl_unblock when the thread gets a signal *)
(* or another thread raises in it: that sets a flag, which the code polls. *)
(*                                                                         *)
(* zlib is modelled by its contract: deflate goes on until its input is    *)
(* consumed or its output is full, it fails when it is called without room *)
(* for output, and with Z_FINISH it ends when the whole stream is out.     *)
(***************************************************************************)
EXTENDS Naturals

CONSTANTS
    out_chunk_size,   \* bytes by which the output buffer grows
    Payloads,         \* lengths of the encoded protobuf
    Streams,          \* lengths of the compressed stream
    YieldGvl,         \* flush passes yield_gvl: true
    Unset             \* a variable that was not assigned

\* What is assumed of the constants.
Lengths ==
    /\ YieldGvl \in BOOLEAN
    /\ out_chunk_size \in Nat \ {0}
    /\ Payloads \subseteq Nat
    /\ Streams \subseteq Nat \ {0}
    /\ Unset \notin Nat

VARIABLES
    phase,            \* how far the flush is
    interrupt,        \* the flag of the serctx
    pending,          \* what the VM wants to interrupt the thread for
    avail_in,         \* input that deflate has not consumed
    stream,           \* length of the whole compressed stream
    written,          \* bytes of it that are in the output buffer
    gzip_data_allocd_len,
    avail_out,        \* room in the output buffer, as deflate is told
    retval,           \* what mpp_pprof_serctx_serialize returns
    buflen_out        \* the length it gives its caller, with the buffer

zstream == <<avail_in, stream, written, gzip_data_allocd_len, avail_out>>
outcome == <<retval, buflen_out>>
vars == <<phase, interrupt, pending, zstream, outcome>>

Phase == {"prepare", "table", "encode", "compress", "deflate", "done",
          "returned", "raised"}

TypeOK ==
    /\ phase \in Phase
    /\ interrupt \in BOOLEAN
    /\ pending \in {"none", "trap", "raise"}
    /\ avail_in \in Nat
    /\ stream \in Nat
    /\ written \in 0 .. stream
    /\ gzip_data_allocd_len \in Nat
    /\ avail_out \in 0 .. out_chunk_size
    /\ retval \in {0, 1, Unset}
    /\ buflen_out \in Nat \union {Unset}

Init ==
    /\ phase = "prepare"
    /\ interrupt = FALSE
    /\ pending = "none"
    /\ avail_in = 0
    /\ stream = 0
    /\ written = 0
    /\ gzip_data_allocd_len = 0
    /\ avail_out = 0
    /\ retval = Unset
    /\ buflen_out = Unset

-----------------------------------------------------------------------------
(* The VM                                                                  *)

Serializing == phase \in {"table", "encode", "compress", "deflate", "done"}

\* flush_nogvl_unblock: the thread is to run a trap handler, or is raised in
\* or killed by another thread.  A handler that raises is like the latter.
Unblock(why) ==
    /\ YieldGvl
    /\ Serializing
    /\ interrupt' = TRUE
    /\ pending' = IF pending = "raise" THEN pending ELSE why
    /\ UNCHANGED <<phase, zstream, outcome>>

-----------------------------------------------------------------------------
(* mpp_pprof_serctx_serialize; 1 stands for its -1                         *)

\* st_foreach over the samples is done.
Serialize ==
    /\ phase = "prepare"
    /\ phase' = "table"
    /\ UNCHANGED <<interrupt, pending, zstream, outcome>>

\* CHECK_IF_INTERRUPTED(return -1), and errors that are returned.
Return(value) ==
    /\ phase' = "done"
    /\ retval' = value
    /\ UNCHANGED <<interrupt, pending, zstream, buflen_out>>

\* Fault: the flag is cleared and the step is tried again.
Interrupted_Retry ==
    /\ phase \in {"table", "encode", "compress"}
    /\ interrupt
    /\ interrupt' = FALSE
    /\ UNCHANGED <<phase, pending, zstream, outcome>>

Interrupted ==
    /\ phase \in {"table", "encode", "compress"}
    /\ interrupt
    /\ Return(1)

WriteStringTable ==
    /\ phase = "table"
    /\ ~interrupt
    /\ phase' = "encode"
    /\ UNCHANGED <<interrupt, pending, zstream, outcome>>

Encode(length) ==
    /\ phase = "encode"
    /\ ~interrupt
    /\ phase' = "compress"
    /\ avail_in' = length
    /\ UNCHANGED <<interrupt, pending, stream, written, gzip_data_allocd_len,
                   avail_out, outcome>>

\* deflateInit2.  How long the stream will be is up to zlib.
StartStream(length) ==
    /\ phase = "compress"
    /\ ~interrupt
    /\ phase' = "deflate"
    /\ stream' = length
    /\ gzip_data_allocd_len' = out_chunk_size
    /\ avail_out' = out_chunk_size
    /\ UNCHANGED <<interrupt, pending, avail_in, written, outcome>>

StreamError ==
    /\ phase \in {"compress", "deflate"}
    /\ ~interrupt
    /\ Return(1)

\* CHECK_IF_INTERRUPTED(goto zstream_free): retval is still 0.
InterruptedDeflate ==
    /\ phase = "deflate"
    /\ interrupt
    /\ Return(0)

\* What the loop does when deflate has left `room': more is allocated when
\* there is none.
\* Fault: the buffer grows, and zlib is not told.
Room_Stale(room) == room
Room(room) == IF room = 0 THEN out_chunk_size ELSE room

Allocated(room) ==
    IF room = 0 THEN gzip_data_allocd_len + out_chunk_size
                ELSE gzip_data_allocd_len

Finishing == avail_in = 0

\* deflate(Z_NO_FLUSH) leaves some of the input and writes some bytes, though
\* not the last of the stream.
Deflate(rest, bytes) ==
    /\ phase = "deflate"
    /\ ~interrupt
    /\ ~Finishing
    /\ avail_out > 0
    /\ rest = 0 \/ bytes = avail_out
    /\ written + bytes < stream
    /\ avail_in' = rest
    /\ written' = written + bytes
    /\ avail_out' = Room(avail_out - bytes)
    /\ gzip_data_allocd_len' = Allocated(avail_out - bytes)
    /\ UNCHANGED <<phase, interrupt, pending, stream, outcome>>

\* deflate(Z_FINISH) that fills the buffer.
FinishMore ==
    /\ phase = "deflate"
    /\ ~interrupt
    /\ Finishing
    /\ avail_out > 0
    /\ stream - written > avail_out
    /\ written' = written + avail_out
    /\ avail_out' = Room(0)
    /\ gzip_data_allocd_len' = Allocated(0)
    /\ UNCHANGED <<phase, interrupt, pending, avail_in, stream, outcome>>

\* deflate(Z_FINISH) that returns Z_STREAM_END: the output pointers are set.
\* Fault: the length is that of the allocation.
OutputLength_Allocated(room) == gzip_data_allocd_len
OutputLength(room) == gzip_data_allocd_len - room

Finish ==
    /\ phase = "deflate"
    /\ ~interrupt
    /\ Finishing
    /\ avail_out > 0
    /\ stream - written <= avail_out
    /\ phase' = "done"
    /\ written' = stream
    /\ avail_out' = avail_out - (stream - written)
    /\ retval' = 0
    /\ buflen_out' = OutputLength(avail_out - (stream - written))
    /\ UNCHANGED <<interrupt, pending, avail_in, stream, gzip_data_allocd_len>>

-----------------------------------------------------------------------------
(* flush_protected                                                         *)

\* rb_thread_call_without_gvl raises what is pending, and after a trap
\* handler the flush goes on.
Raise ==
    /\ phase = "done"
    /\ pending = "raise" \/ retval = 1
    /\ phase' = "raised"
    /\ UNCHANGED <<interrupt, pending, zstream, outcome>>

\* rb_str_new(pprof_outbuf, pprof_outbuf_len).
ReturnProfile ==
    /\ phase = "done"
    /\ pending # "raise"
    /\ retval = 0
    /\ phase' = "returned"
    /\ UNCHANGED <<interrupt, pending, zstream, outcome>>

Done ==
    /\ phase \in {"returned", "raised"}
    /\ UNCHANGED vars

\* The flush as far as it does not depend on the profile.
Compress ==
    \/ \E length \in Payloads : Encode(length)
    \/ \E length \in Streams : StartStream(length)
    \/ StreamError
    \/ InterruptedDeflate
    \/ \E rest \in 0 .. avail_in, bytes \in 0 .. avail_out : Deflate(rest, bytes)
    \/ FinishMore
    \/ Finish
    \/ Interrupted
    \/ Raise
    \/ ReturnProfile

Step == Serialize \/ WriteStringTable \/ Compress

Next ==
    \/ Step
    \/ \E why \in {"trap", "raise"} : Unblock(why)
    \/ Done

Spec == Init /\ [][Next]_vars

\* The flushing thread runs; nobody has to interrupt it.
FairSpec == Spec /\ WF_vars(Step)

-----------------------------------------------------------------------------
(* What makes the outcome correct                                          *)

\* Whenever deflate is called there is room for output, and it begins right
\* after what was written before and ends with the allocation.
RoomForOutput ==
    phase = "deflate" =>
        /\ avail_out > 0
        /\ written + avail_out = gzip_data_allocd_len

\* The length that the caller gets is that of the whole stream; it gets none
\* only when the flush was interrupted.
WholeStream ==
    /\ buflen_out # Unset => buflen_out = stream
    /\ phase = "returned" /\ buflen_out = Unset => interrupt

\* The serialisation ends, however the VM interrupts it.
SerializeEnds == phase = "table" ~> phase \in {"returned", "raised"}

\* pprof_out.c: "Writes a pointer to the memory in *buf_out, and its length to
\* buflen_out", which is what flush_protected makes a string of.
BufferIsSet == phase = "returned" => buflen_out # Unset

=============================================================================
