--------------------------- MODULE FlushProtected ---------------------------
(***************************************************************************)
(* How flush_protected of collector.c puts a profile together: it adds the *)
(* samples to a serctx under the GVL, and then has the serctx serialised.  *)
(* The two parts of pprof_out.c meet in the string table, which the        *)
(* serialisation writes from what the samples have interned.               *)
(***************************************************************************)
EXTENDS Naturals

CONSTANTS Strings, Frames, Kept, NoStack, MaxFrames, MaxSamples,
          out_chunk_size, Payloads, Streams, YieldGvl, Unset

VARIABLES pc, buffers, scratch_buffer, strings, strings_counter, function_ids,
          function_id_counter, location_pbs, loc_counter, profile_proto,
          sample, thunkctx,
          phase, interrupt, pending, avail_in, stream, written,
          gzip_data_allocd_len, avail_out, retval, buflen_out

C == INSTANCE Serctx
S == INSTANCE Serialize

ASSUME Constants ==
    /\ C!StringsAreNames
    /\ C!Depth
    /\ C!NoStackIsNone
    /\ S!Lengths

serctx_vars == <<pc, buffers, scratch_buffer, strings, strings_counter,
                 function_ids, function_id_counter, location_pbs, loc_counter,
                 profile_proto, sample, thunkctx>>
serialize_vars == <<phase, interrupt, pending, avail_in, stream, written,
                    gzip_data_allocd_len, avail_out, retval, buflen_out>>
vars == <<serctx_vars, serialize_vars>>

Init == C!Init /\ S!Init

\* st_foreach: flush_each_sample adds one sample after the other.
AddSamples ==
    /\ phase = "prepare"
    /\ C!AddSamples
    /\ UNCHANGED serialize_vars

\* There is no sample left.
Serialize ==
    /\ pc = "idle"
    /\ sample = NoStack
    /\ S!Serialize
    /\ UNCHANGED serctx_vars

WriteStringTable == S!WriteStringTable /\ C!WriteStringTable

Compress == S!Compress /\ UNCHANGED serctx_vars

Unblock ==
    /\ \E why \in {"trap", "raise"} : S!Unblock(why)
    /\ UNCHANGED serctx_vars

Done == S!Done /\ UNCHANGED serctx_vars

Next ==
    \/ AddSamples
    \/ Serialize
    \/ WriteStringTable
    \/ Compress
    \/ Unblock
    \/ Done

\* The thread that flushes keeps running once it serialises.
Spec ==
    /\ Init
    /\ [][Next]_vars
    /\ WF_vars(WriteStringTable \/ Compress)

-----------------------------------------------------------------------------
(* The properties of the two parts, of the whole flush                     *)

TypeOK == C!TypeOK /\ S!TypeOK

\* No interned string changes its contents or its index.
StringsStay == C!StringsStay

\* Every id in the profile leads to one message.
ReferencesResolve == C!ReferencesResolve

\* A function, and a location, is in the profile once.
OneOfEach == C!OneOfEach

\* Through adding and serialising, the profile decodes to the backtraces of
\* the samples.
KeepsEverySample == C!KeepsEverySample

\* deflate writes inside the output buffer, without a gap.
RoomForOutput == S!RoomForOutput

\* A profile is not returned in part.
WholeStream == S!WholeStream

\* The serialisation ends.
SerializeEnds == S!SerializeEnds

\* What flush returns was written by the serialisation.
BufferIsSet == S!BufferIsSet

=============================================================================
