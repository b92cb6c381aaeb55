------------------------------- MODULE Serctx -------------------------------
(***************************************************************************)
(* The struct mpp_pprof_serctx of pprof_out.c: the profile under           *)
(* construction.  Strings, functions and locations are interned in st      *)
(* tables that give each a number, and a sample is the sequence of the     *)
(* location ids of its frames.                                             *)
(*                                                                         *)
(* Names arrive in a scratch buffer.  A name that is not yet in the string *)
(* table stays where it is: the table keeps the buffer, and the next name  *)
(* gets a new one.  So a string is modelled by the buffer it is in, and    *)
(* `hash' is what the buffer held when the string was entered.             *)
(*                                                                         *)
(* The keys of function_ids and location_pbs are pairs on the C stack, all *)
(* of them at the same address.  Both tables find a pair by its 64 bit     *)
(* hash, which is taken to be as good as the pair.                         *)
(***************************************************************************)
EXTENDS Naturals, Sequences, SequencesExt

CONSTANTS
    Strings,          \* names of methods and files, as far as they are kept
    Frames,           \* frames of backtraces: [name, file, line]
    Kept,             \* what the first 255 bytes keep of a name
    NoStack,          \* no sample is being added
    MaxFrames,        \* bound on the depth of a backtrace
    MaxSamples        \* bound on the number of samples

\* The strings that mpp_pprof_serctx_new interns.
Reserved == <<"", "retained_objects", "count", "retained_size", "bytes">>

\* What is assumed of the constants, like the next two.
StringsAreNames ==
    /\ \A i \in DOMAIN Reserved : Reserved[i] \in Strings
    /\ \A f \in Frames : /\ Kept[f.name] \in Strings
                         /\ Kept[f.file] \in Strings
                         /\ f.line \in Nat

Depth == MaxFrames \in Nat /\ MaxSamples \in Nat

Stacks == UNION {[1 .. n -> Frames] : n \in 0 .. MaxFrames}

NoStackIsNone == NoStack \notin Stacks

VARIABLES
    pc,
    buffers,              \* the contents of the string buffers in the arena
    scratch_buffer,       \* one of them, or 0: none
    strings,              \* the string table
    strings_counter,
    function_ids,         \* (name, file name) -> function id
    function_id_counter,
    location_pbs,         \* (function id, line) -> location id
    loc_counter,
    profile_proto,        \* the repeated fields of the profile
    sample,               \* the sample that is being added
    thunkctx              \* the ids of the frame that is being added

tables == <<strings, strings_counter, function_ids, function_id_counter,
            location_pbs, loc_counter>>
vars == <<pc, buffers, scratch_buffer, tables, profile_proto, sample,
          thunkctx>>

Id == Nat \ {0}

PC == {"idle", "name", "file", "function", "location", "written"}

Thunk == [function_name : Nat, file_name : Nat, function_id : Nat]
NoThunk == [function_name |-> 0, file_name |-> 0, function_id |-> 0]

TypeOK ==
    /\ pc \in PC
    /\ buffers \in Seq(Strings)
    /\ scratch_buffer \in 0 .. Len(buffers)
    /\ strings \subseteq [index : Nat, buffer : DOMAIN buffers, hash : Strings]
    /\ strings_counter \in Nat
    /\ function_ids \subseteq [key : Nat \X Nat, id : Id]
    /\ function_id_counter \in Id
    /\ location_pbs \subseteq [key : Id \X Nat, id : Id]
    /\ loc_counter \in Id
    /\ profile_proto.function \in Seq([id : Id, name : Nat, filename : Nat])
    /\ profile_proto.location \in Seq([id : Id, function_id : Id, line : Nat])
    /\ profile_proto.sample \in Seq(Seq(Id))
    /\ profile_proto.string_table \in Seq(Strings)
    /\ sample \in Stacks \union {NoStack}
    /\ thunkctx \in Thunk

-----------------------------------------------------------------------------
(* mpp_pprof_serctx_new                                                    *)

Init ==
    /\ pc = "idle"
    /\ buffers = Reserved
    /\ scratch_buffer = 0
    /\ strings = {[index |-> i - 1, buffer |-> i, hash |-> Reserved[i]] :
                    i \in DOMAIN Reserved}
    /\ strings_counter = Len(Reserved)
    /\ function_ids = {}
    /\ function_id_counter = 1
    /\ location_pbs = {}
    /\ loc_counter = 1
    /\ profile_proto = [function |-> <<>>, location |-> <<>>, sample |-> <<>>,
                        string_table |-> <<>>]
    /\ sample = NoStack
    /\ thunkctx = NoThunk

-----------------------------------------------------------------------------
(* Interning                                                               *)

\* The buffers after ensure_scratch_buffer and after backtracie has written
\* text to the scratch buffer, and the buffer it wrote to.
Target == IF scratch_buffer = 0 THEN Len(buffers) + 1 ELSE scratch_buffer
Written(text) ==
    IF scratch_buffer = 0 THEN Append(buffers, text)
                          ELSE [buffers EXCEPT ![scratch_buffer] = text]

\* The entries that a look-up in the string table finds for text.
EntriesOf(text) ==
    {e \in strings : e.hash = text /\ Written(text)[e.buffer] = text}

\* The scratch buffer after its contents were entered into the table.
\* Fault: the next name is written over them.
Retained_Kept == Target
Retained == 0

\* intern_scratch_buffer: the index of text goes to the given field.
Intern(text, field) ==
    /\ buffers' = Written(text)
    /\ \/ \E e \in EntriesOf(text) :
             /\ thunkctx' = [thunkctx EXCEPT ![field] = e.index]
             /\ scratch_buffer' = Target
             /\ UNCHANGED <<strings, strings_counter>>
       \/ /\ EntriesOf(text) = {}
          /\ thunkctx' = [thunkctx EXCEPT ![field] = strings_counter]
          /\ strings' = strings \union
               {[index |-> strings_counter, buffer |-> Target, hash |-> text]}
          /\ strings_counter' = strings_counter + 1
          /\ scratch_buffer' = Retained

\* intpair_st_hash_type: the hashes agree.  The comparison of the pairs is
\* never called, since the address of the key is that of all the others.
SamePair(entry, key) == entry.key = key

-----------------------------------------------------------------------------
(* mpp_pprof_serctx_add_sample                                             *)

\* The frame at hand, and where the loop goes after it.
LocationIds == Last(profile_proto.sample)
Frame == sample[Len(LocationIds) + 1]
IsLast == Len(LocationIds) + 1 = Len(sample)

AddSample(stack) ==
    /\ pc = "idle"
    /\ sample = NoStack
    /\ Len(profile_proto.sample) < MaxSamples
    /\ profile_proto' = [profile_proto EXCEPT !.sample = Append(@, <<>>)]
    /\ sample' = stack
    /\ pc' = IF stack = <<>> THEN "idle" ELSE "name"
    /\ UNCHANGED <<buffers, scratch_buffer, tables, thunkctx>>

InternName ==
    /\ pc = "name"
    /\ Intern(Kept[Frame.name], "function_name")
    /\ pc' = "file"
    /\ UNCHANGED <<function_ids, function_id_counter, location_pbs,
                   loc_counter, profile_proto, sample>>

InternFile ==
    /\ pc = "file"
    /\ Intern(Kept[Frame.file], "file_name")
    /\ pc' = "function"
    /\ UNCHANGED <<function_ids, function_id_counter, location_pbs,
                   loc_counter, profile_proto, sample>>

\* function_id_update_func and mpp_pprof_serctx_add_function: a function gets
\* an id, and a message in the profile, when it is seen for the first time.
\* Fault: the entry of the function is not found.
KnownFunctions_None == {}
KnownFunctions ==
    {f \in function_ids :
       SamePair(f, <<thunkctx.function_name, thunkctx.file_name>>)}

AddFunction ==
    /\ pc = "function"
    /\ \/ \E f \in KnownFunctions :
             /\ thunkctx' = [thunkctx EXCEPT !.function_id = f.id]
             /\ UNCHANGED <<function_ids, function_id_counter, profile_proto>>
       \/ /\ KnownFunctions = {}
          /\ thunkctx' = [thunkctx EXCEPT !.function_id = function_id_counter]
          /\ function_ids' = function_ids \union
               {[key |-> <<thunkctx.function_name, thunkctx.file_name>>,
                 id |-> function_id_counter]}
          /\ function_id_counter' = function_id_counter + 1
          /\ profile_proto' =
               [profile_proto EXCEPT !.function =
                  Append(@, [id |-> function_id_counter,
                             name |-> thunkctx.function_name,
                             filename |-> thunkctx.file_name])]
    /\ pc' = "location"
    /\ UNCHANGED <<buffers, scratch_buffer, strings, strings_counter,
                   location_pbs, loc_counter, sample>>

\* mpp_pprof_serctx_add_location, likewise.
\* Fault: functions that share a line number share its location.
LocationKey_Line == <<1, Frame.line>>
LocationKey == <<thunkctx.function_id, Frame.line>>

\* Fault: the counter stays where it is.
NextLocation_Same == loc_counter
NextLocation == loc_counter + 1

KnownLocations == {l \in location_pbs : SamePair(l, LocationKey)}

WithLocation(id) ==
    [profile_proto EXCEPT
       !.sample[Len(profile_proto.sample)] = Append(@, id)]

AddLocation ==
    /\ pc = "location"
    /\ \/ \E l \in KnownLocations :
             /\ profile_proto' = WithLocation(l.id)
             /\ UNCHANGED <<location_pbs, loc_counter>>
       \/ /\ KnownLocations = {}
          /\ location_pbs' = location_pbs \union
               {[key |-> LocationKey, id |-> loc_counter]}
          /\ loc_counter' = NextLocation
          /\ profile_proto' =
               [WithLocation(loc_counter) EXCEPT !.location =
                  Append(@, [id |-> loc_counter,
                             function_id |-> thunkctx.function_id,
                             line |-> Frame.line])]
    /\ pc' = IF IsLast THEN "idle" ELSE "name"
    /\ UNCHANGED <<buffers, scratch_buffer, strings, strings_counter,
                   function_ids, function_id_counter, sample, thunkctx>>

\* The call returns to flush_each_sample.
SampleAdded ==
    /\ pc = "idle"
    /\ sample # NoStack
    /\ sample' = NoStack
    /\ UNCHANGED <<pc, buffers, scratch_buffer, tables, profile_proto,
                   thunkctx>>

-----------------------------------------------------------------------------
(* The start of mpp_pprof_serctx_serialize                                 *)

Entry(index) == CHOOSE e \in strings : e.index = index

\* The string table of the profile has strings_counter entries, and each
\* string goes to its index.
WriteStringTable ==
    /\ pc = "idle"
    /\ sample = NoStack
    /\ pc' = "written"
    /\ profile_proto' =
         [profile_proto EXCEPT !.string_table =
            [i \in 1 .. strings_counter |-> buffers[Entry(i - 1).buffer]]]
    /\ UNCHANGED <<buffers, scratch_buffer, tables, sample, thunkctx>>

-----------------------------------------------------------------------------
Done ==
    /\ pc = "written"
    /\ UNCHANGED vars

\* What flush_each_sample does with the profile.
AddSamples ==
    \/ \E stack \in Stacks : AddSample(stack)
    \/ InternName
    \/ InternFile
    \/ AddFunction
    \/ AddLocation
    \/ SampleAdded

Next == AddSamples \/ WriteStringTable \/ Done

Spec == Init /\ [][Next]_vars

-----------------------------------------------------------------------------
(* What makes the profile correct                                          *)

\* Although the table keeps the buffer a name was written to, no string in it
\* ever changes: each buffer still holds what was entered, and none will be
\* written to again.  Indices and strings correspond one to one, without a
\* gap, and index 0 is "".
StringsStay ==
    /\ \A e \in strings : /\ buffers[e.buffer] = e.hash
                          /\ e.buffer # scratch_buffer
    /\ \A d, e \in strings : d.index = e.index \/ d.hash = e.hash => d = e
    /\ {e.index : e \in strings} = 0 .. strings_counter - 1
    /\ \E e \in strings : e.index = 0 /\ e.hash = ""

\* Every reference in the profile leads to exactly one message, although ids
\* are handed out and messages are added in different places.
ReferencesResolve ==
    /\ \A f, g \in DOMAIN profile_proto.function :
          profile_proto.function[f].id = profile_proto.function[g].id => f = g
    /\ \A k, l \in DOMAIN profile_proto.location :
          profile_proto.location[k].id = profile_proto.location[l].id => k = l
    /\ \A f \in Range(profile_proto.function) :
          f.name < strings_counter /\ f.filename < strings_counter
    /\ \A l \in Range(profile_proto.location) :
          \E f \in Range(profile_proto.function) : f.id = l.function_id
    /\ \A ids \in Range(profile_proto.sample) : \A id \in Range(ids) :
          \E l \in Range(profile_proto.location) : l.id = id

\* "Two frames are the same function if they have the same name and the same
\* filename", and a function and line have one location.
OneOfEach ==
    /\ \A f, g \in DOMAIN profile_proto.function :
          /\ profile_proto.function[f].name = profile_proto.function[g].name
          /\ profile_proto.function[f].filename =
               profile_proto.function[g].filename
          => f = g
    /\ \A k, l \in DOMAIN profile_proto.location :
          /\ profile_proto.location[k].function_id =
               profile_proto.location[l].function_id
          /\ profile_proto.location[k].line = profile_proto.location[l].line
          => k = l

\* The profile as its reader decodes it, without a sample that is only half
\* added: the string, function and location that ids stand for.
Text(index) ==
    IF pc = "written" THEN profile_proto.string_table[index + 1]
                      ELSE buffers[Entry(index).buffer]
MessageOf(messages, id) == CHOOSE m \in Range(messages) : m.id = id
Decoded(id) ==
    LET l == MessageOf(profile_proto.location, id)
        f == MessageOf(profile_proto.function, l.function_id)
    IN [name |-> Text(f.name), file |-> Text(f.filename), line |-> l.line]
Profile ==
    LET all == profile_proto.sample
        whole == IF sample = NoStack THEN all ELSE Front(all)
    IN [i \in DOMAIN whole |->
          [j \in DOMAIN whole[i] |-> Decoded(whole[i][j])]]

SeenOf(stack) ==
    [i \in DOMAIN stack |->
       [name |-> Kept[stack[i].name], file |-> Kept[stack[i].file],
        line |-> stack[i].line]]

\* Decoding the profile gives back the backtraces that were put in, with
\* their names as far as they are kept, and later samples change nothing.
Log == INSTANCE SampleLog WITH profile <- Profile, Seen <- SeenOf
KeepsEverySample == Log!Spec

=============================================================================
